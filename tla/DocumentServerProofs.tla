------------------------ MODULE DocumentServerProofs ------------------------
(***************************************************************************)
(* The documents, sockets and presences of a server: every open store has  *)
(* one owner, a removed document is sealed, presence lists agree, and the  *)
(* connections of a room have different colours.  The exceptions are those *)
(* of the properties: stores that a failed recovery left open (leaked) and *)
(* connections cut off behind a delta of their own (overtaken).            *)
(***************************************************************************)
EXTENDS DocumentServer, SequenceTheorems, FunctionTheorems, FiniteSetTheorems, WellFoundedInduction, TLAPS

-----------------------------------------------------------------------------
(* Finite sets as sequences.                                                *)

(* SetToSeq lists every element of a finite set, and nothing else.          *)
LEMMA SetToSeqLists ==
  ASSUME NEW S, IsFiniteSet(S)
  PROVE  SetToSeq(S) \in Seq(S) /\ ToSet(SetToSeq(S)) = S
<1> DEFINE n == Cardinality(S)
           q == SetToSeq(S)
<1>1. n \in Nat /\ ExistsBijection(1..n, S)
  BY FS_CardinalityType
<1>2. \E f \in [1..n -> S] : IsInjective(f)
  BY <1>1 DEF ExistsBijection, Bijection, Injection, IsInjective
<1>3. q \in [1..n -> S] /\ IsInjective(q)
  BY <1>2 DEF SetToSeq
<1>4. IsFiniteSet(1..n) /\ Cardinality(1..n) = n
  BY <1>1, FS_Interval
<1>5. q \in Surjection(1..n, S)
  <2> HIDE DEF q
  <2>1. q \in Injection(1..n, S)
    BY <1>3 DEF Injection, IsInjective
  <2> QED
    BY <1>4, <2>1, FS_Injection
<1>6. q \in Seq(S)
  BY <1>1, <1>3, SeqDef
<1> QED
  BY <1>3, <1>5, <1>6 DEF Surjection, ToSet

-----------------------------------------------------------------------------
(* Colours.                                                                 *)

LEMMA SocketsFinite == MaxSockets \in Nat /\ IsFiniteSet(Socket)
  BY ServerBounds, FS_Interval DEF Socket

LEMMA SomeSockets ==
  ASSUME NEW S, S \subseteq Socket
  PROVE  IsFiniteSet(S) /\ Cardinality(S) \in Nat
  BY SocketsFinite, FS_Subset, FS_CardinalityType

(* The least-number principle, for a set.                                   *)
LEMMA Smallest ==
  ASSUME NEW T, T \subseteq Nat, T # {}
  PROVE  \E t \in T : \A u \in T : t <= u
<1> DEFINE R == {ss \in Nat \X Nat : ss[1] < ss[2]}
<1>1. IsWellFoundedOn(R, Nat)
  BY NatLessThanWellFounded DEF OpToRel
<1>2. PICK t \in T : \A u \in T : ~ (<<u, t>> \in R)
  <2> HIDE DEF R
  <2> QED
    BY <1>1, WFMin
<1>3. \A u \in T : ~(u < t)
  BY <1>2
<1> QED
  BY <1>3

(* A room has more colours than connections: allocateColorIndex finds one   *)
(* that nobody has.                                                         *)
LEMMA ColorIsNew ==
  ASSUME NEW reg, RegistrySound(reg)
  PROVE  AllocateColor(reg) \in Nat /\ AllocateColor(reg) \notin Colors(reg)
<1> DEFINE D == DOMAIN reg
           C == Colors(reg)
           k == Cardinality(D)
           T == (0..k) \ C
<1>1. IsFiniteSet(D) /\ k \in Nat
  BY SomeSockets DEF RegistrySound
<1>2. IsFiniteSet(C) /\ Cardinality(C) <= k
  <2> DEFINE f == [c \in D |-> reg[c].color]
  <2>1. f \in Surjection(D, C)
    BY DEF Surjection, Colors
  <2> HIDE DEF f, D, C
  <2> QED
    BY <1>1, <2>1, FS_Surjection
<1>3. T # {}
  <2>1. SUFFICES ASSUME 0..k \subseteq C PROVE FALSE
    OBVIOUS
  <2>2. Cardinality(0..k) = k + 1 /\ IsFiniteSet(0..k)
    BY <1>1, FS_Interval
  <2>3. Cardinality(0..k) <= Cardinality(C)
    BY <1>2, <2>1, FS_Subset
  <2>4. Cardinality(C) \in Nat
    BY <1>2, FS_CardinalityType
  <2> HIDE DEF k, C
  <2> QED
    BY <1>1, <1>2, <2>2, <2>3, <2>4
<1>4. PICK n \in T : \A u \in T : n <= u
  <2>1. T \subseteq Nat
    OBVIOUS
  <2> HIDE DEF T
  <2> QED
    BY <1>3, <2>1, Smallest
<1>5. n \in 0..k /\ n \notin C /\ \A m \in 0..n-1 : m \in C
  <2> HIDE DEF k, C
  <2>1. n \in 0..k /\ n \notin C
    OBVIOUS
  <2>2. ASSUME NEW m \in 0..n-1 PROVE m \in C
    <3>1. m \in 0..k /\ ~(n <= m)
      BY <1>1, <2>1
    <3> QED
      BY <1>4, <3>1
  <2> QED
    BY <2>1, <2>2
<1>6. AllocateColor(reg) \in 0..k /\ AllocateColor(reg) \notin C
  BY <1>5 DEF AllocateColor
<1> QED
  BY <1>1, <1>6

-----------------------------------------------------------------------------
(* What a client will know.                                                 *)

(* A sequence and its continuation, by their places.                        *)
LEMMA Concatenated ==
  ASSUME NEW S, NEW q \in Seq(S), NEW ms \in Seq(S), NEW k, k = Len(q), NEW r, r = q \o ms
  PROVE  /\ k \in Nat /\ Len(ms) \in Nat /\ DOMAIN q = 1..k /\ DOMAIN ms = 1..Len(ms)
         /\ r \in Seq(S) /\ DOMAIN r = 1..(k + Len(ms))
         /\ \A i \in 1..k : r[i] = q[i]
         /\ \A i \in 1..Len(ms) : r[k + i] = ms[i]
<1>1. /\ k \in Nat /\ Len(ms) \in Nat /\ DOMAIN q = 1..k /\ DOMAIN ms = 1..Len(ms)
  OBVIOUS
<1>2. /\ r \in Seq(S) /\ Len(r) = k + Len(ms)
      /\ \A i \in 1..k + Len(ms) : r[i] = IF i <= k THEN q[i] ELSE ms[i - k]
  BY ConcatProperties, Zenon
<1>3. DOMAIN r = 1..(k + Len(ms))
  BY <1>1, <1>2
<1>4. \A i \in 1..k : r[i] = q[i]
  BY <1>1, <1>2
<1>5. ASSUME NEW i \in 1..Len(ms) PROVE r[k + i] = ms[i]
  <2>1. k + i \in 1..k + Len(ms) /\ ~(k + i <= k) /\ (k + i) - k = i
    BY <1>1
  <2> QED
    BY <1>2, <2>1
<1> QED
  BY <1>1, <1>2, <1>3, <1>4, <1>5

(* Messages that are not about c change nothing of what is known of it.     *)
LEMMA OthersNews ==
  ASSUME NEW S, NEW q \in Seq(S), NEW ms \in Seq(S), NEW view, NEW s, NEW c, NEW n,
         WillKnow(view, q, s, c, n),
         \A i \in DOMAIN ms : ~Concerns(ms[i], c)
  PROVE  WillKnow(view, q \o ms, s, c, n)
<1> DEFINE r == q \o ms
           k == Len(q)
<1>0. k = Len(q) /\ r = q \o ms
  OBVIOUS
<1> HIDE DEF k, r
<1>1. /\ k \in Nat /\ Len(ms) \in Nat /\ DOMAIN q = 1..k /\ DOMAIN ms = 1..Len(ms)
      /\ r \in Seq(S) /\ DOMAIN r = 1..(k + Len(ms))
      /\ \A i \in 1..k : r[i] = q[i]
      /\ \A i \in 1..Len(ms) : r[k + i] = ms[i]
  BY <1>0, Concatenated
<1>2. \A i \in DOMAIN r : i \in DOMAIN q \/ ~Concerns(r[i], c)
  <2> SUFFICES ASSUME NEW i \in DOMAIN r, i \notin DOMAIN q PROVE ~Concerns(r[i], c)
    OBVIOUS
  <2>1. i - k \in 1..Len(ms) /\ k + (i - k) = i
    BY <1>1
  <2>2. r[i] = ms[i - k]
    BY <1>1, <2>1
  <2> QED
    BY <1>1, <2>1, <2>2
<1>3. \A i \in DOMAIN q : i \in DOMAIN r /\ r[i] = q[i]
  BY <1>1
<1>4. CASE \A i \in DOMAIN q : ~Concerns(q[i], c)
  <2>1. LastOf(view, c) = n
    BY <1>4 DEF WillKnow
  <2>2. \A i \in DOMAIN r : ~Concerns(r[i], c)
    BY <1>2, <1>3, <1>4
  <2> QED
    BY <2>1, <2>2 DEF WillKnow, r
<1>5. ASSUME NEW i \in DOMAIN q, Concerns(q[i], c), Says(q[i], s, c) = n,
             \A j \in DOMAIN q : j > i => ~Concerns(q[j], c)
      PROVE  WillKnow(view, r, s, c, n)
  <2>1. i \in DOMAIN r /\ Concerns(r[i], c) /\ Says(r[i], s, c) = n
    BY <1>3, <1>5
  <2>2. \A j \in DOMAIN r : j > i => ~Concerns(r[j], c)
    BY <1>2, <1>3, <1>5
  <2> QED
    BY <2>1, <2>2 DEF WillKnow
<1> QED
  BY <1>4, <1>5 DEF WillKnow, r

(* Of messages about c, all saying the same, that is what will be known.    *)
LEMMA News ==
  ASSUME NEW S, NEW q \in Seq(S), NEW ms \in Seq(S), NEW view, NEW s, NEW c, NEW n,
         \E i \in DOMAIN ms : Concerns(ms[i], c),
         \A i \in DOMAIN ms : Concerns(ms[i], c) => Says(ms[i], s, c) = n
  PROVE  WillKnow(view, q \o ms, s, c, n)
<1> DEFINE r == q \o ms
           k == Len(q)
<1>0. k = Len(q) /\ r = q \o ms
  OBVIOUS
<1> HIDE DEF k, r
<1>1. /\ k \in Nat /\ Len(ms) \in Nat /\ DOMAIN q = 1..k /\ DOMAIN ms = 1..Len(ms)
      /\ r \in Seq(S) /\ DOMAIN r = 1..(k + Len(ms))
      /\ \A i \in 1..k : r[i] = q[i]
      /\ \A i \in 1..Len(ms) : r[k + i] = ms[i]
  BY <1>0, Concatenated
<1> DEFINE l == Len(ms)
           T == {t \in Nat : l - t \in 1..l /\ Concerns(ms[l - t], c)}
<1>a. \A i \in 1..l : l - i \in Nat /\ l - (l - i) = i
  BY <1>1
<1>2. PICK t \in T : \A u \in T : t <= u
  <2>1. PICK i \in 1..l : Concerns(ms[i], c)
    BY <1>1
  <2>2. l - i \in T
    BY <1>a, <2>1
  <2>3. T \subseteq Nat
    OBVIOUS
  <2> HIDE DEF T
  <2> QED
    BY <2>2, <2>3, Smallest
<1> DEFINE i == l - t
<1>3. t \in Nat /\ i \in 1..l /\ Concerns(ms[i], c)
  BY <1>2
<1>4. \A j \in 1..l : j > i => ~Concerns(ms[j], c)
  <2> SUFFICES ASSUME NEW j \in 1..l, j > i, Concerns(ms[j], c) PROVE FALSE
    OBVIOUS
  <2>1. l - j \in T
    BY <1>a
  <2>2. t <= l - j
    BY <1>2, <2>1
  <2> QED
    BY <1>1, <1>3, <2>2
<1> HIDE DEF i
<1> HIDE DEF T
<1>5. k + i \in DOMAIN r /\ r[k + i] = ms[i]
  BY <1>1, <1>3
<1>6. \A j \in DOMAIN r : j > k + i => ~Concerns(r[j], c)
  <2> SUFFICES ASSUME NEW j \in DOMAIN r, j > k + i PROVE ~Concerns(r[j], c)
    OBVIOUS
  <2>1. j - k \in 1..Len(ms) /\ k + (j - k) = j /\ j - k > i
    BY <1>1, <1>3
  <2>2. r[j] = ms[j - k]
    BY <1>1, <2>1
  <2> QED
    BY <1>4, <2>1, <2>2
<1>7. Says(ms[i], s, c) = n
  BY <1>1, <1>3
<1> QED
  BY <1>3, <1>5, <1>6, <1>7 DEF WillKnow, r

(* Reading the first message leaves unchanged what will be known.           *)
LEMMA ReadingKeeps ==
  ASSUME NEW S, NEW q \in Seq(S), q # <<>>, IsMessage(q[1]), NEW view, IsView(view), NEW s, NEW c, NEW n,
         WillKnow(view, q, s, c, n)
  PROVE  WillKnow(Heard(view, s, q[1]), Tail(q), s, c, n)
<1> DEFINE m == q[1]
           r == Tail(q)
<1>1. /\ Len(q) \in Nat \ {0} /\ DOMAIN q = 1..Len(q)
      /\ r \in Seq(S) /\ DOMAIN r = 1..(Len(q) - 1)
      /\ \A i \in 1..(Len(q) - 1) : r[i] = q[i + 1]
  OBVIOUS
<1> HIDE DEF m, r
<1>2. ASSUME Concerns(m, c)
      PROVE  LastOf(Heard(view, s, m), c) = Says(m, s, c)
  <2>1. CASE m.type = "snapshot"
    BY <2>1, Zenon DEF Heard, Says, LastOf, Without, Restrict
  <2>2. CASE m.type = "delta"
    BY <1>2, <2>2, Zenon DEF Heard, Says, LastOf, Concerns
  <2>3. CASE m.type = "removed"
    BY <1>2, <2>3, Zenon DEF Heard, Says, LastOf, Without, Restrict, Concerns
  <2> QED
    BY <2>1, <2>2, <2>3 DEF IsMessage, m
<1>3. ASSUME ~Concerns(m, c)
      PROVE  LastOf(Heard(view, s, m), c) = LastOf(view, c)
  <2>2. CASE m.type = "delta"
    BY <1>3, <2>2, Zenon DEF Heard, Says, LastOf, Concerns
  <2>3. CASE m.type = "removed"
    BY <1>3, <2>3, Zenon DEF Heard, Says, LastOf, Without, Restrict, Concerns
  <2> QED
    BY <1>3, <2>2, <2>3 DEF IsMessage, m, Concerns
<1>4. \A i \in DOMAIN r : i + 1 \in DOMAIN q /\ q[i + 1] = r[i]
  BY <1>1
<1>5. \A i \in DOMAIN q : i = 1 \/ (i - 1 \in DOMAIN r /\ r[i - 1] = q[i])
  <2> SUFFICES ASSUME NEW i \in DOMAIN q, i # 1 PROVE i - 1 \in DOMAIN r /\ r[i - 1] = q[i]
    OBVIOUS
  <2>1. i - 1 \in 1..(Len(q) - 1) /\ (i - 1) + 1 = i
    BY <1>1
  <2> QED
    BY <1>1, <2>1
<1>6. CASE \A i \in DOMAIN q : ~Concerns(q[i], c)
  <2>1. ~Concerns(m, c) /\ LastOf(view, c) = n
    BY <1>1, <1>6 DEF WillKnow, m
  <2>2. \A i \in DOMAIN r : ~Concerns(r[i], c)
    BY <1>4, <1>6
  <2> QED
    BY <1>3, <2>1, <2>2 DEF WillKnow, m, r
<1>7. ASSUME NEW i \in DOMAIN q, Concerns(q[i], c), Says(q[i], s, c) = n,
             \A j \in DOMAIN q : j > i => ~Concerns(q[j], c)
      PROVE  WillKnow(Heard(view, s, m), r, s, c, n)
  <2>1. CASE i = 1
    <3>1. \A j \in DOMAIN r : ~Concerns(r[j], c)
      <4> SUFFICES ASSUME NEW j \in DOMAIN r PROVE ~Concerns(r[j], c)
        OBVIOUS
      <4>1. j + 1 \in DOMAIN q /\ q[j + 1] = r[j]
        BY <1>4
      <4>2. j + 1 > 1
        BY <1>1
      <4> QED
        BY <1>7, <2>1, <4>1, <4>2
    <3>2. LastOf(Heard(view, s, m), c) = n
      BY <1>2, <1>7, <2>1 DEF m
    <3> QED
      BY <3>1, <3>2 DEF WillKnow
  <2>2. CASE i # 1
    <3>1. i - 1 \in DOMAIN r /\ r[i - 1] = q[i]
      BY <1>5, <1>7, <2>2
    <3>2. ASSUME NEW j \in DOMAIN r, j > i - 1 PROVE ~Concerns(r[j], c)
      <4>1. j + 1 \in DOMAIN q /\ q[j + 1] = r[j]
        BY <1>4
      <4>2. j + 1 > i
        BY <1>1, <1>7, <3>2
      <4> QED
        BY <1>7, <4>1, <4>2
    <3> QED
      BY <1>7, <3>1, <3>2 DEF WillKnow
  <2> QED
    BY <2>1, <2>2
<1> QED
  BY <1>6, <1>7 DEF WillKnow, m, r

(* Who has read everything knows what he was to know.                       *)
LEMMA AllRead ==
  ASSUME NEW view, NEW s, NEW c, NEW n, WillKnow(view, <<>>, s, c, n)
  PROVE  LastOf(view, c) = n
  BY DEF WillKnow

-----------------------------------------------------------------------------
(* Tables.                                                                  *)

(* A function on nothing is the empty one.                                  *)
LEMMA EmptyTable ==
  ASSUME NEW f, f = [c \in DOMAIN f |-> f[c]], DOMAIN f = {}
  PROVE  f = <<>>
<1>1. f \in Seq({})
  <2>1. 1..0 = {}
    OBVIOUS
  <2>2. f \in [1..0 -> {}]
    BY <2>1
  <2> QED
    BY <2>2, SeqDef
<1>2. Len(f) = 0
  BY <1>1
<1> QED
  BY <1>1, <1>2, EmptySeq

LEMMA EmptyView == IsView(<<>>)
<1>1. DOMAIN <<>> = {}
  OBVIOUS
<1>2. <<>> = [c \in DOMAIN <<>> |-> <<>>[c]]
  <2>1. <<>> \in [1..0 -> {}]
    OBVIOUS
  <2> QED
    BY <2>1
<1> QED
  BY <1>1, <1>2 DEF IsView

LEMMA EmptyQueue == QueueSound(<<>>)
  BY DEF QueueSound, ToSet

(* Two views that know the same are the same.                               *)
LEMMA SameView ==
  ASSUME NEW v, IsView(v), NEW w, IsView(w), \A c \in Socket : LastOf(v, c) = LastOf(w, c)
  PROVE  v = w
<1>1. ASSUME NEW c PROVE c \in DOMAIN v <=> c \in DOMAIN w
  BY DEF IsView, LastOf
<1>2. DOMAIN v = DOMAIN w
  BY <1>1
<1>3. \A c \in DOMAIN v : v[c] = w[c]
  BY <1>2 DEF IsView, LastOf
<1> QED
  BY <1>2, <1>3 DEF IsView

(* The rest of a table.                                                     *)
LEMMA WithoutFacts ==
  ASSUME NEW reg, NEW L
  PROVE  /\ DOMAIN Without(reg, L) = DOMAIN reg \ L
         /\ \A c \in DOMAIN reg \ L : Without(reg, L)[c] = reg[c]
         /\ RegistrySound(reg) => RegistrySound(Without(reg, L))
         /\ IsView(reg) => IsView(Without(reg, L))
<1>1. /\ DOMAIN Without(reg, L) = DOMAIN reg \ L
      /\ \A c \in DOMAIN reg \ L : Without(reg, L)[c] = reg[c]
      /\ Without(reg, L) = [c \in DOMAIN Without(reg, L) |-> Without(reg, L)[c]]
  BY Zenon DEF Without, Restrict
<1> QED
  BY <1>1 DEF RegistrySound, IsView

(* Queues.                                                                  *)
LEMMA QueueOfOne ==
  ASSUME NEW m, IsMessage(m)
  PROVE  /\ QueueSound(<<m>>) /\ DOMAIN <<m>> = {1} /\ <<m>>[1] = m
<1>1. /\ <<m>> \in Seq({m}) /\ Len(<<m>>) = 1 /\ <<m>>[1] = m
  OBVIOUS
<1>2. DOMAIN <<m>> = {1}
  BY <1>1
<1>3. ToSet(<<m>>) = {m}
  BY <1>1, <1>2 DEF ToSet
<1> QED
  BY <1>1, <1>2, <1>3 DEF QueueSound

LEMMA QueueConcat ==
  ASSUME NEW q, QueueSound(q), NEW ms, QueueSound(ms)
  PROVE  QueueSound(q \o ms)
<1> DEFINE S == ToSet(q) \cup ToSet(ms)
           r == q \o ms
           k == Len(q)
<1>1. q \in Seq(S) /\ ms \in Seq(S)
  BY DEF QueueSound
<1>2. \A m \in S : IsMessage(m)
  BY DEF QueueSound
<1>3. k = Len(q) /\ r = q \o ms
  OBVIOUS
<1> HIDE DEF S, r, k
<1>4. r \in Seq(S)
  BY <1>1, <1>3, Concatenated
<1>5. r \in Seq(ToSet(r)) /\ ToSet(r) \subseteq S
  BY <1>4, SeqDef DEF ToSet
<1> QED
  BY <1>2, <1>5 DEF QueueSound, r

LEMMA QueueTail ==
  ASSUME NEW q, QueueSound(q), q # <<>>
  PROVE  QueueSound(Tail(q)) /\ IsMessage(q[1]) /\ Head(q) = q[1]
<1> DEFINE S == ToSet(q)
           r == Tail(q)
<1>1. q \in Seq(S) /\ \A m \in S : IsMessage(m)
  BY DEF QueueSound
<1>2. r \in Seq(S) /\ Head(q) = q[1] /\ q[1] \in S
  BY <1>1
<1> HIDE DEF S, r
<1>3. r \in Seq(ToSet(r)) /\ ToSet(r) \subseteq S
  BY <1>2, SeqDef DEF ToSet
<1> QED
  BY <1>1, <1>2, <1>3 DEF QueueSound, r

-----------------------------------------------------------------------------
(* Connections that leave a room.                                           *)

Farewell(reg, S) == SetToSeq({[type |-> "removed", from |-> c] : c \in S \cap Shown(reg)})

LEMMA FarewellFacts ==
  ASSUME NEW reg, RegistrySound(reg), NEW L
  PROVE  /\ QueueSound(Farewell(reg, L))
         /\ \A i \in DOMAIN Farewell(reg, L) :
              /\ Farewell(reg, L)[i].type = "removed"
              /\ Farewell(reg, L)[i].from \in L \cap Shown(reg)
         /\ \A c \in L \cap Shown(reg) :
              \E i \in DOMAIN Farewell(reg, L) : Farewell(reg, L)[i].from = c
<1> DEFINE C == L \cap Shown(reg)
           M == {[type |-> "removed", from |-> c] : c \in C}
           q == SetToSeq(M)
<1>1. C \subseteq Socket
  BY DEF RegistrySound, Shown
<1>2. IsFiniteSet(M)
  <2> DEFINE f == [c \in C |-> [type |-> "removed", from |-> c]]
  <2>1. f \in Surjection(C, M)
    BY DEF Surjection
  <2>2. IsFiniteSet(C)
    BY <1>1, SomeSockets
  <2> HIDE DEF f, C, M
  <2> QED
    BY <2>1, <2>2, FS_Surjection
<1>3. q \in Seq(M) /\ ToSet(q) = M
  <2> HIDE DEF M
  <2> QED
    BY <1>2, SetToSeqLists
<1>4. \A m \in M : m.type = "removed" /\ m.from \in C /\ DOMAIN m = {"type", "from"}
  OBVIOUS
<1>5. \A c \in C : \E m \in M : m.from = c
  <2> SUFFICES ASSUME NEW c \in C PROVE \E m \in M : m.from = c
    OBVIOUS
  <2> WITNESS [type |-> "removed", from |-> c] \in M
  <2> QED
    OBVIOUS
<1>6. q = Farewell(reg, L)
  BY DEF Farewell
<1> HIDE DEF M, C, q
<1>7. \A i \in DOMAIN q : q[i] \in M
  BY <1>3
<1>8. \A m \in M : \E i \in DOMAIN q : q[i] = m
  BY <1>3 DEF ToSet
<1>9. \A m \in M : IsMessage(m)
  BY <1>1, <1>4 DEF IsMessage
<1>10. QueueSound(q)
  BY <1>3, <1>9 DEF QueueSound
<1>11. \A c \in C : \E i \in DOMAIN q : q[i].from = c
  BY <1>5, <1>8
<1> QED
  BY <1>4, <1>6, <1>7, <1>10, <1>11 DEF C

(* Who stays learns of all who leave.                                       *)
LEMMA FarewellHeard ==
  ASSUME NEW reg, RegistrySound(reg), NEW L, NEW view, NEW q, QueueSound(q), NEW t, t \notin L,
         NEW c, WillKnow(view, q, t, c, Due(reg, t, c))
  PROVE  WillKnow(view, q \o Farewell(reg, L), t, c, Due(Without(reg, L), t, c))
<1> DEFINE ms == Farewell(reg, L)
           n == Due(Without(reg, L), t, c)
           S == ToSet(q) \cup ToSet(ms)
<1>1. /\ QueueSound(ms)
      /\ \A i \in DOMAIN ms : ms[i].type = "removed" /\ ms[i].from \in L \cap Shown(reg)
      /\ \A d \in L \cap Shown(reg) : \E i \in DOMAIN ms : ms[i].from = d
  BY FarewellFacts
<1>2. q \in Seq(S) /\ ms \in Seq(S)
  <2>1. q \in Seq(ToSet(q)) /\ ms \in Seq(ToSet(ms))
    BY <1>1 DEF QueueSound
  <2> HIDE DEF ms
  <2> QED
    BY <2>1
<1>3. n = IF c # t /\ c \in DOMAIN reg \ L THEN reg[c].seq ELSE 0
  BY WithoutFacts DEF Due
<1> HIDE DEF ms, n, S
<1>4. CASE c \in L \cap Shown(reg)
  <2>1. n = 0
    BY <1>3, <1>4
  <2>2. \A i \in DOMAIN ms : Says(ms[i], t, c) = n
    BY <1>1, <2>1 DEF Says
  <2>3. \E i \in DOMAIN ms : Concerns(ms[i], c)
    BY <1>1, <1>4 DEF Concerns
  <2> QED
    BY <1>2, <2>2, <2>3, News DEF ms, n
<1>5. CASE c \notin L \cap Shown(reg)
  <2>1. n = Due(reg, t, c)
    BY <1>3, <1>5 DEF Due, Shown, RegistrySound
  <2>2. \A i \in DOMAIN ms : ~Concerns(ms[i], c)
    BY <1>1, <1>5 DEF Concerns
  <2> QED
    BY <1>2, <2>1, <2>2, OthersNews DEF ms, n
<1> QED
  BY <1>4, <1>5

-----------------------------------------------------------------------------
(* Steps of a bridge: one runtime changes, but not whose it is, whether it  *)
(* is retired and whether its store is open.                                *)

(* The lists but for the connections of X, where no delta waits.            *)
ListsBut(X) ==
  \A i \in Runtime : \A s \in DOMAIN runtime[i].presence : \A c \in Socket \ X :
    WillKnow(known[s], down[s], s, c, Due(runtime[i].presence, s, c))

InvBut(X) == TablesInv /\ (\A c \in X : Out(c)) /\ ListsBut(X)

BridgeStep(i, r) ==
  /\ i \in Runtime /\ runtime' = [runtime EXCEPT ![i] = r] /\ RuntimeSound(r)
  /\ r.doc = runtime[i].doc /\ r.store = runtime[i].store /\ r.retired = runtime[i].retired
  /\ r.retired /\ runtime[i].queue = <<>> => r.queue = <<>>
  /\ UNCHANGED docVars
  /\ DOMAIN spent' = DOMAIN spent /\ spent'.unclosed = spent.unclosed /\ spent'.leaked = spent.leaked

LEMMA OneRuntime ==
  ASSUME NEW i \in Runtime, NEW r, runtime' = [runtime EXCEPT ![i] = r]
  PROVE  /\ Runtime' = Runtime /\ runtime'[i] = r
         /\ \A j \in Runtime : j # i => runtime'[j] = runtime[j]
  BY DEF Runtime

LEMMA BridgeStepKeeps ==
  ASSUME TablesSound, OwnersSound, StopSound, NEW i, NEW r, BridgeStep(i, r)
  PROVE  RuntimeTable' /\ DocumentTable' /\ OwnersSound' /\ StopSound'
<1>1. /\ Runtime' = Runtime /\ runtime'[i] = r
      /\ \A j \in Runtime : j # i => runtime'[j] = runtime[j]
  BY OneRuntime DEF BridgeStep
<1>2. \A j \in Runtime :
        /\ runtime'[j].doc = runtime[j].doc /\ runtime'[j].store = runtime[j].store
        /\ runtime'[j].retired = runtime[j].retired
        /\ runtime[j].retired /\ runtime[j].queue = <<>> => runtime'[j].queue = <<>>
        /\ RuntimeSound(runtime'[j])
  BY <1>1 DEF BridgeStep, TablesSound, RuntimeTable
<1>3. /\ runtimes' = runtimes /\ retiring' = retiring /\ work' = work /\ stop' = stop
      /\ DOMAIN spent' = DOMAIN spent /\ spent'.unclosed = spent.unclosed /\ spent'.leaked = spent.leaked
  BY DEF BridgeStep, docVars
<1>4. RuntimeTable'
  <2>1. Cardinality(Runtime)' = Cardinality(Runtime)
    BY <1>1
  <2> QED
    BY <1>1, <1>2, <2>1 DEF TablesSound, RuntimeTable
<1>5. DocumentTable'
  BY <1>1, <1>3 DEF TablesSound, DocumentTable
<1>6. OwnersSound'
  <2>1. \A d \in Doc :
          /\ runtimes[d] \in Maybe(Runtime) /\ retiring[d] \in Maybe(Runtime)
          /\ work[d].of \in Maybe(Runtime)
    BY DEF TablesSound, DocumentTable
  <2>2. ASSUME NEW d \in Doc
        PROVE  /\ runtimes[d] # None =>
                    /\ runtime'[runtimes[d]].doc = d /\ ~runtime'[runtimes[d]].retired
                    /\ retiring[d] = None /\ work[d] = Idle
               /\ retiring[d] # None => runtime'[retiring[d]].doc = d
               /\ work[d].step = "idle" => work[d] = Idle
               /\ work[d].step = "recovering" =>
                    /\ work[d].of # None /\ retiring[d] = None
                    /\ runtime'[work[d].of].doc = d /\ ~runtime'[work[d].of].retired
               /\ work[d].step \in {"draining", "closing"} =>
                    work[d].of = retiring[d] /\ retiring[d] # None
               /\ work[d].step = "closing" /\ runtime'[work[d].of].retired =>
                    runtime'[work[d].of].queue = <<>>
               /\ ~Closed => \A j \in {runtimes[d], retiring[d], work[d].of} \ {None} :
                               runtime'[j].store = "open"
    <3>1. runtimes[d] # None => runtimes[d] \in Runtime
      BY <2>1 DEF Maybe
    <3>2. retiring[d] # None => retiring[d] \in Runtime
      BY <2>1 DEF Maybe
    <3>3. work[d].of # None => work[d].of \in Runtime
      BY <2>1 DEF Maybe
    <3> QED
      BY <1>2, <3>1, <3>2, <3>3 DEF OwnersSound, Accounted, Owned
  <2>3. ASSUME NEW j \in Runtime
        PROVE  /\ runtime'[j].store = "open" /\ j \notin spent.leaked =>
                    LET d == runtime'[j].doc IN j \in {runtimes[d], retiring[d], work[d].of}
               /\ runtime'[j].retired /\ runtime'[j].store = "closed" /\ ~Closed =>
                    runtime'[j].queue = <<>>
    BY <1>2 DEF OwnersSound, Accounted, Owned
  <2> QED
    BY <1>1, <1>3, <2>2, <2>3 DEF OwnersSound, Accounted, Owned, Closed, Idle
<1>7. StopSound'
  BY <1>1, <1>2, <1>3 DEF StopSound, Idle
<1> QED
  BY <1>4, <1>5, <1>6, <1>7

(* What happens to the lists where nobody joins, leaves, reads or speaks.   *)
LEMMA ListsFrame ==
  ASSUME NEW X, ListsBut(X), ColorsAreDistinct,
         \A i \in Runtime' : \A s \in DOMAIN runtime'[i].presence :
           /\ i \in Runtime /\ runtime'[i].presence = runtime[i].presence
           /\ known'[s] = known[s] /\ down'[s] = down[s]
  PROVE  ListsBut(X)' /\ ColorsAreDistinct'
<1>1. ListsBut(X)'
  BY DEF ListsBut, Due, WillKnow
<1>2. ColorsAreDistinct'
  BY DEF ColorsAreDistinct
<1> QED
  BY <1>1, <1>2

(* L leave the room of i, and those who stay are told; G are gone.          *)
Leaving(i, L, reg, G) ==
  /\ i \in Runtime /\ reg = runtime[i].presence /\ L \subseteq DOMAIN reg
  /\ Runtime' = Runtime
  /\ \A j \in Runtime : j # i => runtime'[j].presence = runtime[j].presence
  /\ runtime'[i].presence = Without(reg, L)
  /\ \A j \in Runtime : \A t \in DOMAIN runtime'[j].presence : t \notin G
  /\ \A t \in Socket \ G :
       /\ known'[t] = known[t]
       /\ down'[t] = IF t \in DOMAIN reg \ L THEN down[t] \o Farewell(reg, L) ELSE down[t]

LEMMA LeavingKeeps ==
  ASSUME TablesSound, SocketsSound, NEW X, ListsBut(X), ColorsAreDistinct,
         NEW i, NEW L, NEW reg, NEW G, Leaving(i, L, reg, G)
  PROVE  ListsBut(X)' /\ ColorsAreDistinct'
<1>0. /\ i \in Runtime /\ reg = runtime[i].presence /\ L \subseteq DOMAIN reg
      /\ Runtime' = Runtime
      /\ \A j \in Runtime : j # i => runtime'[j].presence = runtime[j].presence
      /\ runtime'[i].presence = Without(reg, L)
      /\ \A j \in Runtime : \A t \in DOMAIN runtime'[j].presence : t \notin G
      /\ \A t \in Socket \ G :
           /\ known'[t] = known[t]
           /\ down'[t] = IF t \in DOMAIN reg \ L THEN down[t] \o Farewell(reg, L) ELSE down[t]
  BY DEF Leaving
<1>2. /\ DOMAIN Without(reg, L) = DOMAIN reg \ L
      /\ \A c \in DOMAIN reg \ L : Without(reg, L)[c] = reg[c]
  BY WithoutFacts
<1> USE <1>0
<1>1. RegistrySound(reg) /\ \A s \in Socket : QueueSound(down[s])
  BY DEF TablesSound, RuntimeTable, RuntimeSound, SocketTable
<1>3. \A j \in Runtime : DOMAIN runtime[j].presence \subseteq Socket
  BY DEF TablesSound, RuntimeTable, RuntimeSound, RegistrySound
<1>4. ASSUME NEW j \in Runtime, NEW t \in DOMAIN runtime'[j].presence, NEW c \in Socket \ X
      PROVE  WillKnow(known'[t], down'[t], t, c, Due(runtime'[j].presence, t, c))
  <2>1. CASE j = i
    <3>1. t \in DOMAIN reg \ L /\ t \in Socket \ G
      BY <1>2, <1>3, <2>1
    <3>2. WillKnow(known[t], down[t], t, c, Due(reg, t, c))
      BY <2>1, <3>1 DEF ListsBut
    <3>3. WillKnow(known[t], down[t] \o Farewell(reg, L), t, c, Due(Without(reg, L), t, c))
      BY <1>1, <3>1, <3>2, FarewellHeard
    <3>4. known'[t] = known[t] /\ down'[t] = down[t] \o Farewell(reg, L)
      BY <3>1
    <3> QED
      BY <2>1, <3>3, <3>4
  <2>2. CASE j # i
    <3>1. t \in DOMAIN runtime[j].presence /\ t \in Socket \ G
      BY <1>3, <2>2
    <3>2. t \notin DOMAIN reg
      BY <2>2, <3>1 DEF SocketsSound
    <3>3. known'[t] = known[t] /\ down'[t] = down[t]
      BY <3>1, <3>2
    <3>4. WillKnow(known[t], down[t], t, c, Due(runtime[j].presence, t, c))
      BY <3>1 DEF ListsBut
    <3> QED
      BY <2>2, <3>3, <3>4
  <2> QED
    BY <2>1, <2>2
<1>5. ListsBut(X)'
  BY <1>4, Zenon DEF ListsBut
<1>6. ColorsAreDistinct'
  <2> SUFFICES ASSUME NEW j \in Runtime,
                      NEW s \in DOMAIN runtime'[j].presence, NEW t \in DOMAIN runtime'[j].presence,
                      s # t
               PROVE  runtime'[j].presence[s].color # runtime'[j].presence[t].color
    BY DEF ColorsAreDistinct
  <2>1. CASE j = i
    BY <1>2, <2>1 DEF ColorsAreDistinct
  <2>2. CASE j # i
    BY <2>2 DEF ColorsAreDistinct
  <2> QED
    BY <2>1, <2>2
<1> QED
  BY <1>5, <1>6

(* Sockets of a bridge are closed: they keep their bridge and are in no     *)
(* registry any more.                                                       *)
LEMMA ClosingKeeps ==
  ASSUME TablesSound, SocketsSound, NEW X, ListsBut(X), ColorsAreDistinct,
         NEW i \in Runtime, NEW r, RuntimeSound(r), r.presence = runtime[i].presence,
         NEW S, S \subseteq Socket,
         \A s \in S : socket[s].at = i /\ socket[s].phase \in {"open", "closing"},
         r.retired => /\ \A s \in Socket : socket[s].at = i /\ socket[s].phase = "open" => s \in S
                      /\ DOMAIN r.presence \subseteq S,
         CloseSockets(i, r, S), known' = known, stop' = stop
  PROVE  /\ SocketTable' /\ SocketsSound' /\ ListsBut(X)' /\ ColorsAreDistinct'
         /\ \A c \in Socket : c \in S \/ Out(c) => Out(c)'
         /\ \E p : /\ runtime' = [runtime EXCEPT ![i] = [r EXCEPT !.presence = p]]
                   /\ RegistrySound(p)
<1> DEFINE reg == runtime[i].presence
           L == S \cap DOMAIN reg
           p == Without(reg, S)
           one == [r EXCEPT !.presence = p]
<1>1. RegistrySound(reg) /\ DOMAIN reg \subseteq Socket
  BY DEF TablesSound, RuntimeTable, RuntimeSound, RegistrySound
<1>2. runtime' = [runtime EXCEPT ![i] = one] /\ RegistrySound(p)
  BY <1>1, WithoutFacts DEF CloseSockets
<1>3. one.presence = p /\ one.retired = r.retired
  BY DEF RuntimeSound
<1>4. p = Without(reg, L)
  BY DEF Without
<1>5. DOMAIN p = DOMAIN reg \ S
  BY WithoutFacts
<1>6. /\ Runtime' = Runtime /\ runtime'[i] = one
      /\ \A j \in Runtime : j # i => runtime'[j] = runtime[j]
  <2> HIDE DEF one
  <2> QED
    BY <1>2, OneRuntime
<1>7. \A t \in Socket :
        down'[t] = IF t \in DOMAIN reg \ L THEN down[t] \o Farewell(reg, L) ELSE down[t]
  BY DEF CloseSockets, Farewells, Fanned, Farewell
<1>8. DOMAIN down' = Socket
  BY DEF CloseSockets, Farewells, Fanned
<1> HIDE DEF reg, p, one
<1>9. ListsBut(X)' /\ ColorsAreDistinct'
  <2>1. L \subseteq DOMAIN reg /\ reg = runtime[i].presence
    BY DEF reg
  <2>2. runtime'[i].presence = Without(reg, L) /\ \A j \in Runtime : j # i => runtime'[j].presence = runtime[j].presence
    BY <1>3, <1>4, <1>6
  <2>3. \A t \in Socket \ {} :
           /\ known'[t] = known[t]
           /\ down'[t] = IF t \in DOMAIN reg \ L THEN down[t] \o Farewell(reg, L) ELSE down[t]
    BY <1>7
  <2>4. \A j \in Runtime : \A t \in DOMAIN runtime'[j].presence : t \notin {}
    OBVIOUS
  <2>5. Leaving(i, L, reg, {})
    BY <1>6, <2>1, <2>2, <2>3, <2>4 DEF Leaving
  <2> HIDE DEF L
  <2> QED
    BY <2>5, LeavingKeeps
<1>10. socket' = [s \in Socket |-> IF s \in S THEN [socket[s] EXCEPT !.phase = "closing"] ELSE socket[s]]
  BY DEF CloseSockets, Shut
<1>11. \A s \in Socket :
         /\ socket'[s].at = socket[s].at
         /\ s \in S => socket'[s].phase = "closing"
         /\ s \notin S => socket'[s].phase = socket[s].phase
         /\ socket'[s] \in [phase : {"closed", "authenticating", "upgrading", "open", "closing"},
                            at : Maybe(Runtime)]
  BY <1>10 DEF TablesSound, SocketTable
<1>12. SocketTable'
  <2>1. \A s \in Socket : QueueSound(down'[s])
    <3> SUFFICES ASSUME NEW s \in Socket PROVE QueueSound(down'[s])
      OBVIOUS
    <3>1. QueueSound(down[s]) /\ QueueSound(Farewell(reg, L))
      BY <1>1, FarewellFacts DEF TablesSound, SocketTable
    <3> QED
      BY <1>7, <3>1, QueueConcat
  <2>2. socket' \in [Socket -> [phase : {"closed", "authenticating", "upgrading", "open", "closing"},
                                at : Maybe(Runtime)]]
    BY <1>10, <1>11
  <2> QED
    BY <1>6, <1>8, <2>1, <2>2 DEF TablesSound, SocketTable, Maybe
<1>13. \A s \in Socket : s \notin DOMAIN reg => down'[s] = down[s]
  BY <1>7
<1>14. \A j \in Runtime : DOMAIN runtime'[j].presence \subseteq DOMAIN runtime[j].presence
  BY <1>3, <1>5, <1>6 DEF reg
<1>15. ASSUME NEW s \in Socket
       PROVE  /\ socket'[s].phase \in {"upgrading", "open", "closing"} => socket'[s].at # None
              /\ socket'[s].phase = "open" => ~runtime'[socket'[s].at].retired
              /\ socket'[s].phase \in {"closed", "authenticating", "upgrading"} => down'[s] = <<>>
              /\ socket'[s].phase = "open" /\ s \notin DOMAIN runtime'[socket'[s].at].presence =>
                   down'[s] = <<>>
  <2>1. CASE s \in S
    BY <1>11, <2>1 DEF SocketsSound
  <2>2. CASE s \notin S
    <3>1. socket'[s].phase = socket[s].phase /\ socket'[s].at = socket[s].at
      BY <1>11, <2>2
    <3>2. socket[s].phase \in {"upgrading", "open", "closing"} => socket[s].at # None /\ socket[s].at \in Runtime
      BY <1>11, <3>1 DEF SocketsSound, Maybe
    <3>3. socket[s].phase = "open" => ~runtime'[socket[s].at].retired
      BY <1>3, <1>6, <2>2, <3>2 DEF SocketsSound
    <3>4. socket[s].phase \in {"closed", "authenticating", "upgrading"} => s \notin DOMAIN reg
      BY DEF SocketsSound, reg
    <3>5. socket[s].phase = "open" /\ s \notin DOMAIN runtime'[socket[s].at].presence => down'[s] = <<>>
      <4> SUFFICES ASSUME socket[s].phase = "open", s \notin DOMAIN runtime'[socket[s].at].presence
                   PROVE  down'[s] = <<>>
        OBVIOUS
      <4>1. s \notin DOMAIN runtime[socket[s].at].presence
        BY <1>3, <1>5, <1>6, <2>2, <3>2 DEF reg
      <4>2. s \notin DOMAIN reg
        BY <4>1 DEF SocketsSound, reg
      <4> QED
        BY <1>13, <4>1, <4>2 DEF SocketsSound
    <3> QED
      BY <1>13, <3>1, <3>2, <3>3, <3>4, <3>5 DEF SocketsSound
  <2> QED
    BY <2>1, <2>2
<1>16. ASSUME NEW j \in Runtime, NEW s \in DOMAIN runtime'[j].presence
       PROVE  /\ socket'[s].at = j
              /\ socket'[s].phase = "open" \/ (Closed' /\ socket'[s].phase = "closing")
  <2>1. s \in DOMAIN runtime[j].presence /\ s \in Socket
    BY <1>14 DEF TablesSound, RuntimeTable, RuntimeSound, RegistrySound
  <2>2. s \notin S
    <3>1. socket[s].at = j
      BY <2>1 DEF SocketsSound
    <3> QED
      BY <1>3, <1>5, <1>6, <3>1
  <2> QED
    BY <1>11, <2>1, <2>2 DEF SocketsSound, Closed
<1>17. ASSUME NEW j \in Runtime, runtime'[j].retired PROVE DOMAIN runtime'[j].presence = {}
  <2>1. CASE j = i
    BY <1>3, <1>5, <1>6, <1>17, <2>1 DEF reg
  <2>2. CASE j # i
    BY <1>6, <1>17, <2>2 DEF SocketsSound
  <2> QED
    BY <2>1, <2>2
<1>18. SocketsSound'
  BY <1>6, <1>15, <1>16, <1>17 DEF SocketsSound
<1>19. ASSUME NEW c \in Socket, c \in S \/ Out(c) PROVE Out(c)'
  <2>1. CASE c \in S
    <3>1. \A j \in Runtime : c \notin DOMAIN runtime'[j].presence
      BY <1>3, <1>5, <1>6, <1>14, <2>1 DEF SocketsSound
    <3> QED
      BY <1>6, <1>11, <2>1, <3>1 DEF Out
  <2>2. CASE c \notin S
    BY <1>6, <1>11, <1>14, <1>19, <2>2 DEF Out
  <2> QED
    BY <2>1, <2>2
<1> QED
  BY <1>2, <1>9, <1>12, <1>18, <1>19 DEF one

-----------------------------------------------------------------------------
(* Fields of a runtime.                                                     *)

LEMMA NewPresence ==
  ASSUME NEW r, RuntimeSound(r), NEW p, RegistrySound(p), NEW t, t = [r EXCEPT !.presence = p]
  PROVE  /\ RuntimeSound(t) /\ t.presence = p /\ t.doc = r.doc /\ t.store = r.store
         /\ t.retired = r.retired /\ t.queue = r.queue /\ t.poisoned = r.poisoned
<1>1. /\ DOMAIN t = DOMAIN r /\ t.presence = p /\ t.doc = r.doc /\ t.store = r.store
      /\ t.retired = r.retired /\ t.queue = r.queue /\ t.poisoned = r.poisoned
  BY DEF RuntimeSound
<1> QED
  BY <1>1 DEF RuntimeSound

LEMMA OnlyQueue ==
  ASSUME NEW r, RuntimeSound(r), NEW q, q \in Seq(ToSet(q)), NEW t, t = [r EXCEPT !.queue = q]
  PROVE  /\ RuntimeSound(t) /\ t.presence = r.presence /\ t.doc = r.doc /\ t.store = r.store
         /\ t.retired = r.retired /\ t.queue = q
<1>1. /\ DOMAIN t = DOMAIN r /\ t.presence = r.presence /\ t.doc = r.doc /\ t.store = r.store
      /\ t.retired = r.retired /\ t.queue = q /\ t.poisoned = r.poisoned
  BY DEF RuntimeSound
<1> QED
  BY <1>1 DEF RuntimeSound

LEMMA Poisoned ==
  ASSUME NEW r, RuntimeSound(r), NEW t, t = [r EXCEPT !.poisoned = TRUE]
  PROVE  /\ RuntimeSound(t) /\ t.presence = r.presence /\ t.doc = r.doc /\ t.store = r.store
         /\ t.retired = r.retired /\ t.queue = r.queue
<1>1. /\ DOMAIN t = DOMAIN r /\ t.presence = r.presence /\ t.doc = r.doc /\ t.store = r.store
      /\ t.retired = r.retired /\ t.queue = r.queue /\ t.poisoned = TRUE
  BY DEF RuntimeSound
<1> QED
  BY <1>1 DEF RuntimeSound

-----------------------------------------------------------------------------
(* The server or a peer cuts sockets off.                                   *)

CutsOff(i, r, S) ==
  /\ i \in Runtime /\ RuntimeSound(r)
  /\ r.doc = runtime[i].doc /\ r.store = runtime[i].store /\ r.retired = runtime[i].retired
  /\ r.presence = runtime[i].presence
  /\ r.retired /\ runtime[i].queue = <<>> => r.queue = <<>>
  /\ S \subseteq Socket
  /\ \A s \in S : socket[s].at = i /\ socket[s].phase \in {"open", "closing"}
  /\ CloseSockets(i, r, S)
  /\ UNCHANGED docVars /\ known' = known
  /\ DOMAIN spent' = DOMAIN spent /\ spent'.unclosed = spent.unclosed /\ spent'.leaked = spent.leaked

(* Those of X are out already, or cut off now.                              *)
LEMMA CutsOffKeeps ==
  ASSUME TablesInv, NEW X, ListsBut(X), NEW i, NEW r, NEW S, CutsOff(i, r, S),
         \A c \in X : c \in S \/ Out(c)
  PROVE  InvBut(X)'
<1>1. r.retired => /\ \A s \in Socket : socket[s].at = i /\ socket[s].phase = "open" => s \in S
                   /\ DOMAIN r.presence \subseteq S
  BY DEF InvBut, TablesInv, SocketsSound, CutsOff
<1>2. stop' = stop
  BY DEF CutsOff, docVars
<1>3. /\ SocketTable' /\ SocketsSound' /\ ListsBut(X)' /\ ColorsAreDistinct'
      /\ \A c \in Socket : c \in S \/ Out(c) => Out(c)'
      /\ \E p : /\ runtime' = [runtime EXCEPT ![i] = [r EXCEPT !.presence = p]]
                /\ RegistrySound(p)
  BY <1>1, <1>2, ClosingKeeps DEF CutsOff, TablesInv
<1>8. \A c \in X : Out(c)'
  BY <1>3 DEF CutsOff, Out
<1>4. PICK p : /\ runtime' = [runtime EXCEPT ![i] = [r EXCEPT !.presence = p]]
               /\ RegistrySound(p)
  BY <1>3
<1> DEFINE t == [r EXCEPT !.presence = p]
<1>5. /\ RuntimeSound(t) /\ t.presence = p /\ t.doc = r.doc /\ t.store = r.store
      /\ t.retired = r.retired /\ t.queue = r.queue
  BY <1>4, NewPresence DEF CutsOff
<1> HIDE DEF t
<1>6. BridgeStep(i, t)
  BY <1>4, <1>5 DEF BridgeStep, CutsOff, t
<1>7. RuntimeTable' /\ DocumentTable' /\ OwnersSound' /\ StopSound'
  BY <1>6, BridgeStepKeeps DEF TablesInv
<1> QED
  BY <1>3, <1>7, <1>8 DEF InvBut, TablesInv, TablesSound

(* A socket that listens is known to its bridge.                            *)
LEMMA ListeningFacts ==
  ASSUME TablesInv, NEW s \in Socket, NEW i, i = socket[s].at, Listening(s)
  PROVE  /\ i \in Runtime /\ socket[s].phase = "open" /\ ~runtime[i].retired
         /\ RuntimeSound(runtime[i])
  BY DEF TablesInv, TablesSound, SocketTable, RuntimeTable, SocketsSound, Listening, Maybe

(* The members of a registry are sockets of its bridge.                     *)
LEMMA MemberFacts ==
  ASSUME TablesInv, NEW i \in Runtime, NEW s \in DOMAIN runtime[i].presence
  PROVE  /\ s \in Socket /\ socket[s].at = i /\ socket[s].phase \in {"open", "closing"}
         /\ RuntimeSound(runtime[i])
  BY DEF TablesInv, TablesSound, RuntimeTable, RuntimeSound, RegistrySound, SocketsSound

LEMMA SweepKeeps ==
  ASSUME NEW X, InvBut(X), NEW i \in Runtime, Sweep(i)
  PROVE  InvBut(X)'
<1> DEFINE S == {s \in DOMAIN runtime[i].presence : runtime[i].presence[s].idle}
<1>1. \A s \in S : s \in Socket /\ socket[s].at = i /\ socket[s].phase \in {"open", "closing"}
  BY MemberFacts DEF InvBut
<1>2. RuntimeSound(runtime[i])
  BY DEF InvBut, TablesInv, TablesSound, RuntimeTable
<1>3. CloseSockets(i, runtime[i], S) /\ UNCHANGED docVars /\ known' = known /\ spent' = spent
  BY DEF Sweep
<1> HIDE DEF S
<1>4. CutsOff(i, runtime[i], S)
  BY <1>1, <1>2, <1>3 DEF CutsOff
<1> QED
  BY <1>4, CutsOffKeeps DEF InvBut

LEMMA AppendFailsKeeps ==
  ASSUME NEW X, InvBut(X), NEW i \in Runtime, AppendFails(i)
  PROVE  InvBut(X)'
<1> DEFINE r == runtime[i]
           none == <<>>
           u == [r EXCEPT !.queue = none]
           t == [u EXCEPT !.poisoned = TRUE]
           S == ToSet(r.queue) \cap Attached(i)
<1>1. \A s \in S : s \in Socket /\ socket[s].at = i /\ socket[s].phase = "open"
  BY DEF Attached
<1>2. RuntimeSound(r)
  BY DEF InvBut, TablesInv, TablesSound, RuntimeTable
<1>3. CloseSockets(i, t, S) /\ UNCHANGED docVars /\ known' = known /\ Fails
  BY DEF AppendFails
<1>4. DOMAIN spent' = DOMAIN spent /\ spent'.unclosed = spent.unclosed /\ spent'.leaked = spent.leaked
  BY <1>3 DEF Fails, InvBut, TablesInv, TablesSound, DocumentTable
<1>5. none \in Seq(ToSet(none))
  OBVIOUS
<1>8. none = <<>>
  OBVIOUS
<1> HIDE DEF S, none
<1>6. /\ RuntimeSound(t) /\ t.presence = r.presence /\ t.doc = r.doc /\ t.store = r.store
      /\ t.retired = r.retired /\ t.queue = none
  <2> HIDE DEF r
  <2>1. /\ RuntimeSound(u) /\ u.presence = r.presence /\ u.doc = r.doc /\ u.store = r.store
        /\ u.retired = r.retired /\ u.queue = none
    BY <1>2, <1>5, OnlyQueue
  <2> HIDE DEF u
  <2> QED
    BY <2>1, Poisoned
<1> HIDE DEF t
<1>7. CutsOff(i, t, S)
  BY <1>1, <1>3, <1>4, <1>8, <1>6 DEF CutsOff
<1> QED
  BY <1>7, CutsOffKeeps DEF InvBut

(* A step of a bridge that shows nobody anything.                           *)
Steady(p, q) ==
  DOMAIN p = DOMAIN q /\ \A c \in DOMAIN p : p[c].seq = q[c].seq /\ p[c].color = q[c].color

LEMMA SteadyKeeps ==
  ASSUME NEW X, InvBut(X), NEW i, NEW r, BridgeStep(i, r), Steady(r.presence, runtime[i].presence),
         UNCHANGED <<socket, down, known>>
  PROVE  InvBut(X)'
<1>1. RuntimeTable' /\ DocumentTable' /\ OwnersSound' /\ StopSound'
  BY BridgeStepKeeps DEF InvBut, TablesInv
<1>2. /\ Runtime' = Runtime /\ runtime'[i] = r
      /\ \A j \in Runtime : j # i => runtime'[j] = runtime[j]
  BY OneRuntime DEF BridgeStep
<1>3. \A j \in Runtime : Steady(runtime'[j].presence, runtime[j].presence)
                         /\ runtime'[j].retired = runtime[j].retired
  BY <1>2 DEF Steady, BridgeStep
<1>4. SocketTable'
  BY <1>2 DEF InvBut, TablesInv, TablesSound, SocketTable, Maybe
<1>5. socket \in [Socket -> [phase : {"closed", "authenticating", "upgrading", "open", "closing"},
                             at : Maybe(Runtime)]]
  BY DEF InvBut, TablesInv, TablesSound, SocketTable
<1>6. stop' = stop
  BY DEF BridgeStep, docVars
<1>7. SocketsSound'
  <2>1. \A s \in Socket : socket[s].phase = "open" => socket[s].at \in Runtime
    BY <1>5 DEF InvBut, TablesInv, SocketsSound, Maybe
  <2> QED
    BY <1>2, <1>3, <1>6, <2>1 DEF InvBut, TablesInv, SocketsSound, Steady, Closed
<1>8. ListsBut(X)'
  <2>1. ASSUME NEW j \in Runtime, NEW s \in DOMAIN runtime'[j].presence, NEW c \in Socket \ X
        PROVE  WillKnow(known'[s], down'[s], s, c, Due(runtime'[j].presence, s, c))
    <3>1. s \in DOMAIN runtime[j].presence
      BY <1>3 DEF Steady
    <3>2. Due(runtime'[j].presence, s, c) = Due(runtime[j].presence, s, c)
      BY <1>3 DEF Due, Steady
    <3> QED
      BY <3>1, <3>2 DEF InvBut, TablesInv, ListsBut
  <2> QED
    BY <1>2, <2>1, Zenon DEF ListsBut
<1>9. ColorsAreDistinct'
  BY <1>2, <1>3 DEF InvBut, TablesInv, ColorsAreDistinct, Steady
<1>10. \A c \in X : Out(c)'
  BY <1>2, <1>3, <1>5 DEF InvBut, TablesInv, Out, Steady
<1> QED
  BY <1>1, <1>4, <1>7, <1>8, <1>9, <1>10 DEF InvBut, TablesInv, TablesSound

(* Idle or not, a connection keeps its colour and its last presence.        *)
LEMMA IdleIsSteady ==
  ASSUME NEW X, InvBut(X), NEW i \in Runtime, NEW s \in DOMAIN runtime[i].presence, NEW b \in BOOLEAN,
         runtime' = [runtime EXCEPT ![i].presence[s].idle = b],
         UNCHANGED <<docVars, socket, down, known, spent>>
  PROVE  InvBut(X)'
<1> DEFINE r == runtime[i]
           e == [r.presence[s] EXCEPT !.idle = b]
           p == [r.presence EXCEPT ![s] = e]
           t == [r EXCEPT !.presence = p]
<1>1. RuntimeSound(r) /\ RegistrySound(r.presence)
  BY DEF InvBut, TablesInv, TablesSound, RuntimeTable, RuntimeSound
<1>2. e \in [color : Nat, seq : Nat, idle : BOOLEAN] /\ e.seq = r.presence[s].seq /\ e.color = r.presence[s].color
  BY <1>1 DEF RegistrySound
<1>3. runtime' = [runtime EXCEPT ![i] = t]
  OBVIOUS
<1> HIDE DEF e
<1>4. RegistrySound(p) /\ Steady(p, r.presence)
  BY <1>1, <1>2 DEF RegistrySound, Steady
<1> HIDE DEF p
<1>5. /\ RuntimeSound(t) /\ t.presence = p /\ t.doc = r.doc /\ t.store = r.store
      /\ t.retired = r.retired /\ t.queue = r.queue
  <2> HIDE DEF r
  <2> QED
    BY <1>1, <1>4, NewPresence
<1> HIDE DEF t
<1>6. BridgeStep(i, t) /\ Steady(t.presence, runtime[i].presence)
  BY <1>3, <1>4, <1>5 DEF BridgeStep
<1> QED
  BY <1>6, SteadyKeeps

LEMMA HeartbeatKeeps ==
  ASSUME NEW X, InvBut(X), NEW s \in Socket, Heartbeat(s)
  PROVE  InvBut(X)'
<1> DEFINE i == socket[s].at
<1>1. i \in Runtime
  BY ListeningFacts DEF InvBut, Heartbeat
<1>2. /\ s \in DOMAIN runtime[i].presence
      /\ runtime' = [runtime EXCEPT ![i].presence[s].idle = FALSE]
      /\ UNCHANGED <<docVars, socket, down, known, spent>>
  BY DEF Heartbeat, Touch
<1> HIDE DEF i
<1> QED
  BY <1>1, <1>2, IdleIsSteady

LEMMA FallsSilentKeeps ==
  ASSUME NEW X, InvBut(X), NEW i \in Runtime, NEW s \in Socket, FallsSilent(i, s)
  PROVE  InvBut(X)'
  BY IdleIsSteady DEF FallsSilent

LEMMA SettleKeeps ==
  ASSUME NEW X, InvBut(X), NEW i \in Runtime, Settle(i)
  PROVE  InvBut(X)'
<1> DEFINE r == runtime[i]
           q == Tail(r.queue)
           t == [r EXCEPT !.queue = q]
<1>1. RuntimeSound(r) /\ r.queue # <<>>
  BY DEF InvBut, TablesInv, TablesSound, RuntimeTable, Settle
<1>2. q \in Seq(ToSet(q))
  <2> DEFINE m == r.queue
             S == ToSet(m)
  <2>1. m \in Seq(S) /\ m # <<>>
    BY <1>1 DEF RuntimeSound
  <2>2. q = Tail(m)
    OBVIOUS
  <2> HIDE DEF q, m, S
  <2>3. q \in Seq(S)
    BY <2>1, <2>2
  <2> QED
    BY <2>3, SeqDef DEF ToSet
<1>3. runtime' = [runtime EXCEPT ![i] = t]
  BY DEF Settle
<1> HIDE DEF q
<1>4. /\ RuntimeSound(t) /\ t.presence = r.presence /\ t.doc = r.doc /\ t.store = r.store
      /\ t.retired = r.retired
  <2> HIDE DEF r
  <2> QED
    BY <1>1, <1>2, OnlyQueue
<1> HIDE DEF t
<1>5. BridgeStep(i, t) /\ Steady(t.presence, runtime[i].presence)
  BY <1>1, <1>3, <1>4 DEF BridgeStep, Steady, Settle, docVars
<1> QED
  BY <1>5, SteadyKeeps DEF Settle

(* The socket of s leaves: its room tells those who stay.                   *)
LEMMA GoneKeeps ==
  ASSUME NEW X, InvBut(X), NEW s \in Socket, Gone(s)
  PROVE  InvBut(X)'
<1> DEFINE i == socket[s].at
           r == runtime[i]
           reg == r.presence
           L == {s} \cap DOMAIN reg
           p == Without(reg, L)
           t == [r EXCEPT !.presence = p]
<1>1. i \in Runtime /\ socket[s].phase \in {"open", "closing"}
  BY DEF InvBut, TablesInv, TablesSound, SocketTable, SocketsSound, Gone, Maybe
<1>2. RuntimeSound(r) /\ RegistrySound(reg) /\ DOMAIN reg \subseteq Socket
  BY <1>1 DEF InvBut, TablesInv, TablesSound, RuntimeTable, RuntimeSound, RegistrySound
<1>3. /\ RegistrySound(p) /\ DOMAIN p = DOMAIN reg \ {s}
      /\ DOMAIN p = DOMAIN reg \ L
  <2>1. DOMAIN reg \ L = DOMAIN reg \ {s}
    OBVIOUS
  <2> HIDE DEF reg, L
  <2> QED
    BY <1>2, <2>1, WithoutFacts
<1>4. /\ runtime' = [runtime EXCEPT ![i] = t]
      /\ socket' = [socket EXCEPT ![s] = Absent]
      /\ UNCHANGED <<docVars, spent>>
  BY DEF Gone
<1>5. \A u \in Socket \ {s} :
        /\ known'[u] = known[u]
        /\ down'[u] = IF u \in DOMAIN reg \ L THEN down[u] \o Farewell(reg, L) ELSE down[u]
        /\ socket'[u] = socket[u]
  BY DEF Gone, Farewells, Fanned, Farewell, InvBut, TablesInv, TablesSound, SocketTable
<1>6. /\ known'[s] = <<>> /\ down'[s] = <<>> /\ socket'[s] = Absent
      /\ DOMAIN known' = Socket /\ DOMAIN down' = Socket
  BY DEF Gone, Farewells, Fanned, InvBut, TablesInv, TablesSound, SocketTable
<1>7. socket' \in [Socket -> [phase : {"closed", "authenticating", "upgrading", "open", "closing"},
                              at : Maybe(Runtime)]]
  BY <1>4 DEF InvBut, TablesInv, TablesSound, SocketTable, Absent, Maybe
<1> HIDE DEF p
<1>8. /\ RuntimeSound(t) /\ t.presence = p /\ t.doc = r.doc /\ t.store = r.store
      /\ t.retired = r.retired /\ t.queue = r.queue
  <2> HIDE DEF r, reg
  <2> QED
    BY <1>2, <1>3, NewPresence
<1> HIDE DEF t
<1>9. BridgeStep(i, t)
  BY <1>1, <1>4, <1>8 DEF BridgeStep
<1>10. RuntimeTable' /\ DocumentTable' /\ OwnersSound' /\ StopSound'
  BY <1>9, BridgeStepKeeps DEF InvBut, TablesInv
<1>11. /\ Runtime' = Runtime /\ runtime'[i] = t
       /\ \A j \in Runtime : j # i => runtime'[j] = runtime[j]
  BY <1>1, <1>4, OneRuntime
<1>12. \A j \in Runtime : \A u \in DOMAIN runtime'[j].presence :
         u # s /\ u \in DOMAIN runtime[j].presence
  BY <1>3, <1>8, <1>11 DEF InvBut, TablesInv, SocketsSound
<1>13. ListsBut(X)' /\ ColorsAreDistinct'
  <2>1. \A j \in Runtime : j # i => runtime'[j].presence = runtime[j].presence
    BY <1>11
  <2>2. runtime'[i].presence = Without(reg, L)
    BY <1>8, <1>11 DEF p
  <2>3. \A j \in Runtime : \A u \in DOMAIN runtime'[j].presence : u \notin {s}
    BY <1>12
  <2>4. L \subseteq DOMAIN reg /\ reg = runtime[i].presence
    OBVIOUS
  <2>5. \A u \in Socket \ {s} :
        /\ known'[u] = known[u]
        /\ down'[u] = IF u \in DOMAIN reg \ L THEN down[u] \o Farewell(reg, L) ELSE down[u]
    BY <1>5
  <2> HIDE DEF reg, L
  <2>6. Leaving(i, L, reg, {s})
    BY <1>1, <1>11, <2>1, <2>2, <2>3, <2>4, <2>5 DEF Leaving
  <2> QED
    BY <2>6, LeavingKeeps DEF InvBut, TablesInv
<1>14. SocketTable'
  <2>1. \A u \in Socket : QueueSound(down'[u])
    <3> SUFFICES ASSUME NEW u \in Socket, u # s PROVE QueueSound(down'[u])
      BY <1>6, EmptyQueue
    <3>1. QueueSound(down[u]) /\ QueueSound(Farewell(reg, L))
      BY <1>2, FarewellFacts DEF InvBut, TablesInv, TablesSound, SocketTable
    <3>2. QueueSound(down[u] \o Farewell(reg, L))
      BY <3>1, QueueConcat
    <3> QED
      BY <1>5, <3>1, <3>2
  <2>2. \A u \in Socket : IsView(known'[u])
    <3> SUFFICES ASSUME NEW u \in Socket, u # s PROVE IsView(known'[u])
      BY <1>6, EmptyView
    <3> QED
      BY <1>5 DEF InvBut, TablesInv, TablesSound, SocketTable
  <2> QED
    BY <1>6, <1>7, <1>11, <2>1, <2>2 DEF SocketTable, Maybe
<1>15. stop' = stop
  BY <1>4 DEF docVars
<1>16. \A j \in Runtime : runtime'[j].retired = runtime[j].retired
  BY <1>8, <1>11
<1>17. ASSUME NEW u \in Socket
       PROVE  /\ socket'[u].phase \in {"upgrading", "open", "closing"} => socket'[u].at # None
              /\ socket'[u].phase = "open" => ~runtime'[socket'[u].at].retired
              /\ socket'[u].phase \in {"closed", "authenticating", "upgrading"} => down'[u] = <<>>
              /\ socket'[u].phase = "open" /\ u \notin DOMAIN runtime'[socket'[u].at].presence =>
                   down'[u] = <<>>
  <2>1. CASE u = s
    BY <1>6, <2>1 DEF Absent
  <2>2. CASE u # s
    <3>1. socket'[u] = socket[u]
      BY <1>5, <2>2
    <3>2. socket[u].phase \in {"upgrading", "open", "closing"} => socket[u].at # None /\ socket[u].at \in Runtime
      BY DEF InvBut, TablesInv, TablesSound, SocketTable, SocketsSound, Maybe
    <3>3. socket[u].phase = "open" => ~runtime'[socket[u].at].retired
      BY <1>16, <3>2 DEF InvBut, TablesInv, SocketsSound
    <3>4. u \notin DOMAIN reg => down'[u] = down[u]
      BY <1>5, <2>2
    <3>5. socket[u].phase \in {"closed", "authenticating", "upgrading"} => u \notin DOMAIN reg
      BY <1>1 DEF InvBut, TablesInv, SocketsSound
    <3>6. socket[u].phase = "open" /\ u \notin DOMAIN runtime'[socket[u].at].presence => down'[u] = <<>>
      <4> SUFFICES ASSUME socket[u].phase = "open", u \notin DOMAIN runtime'[socket[u].at].presence
                   PROVE  down'[u] = <<>>
        OBVIOUS
      <4>1. u \notin DOMAIN runtime[socket[u].at].presence
        BY <1>3, <1>8, <1>11, <2>2, <3>2
      <4>2. u \notin DOMAIN reg
        BY <1>1, <4>1 DEF InvBut, TablesInv, SocketsSound
      <4> QED
        BY <3>4, <4>1, <4>2 DEF InvBut, TablesInv, SocketsSound
    <3> QED
      BY <3>1, <3>2, <3>3, <3>4, <3>5, <3>6 DEF InvBut, TablesInv, SocketsSound
  <2> QED
    BY <2>1, <2>2
<1>18. ASSUME NEW j \in Runtime, NEW u \in DOMAIN runtime'[j].presence
       PROVE  /\ socket'[u].at = j
              /\ socket'[u].phase = "open" \/ (Closed' /\ socket'[u].phase = "closing")
  <2>1. u # s /\ u \in DOMAIN runtime[j].presence
    BY <1>12
  <2>2. u \in Socket
    BY <2>1, MemberFacts DEF InvBut
  <2> QED
    BY <1>5, <1>15, <2>1, <2>2 DEF InvBut, TablesInv, SocketsSound, Closed
<1>19. ASSUME NEW j \in Runtime, runtime'[j].retired PROVE DOMAIN runtime'[j].presence = {}
  BY <1>12, <1>16, <1>19 DEF InvBut, TablesInv, SocketsSound
<1>20. SocketsSound'
  BY <1>11, <1>17, <1>18, <1>19 DEF SocketsSound
<1>21. \A c \in X : Out(c)'
  <2> SUFFICES ASSUME NEW c \in X PROVE Out(c)'
    OBVIOUS
  <2>1. c \in Socket /\ Out(c)
    BY DEF InvBut, Out
  <2>2. socket'[c].phase \in {"closing", "closed"}
    <3>1. CASE c = s
      BY <1>6, <3>1 DEF Absent
    <3>2. CASE c # s
      <4>1. socket'[c] = socket[c]
        BY <1>5, <2>1, <3>2
      <4> QED
        BY <2>1, <4>1 DEF Out
    <3> QED
      BY <3>1, <3>2
  <2> QED
    BY <1>11, <1>12, <2>1, <2>2 DEF Out
<1> QED
  BY <1>10, <1>13, <1>14, <1>20, <1>21 DEF InvBut, TablesInv, TablesSound

-----------------------------------------------------------------------------
(* Operations.                                                              *)

LEMMA EnqueueKeeps ==
  ASSUME NEW X, InvBut(X), NEW i \in Runtime, ~runtime[i].retired, NEW s,
         s # None => s \in Socket /\ socket[s].at = i /\ socket[s].phase = "open",
         Enqueue(i, s)
  PROVE  InvBut(X)'
<1> DEFINE r == runtime[i]
           S == {s} \ {None}
           q == Append(r.queue, s)
           t == [r EXCEPT !.queue = q]
           u == [r EXCEPT !.poisoned = TRUE]
<1>1. RuntimeSound(r) /\ ~r.retired
  BY DEF InvBut, TablesInv, TablesSound, RuntimeTable
<1>2. UNCHANGED docVars /\ known' = known
      /\ DOMAIN spent' = DOMAIN spent /\ spent'.unclosed = spent.unclosed /\ spent'.leaked = spent.leaked
  BY DEF Enqueue, docVars, InvBut, TablesInv, TablesSound, DocumentTable
<1>3. \/ CloseSockets(i, u, S)
      \/ runtime' = [runtime EXCEPT ![i] = t] /\ UNCHANGED <<down, socket>>
  BY DEF Enqueue
<1>4. CASE CloseSockets(i, u, S)
  <2>1. \A c \in S : c \in Socket /\ socket[c].at = i /\ socket[c].phase = "open"
    OBVIOUS
  <2>2. /\ RuntimeSound(u) /\ u.presence = r.presence /\ u.doc = r.doc /\ u.store = r.store
        /\ u.retired = r.retired /\ u.queue = r.queue
    <3> HIDE DEF r
    <3> QED
      BY <1>1, Poisoned
  <2> HIDE DEF u, S
  <2>3. CutsOff(i, u, S)
    BY <1>2, <1>4, <2>1, <2>2 DEF CutsOff
  <2> QED
    BY <2>3, CutsOffKeeps DEF InvBut
<1>5. CASE runtime' = [runtime EXCEPT ![i] = t] /\ UNCHANGED <<down, socket>>
  <2>1. q \in Seq(ToSet(q))
    <3> DEFINE m == r.queue
               T == ToSet(m) \cup {s}
    <3>1. m \in Seq(T) /\ q = Append(m, s) /\ s \in T
      BY <1>1 DEF RuntimeSound
    <3> HIDE DEF q, m, T
    <3>2. q \in Seq(T)
      BY <3>1
    <3> QED
      BY <3>2, SeqDef DEF ToSet
  <2> HIDE DEF q
  <2>2. /\ RuntimeSound(t) /\ t.presence = r.presence /\ t.doc = r.doc /\ t.store = r.store
        /\ t.retired = r.retired
    <3> HIDE DEF r
    <3> QED
      BY <1>1, <2>1, OnlyQueue
  <2> HIDE DEF t
  <2>3. BridgeStep(i, t) /\ Steady(t.presence, runtime[i].presence)
    BY <1>1, <1>2, <1>5, <2>2 DEF BridgeStep, Steady
  <2> QED
    BY <1>2, <1>5, <2>3, SteadyKeeps
<1> QED
  BY <1>3, <1>4, <1>5

LEMMA SubmitKeeps ==
  ASSUME NEW X, InvBut(X), NEW s \in Socket, Submit(s)
  PROVE  InvBut(X)'
<1> DEFINE i == socket[s].at
<1>1. i \in Runtime /\ socket[s].phase = "open" /\ ~runtime[i].retired
  BY ListeningFacts DEF InvBut, Submit
<1>2. Enqueue(i, s) /\ socket[s].at = i
  BY DEF Submit
<1> HIDE DEF i
<1> QED
  BY <1>1, <1>2, EnqueueKeeps

LEMMA SubmitFromServerKeeps ==
  ASSUME NEW X, InvBut(X), NEW d \in Doc, SubmitFromServer(d)
  PROVE  InvBut(X)'
<1> DEFINE i == runtimes[d]
           nobody == None
<1>1. i \in Runtime /\ ~runtime[i].retired
  BY DEF InvBut, TablesInv, TablesSound, DocumentTable, OwnersSound, Accounted, Owned, SubmitFromServer, Maybe
<1>2. Enqueue(i, nobody)
  BY DEF SubmitFromServer
<1>3. nobody # None => nobody \in Socket /\ socket[nobody].at = i /\ socket[nobody].phase = "open"
  OBVIOUS
<1> HIDE DEF i, nobody
<1> QED
  BY <1>1, <1>2, <1>3, EnqueueKeeps

-----------------------------------------------------------------------------
(* Sockets on their way to a bridge: nobody in a room moves.                *)

Moves(s, e) ==
  /\ s \in Socket /\ socket[s].phase \in {"closed", "authenticating", "upgrading"}
  /\ e.phase \in {"closed", "authenticating", "upgrading", "open"} /\ e.at \in Maybe(Runtime)
  /\ e = [phase |-> e.phase, at |-> e.at]
  /\ e.phase \in {"upgrading", "open"} => e.at # None
  /\ e.phase = "open" => ~runtime[e.at].retired
  /\ socket' = [socket EXCEPT ![s] = e]
  /\ UNCHANGED <<runtime, docVars, down, known>>
  /\ DOMAIN spent' = DOMAIN spent /\ spent'.unclosed = spent.unclosed /\ spent'.leaked = spent.leaked

LEMMA MovesKeeps ==
  ASSUME NEW X, InvBut(X), NEW s, NEW e, Moves(s, e), s \notin X
  PROVE  InvBut(X)'
<1>1. /\ runtime' = runtime /\ runtimes' = runtimes /\ retiring' = retiring /\ work' = work
      /\ stop' = stop /\ down' = down /\ known' = known /\ Runtime' = Runtime
      /\ DOMAIN spent' = DOMAIN spent /\ spent'.unclosed = spent.unclosed /\ spent'.leaked = spent.leaked
  BY DEF Moves, docVars, Runtime
<1>2. RuntimeTable' /\ DocumentTable'
  BY <1>1 DEF InvBut, TablesInv, TablesSound, RuntimeTable, DocumentTable, Maybe
<1>3. OwnersSound' /\ StopSound'
  BY <1>1 DEF InvBut, TablesInv, OwnersSound, Accounted, Owned, StopSound, Closed, Idle
<1>4. ListsBut(X)' /\ ColorsAreDistinct'
  BY <1>1, ListsFrame DEF InvBut, TablesInv
<1>5. e \in [phase : {"closed", "authenticating", "upgrading", "open", "closing"}, at : Maybe(Runtime)]
  BY DEF Moves
<1>6. SocketTable'
  BY <1>1, <1>5 DEF InvBut, TablesInv, TablesSound, SocketTable, Maybe, Moves
<1>7. /\ s \in Socket /\ socket'[s] = e
      /\ \A u \in Socket : u # s => socket'[u] = socket[u]
  BY DEF InvBut, TablesInv, TablesSound, SocketTable, Moves
<1>8. down[s] = <<>>
  BY DEF InvBut, TablesInv, SocketsSound, Moves
<1>9. \A j \in Runtime : \A u \in DOMAIN runtime[j].presence : u # s /\ u \in Socket
  BY MemberFacts DEF InvBut, Moves
<1>10. \A u \in Socket :
         /\ socket'[u].phase \in {"upgrading", "open", "closing"} => socket'[u].at # None
         /\ socket'[u].phase = "open" => ~runtime[socket'[u].at].retired
         /\ socket'[u].phase \in {"closed", "authenticating", "upgrading"} => down[u] = <<>>
         /\ socket'[u].phase = "open" /\ u \notin DOMAIN runtime[socket'[u].at].presence =>
              down[u] = <<>>
  BY <1>7, <1>8 DEF InvBut, TablesInv, SocketsSound, Moves
<1>11. \A j \in Runtime : \A u \in DOMAIN runtime[j].presence :
         /\ socket'[u].at = j
         /\ socket'[u].phase = "open" \/ (Closed /\ socket'[u].phase = "closing")
  BY <1>7, <1>9 DEF InvBut, TablesInv, SocketsSound
<1>12. SocketsSound'
  BY <1>1, <1>10, <1>11 DEF InvBut, TablesInv, SocketsSound, Closed
<1>13. \A c \in X : Out(c)'
  BY <1>1, <1>7 DEF InvBut, Out
<1> QED
  BY <1>2, <1>3, <1>4, <1>6, <1>12, <1>13 DEF InvBut, TablesInv, TablesSound

LEMMA UpgradeKeeps ==
  ASSUME NEW X, InvBut(X), NEW s \in Socket, s \notin X, Upgrade(s)
  PROVE  InvBut(X)'
<1> DEFINE e == [socket[s] EXCEPT !.phase = "authenticating"]
<1>1. socket[s] \in [phase : {"closed", "authenticating", "upgrading", "open", "closing"},
                     at : Maybe(Runtime)]
  BY DEF InvBut, TablesInv, TablesSound, SocketTable
<1>2. e = [phase |-> "authenticating", at |-> socket[s].at] /\ socket[s].phase = "closed"
  BY <1>1 DEF Upgrade, Free
<1>3. DOMAIN spent' = DOMAIN spent /\ spent'.unclosed = spent.unclosed /\ spent'.leaked = spent.leaked
  BY DEF Upgrade, InvBut, TablesInv, TablesSound, DocumentTable
<1>4. socket' = [socket EXCEPT ![s] = e] /\ UNCHANGED <<runtime, docVars, down, known>>
  BY DEF Upgrade
<1> HIDE DEF e
<1>5. Moves(s, e)
  BY <1>1, <1>2, <1>3, <1>4 DEF Moves
<1> QED
  BY <1>5, MovesKeeps

(* Who waits for its handshake is not out.                                  *)
LEMMA RefusedKeeps ==
  ASSUME NEW X, InvBut(X), NEW s \in Socket, Refused(s)
  PROVE  InvBut(X)'
<1>0. s \notin X
  BY DEF Refused, InvBut, Out
<1>1. Moves(s, Absent)
  BY DEF Refused, Moves, Absent, Maybe
<1> QED
  BY <1>0, <1>1, MovesKeeps

LEMMA AcceptUpgradeKeeps ==
  ASSUME NEW X, InvBut(X), NEW s \in Socket, NEW d \in Doc, AcceptUpgrade(s, d)
  PROVE  InvBut(X)'
<1>0. s \notin X
  BY DEF AcceptUpgrade, InvBut, Out
<1>1. runtimes[d] \in Maybe(Runtime)
  BY DEF InvBut, TablesInv, TablesSound, DocumentTable
<1>2. CASE runtimes[d] = None
  <2>1. Moves(s, Absent)
    BY <1>2 DEF AcceptUpgrade, Moves, Absent, Maybe
  <2> QED
    BY <1>0, <2>1, MovesKeeps
<1>3. CASE runtimes[d] # None
  <2> DEFINE e == [phase |-> "upgrading", at |-> runtimes[d]]
  <2>1. Moves(s, e)
    BY <1>1, <1>3 DEF AcceptUpgrade, Moves
  <2> QED
    BY <1>0, <2>1, MovesKeeps
<1> QED
  BY <1>2, <1>3

LEMMA ConnectKeeps ==
  ASSUME NEW X, InvBut(X), NEW s \in Socket, Connect(s)
  PROVE  InvBut(X)'
<1>0. s \notin X
  BY DEF Connect, InvBut, Out
<1> DEFINE e == [socket[s] EXCEPT !.phase = "open"]
<1>1. socket[s] \in [phase : {"closed", "authenticating", "upgrading", "open", "closing"},
                     at : Maybe(Runtime)]
  BY DEF InvBut, TablesInv, TablesSound, SocketTable
<1>2. e = [phase |-> "open", at |-> socket[s].at] /\ socket[s].at # None
  BY <1>1 DEF Connect, InvBut, TablesInv, SocketsSound
<1>3. CASE socket' = [socket EXCEPT ![s] = e] /\ StillServed(socket[s].at)
  <2> HIDE DEF e
  <2>1. Moves(s, e)
    BY <1>1, <1>2, <1>3 DEF Connect, Moves, StillServed
  <2> QED
    BY <1>0, <2>1, MovesKeeps
<1>4. CASE socket' = [socket EXCEPT ![s] = Absent]
  <2>1. Moves(s, Absent)
    BY <1>4 DEF Connect, Moves, Absent, Maybe
  <2> QED
    BY <1>0, <2>1, MovesKeeps
<1> QED
  BY <1>3, <1>4 DEF Connect

-----------------------------------------------------------------------------
(* What is on the way to a client, and what it knows.                       *)

(* A client makes a table of what it hears.                                 *)
LEMMA HeardIsView ==
  ASSUME NEW view, IsView(view), NEW m, IsMessage(m), NEW s
  PROVE  IsView(Heard(view, s, m))
<1>1. CASE m.type = "snapshot"
  <2>1. IsView(m.users)
    BY <1>1 DEF IsMessage
  <2> QED
    BY <1>1, <2>1, WithoutFacts DEF Heard
<1>2. CASE m.type = "delta"
  <2> DEFINE w == [c \in DOMAIN view \cup {m.from} |-> IF c = m.from THEN m.seq ELSE view[c]]
  <2>1. m.from \in Socket /\ m.seq \in Nat \ {0}
    BY <1>2 DEF IsMessage
  <2>2. IsView(w)
    BY <2>1 DEF IsView
  <2> HIDE DEF w
  <2>3. Heard(view, s, m) = w
    BY <1>2 DEF Heard, w
  <2> QED
    BY <2>2, <2>3
<1>3. CASE m.type = "removed"
  BY <1>3, WithoutFacts DEF Heard
<1> QED
  BY <1>1, <1>2, <1>3 DEF IsMessage

LEMMA ReadKeeps ==
  ASSUME NEW X, InvBut(X), NEW s \in Socket, Read(s)
  PROVE  InvBut(X)'
<1> DEFINE q == down[s]
           view == known[s]
<1>1. /\ runtime' = runtime /\ runtimes' = runtimes /\ retiring' = retiring /\ work' = work
      /\ stop' = stop /\ socket' = socket /\ spent' = spent /\ Runtime' = Runtime
      /\ socket[s].phase = "open" /\ q # <<>>
  BY DEF Read, docVars, Runtime
<1>2. /\ DOMAIN down' = Socket /\ DOMAIN known' = Socket
      /\ \A u \in Socket : u # s => down'[u] = down[u] /\ known'[u] = known[u]
      /\ down'[s] = Tail(q) /\ known'[s] = Heard(view, s, Head(q))
  BY DEF Read, InvBut, TablesInv, TablesSound, SocketTable
<1>3. QueueSound(q) /\ IsView(view) /\ \A u \in Socket : QueueSound(down[u]) /\ IsView(known[u])
  BY DEF InvBut, TablesInv, TablesSound, SocketTable
<1> HIDE DEF q, view
<1>4. /\ QueueSound(Tail(q)) /\ IsMessage(q[1]) /\ Head(q) = q[1]
  BY <1>1, <1>3, QueueTail
<1>5. IsView(Heard(view, s, q[1]))
  BY <1>3, <1>4, HeardIsView
<1>6. RuntimeTable' /\ DocumentTable'
  BY <1>1 DEF InvBut, TablesInv, TablesSound, RuntimeTable, DocumentTable, Maybe
<1>7. OwnersSound' /\ StopSound' /\ ColorsAreDistinct'
  BY <1>1 DEF InvBut, TablesInv, OwnersSound, Accounted, Owned, StopSound, Closed, Idle, ColorsAreDistinct
<1>8. SocketTable'
  <2>1. \A u \in Socket : QueueSound(down'[u]) /\ IsView(known'[u])
    BY <1>2, <1>3, <1>4, <1>5
  <2> QED
    BY <1>1, <1>2, <2>1 DEF InvBut, TablesInv, TablesSound, SocketTable, Maybe
<1>9. SocketsSound'
  <2>1. s \in DOMAIN runtime[socket[s].at].presence
    BY <1>1 DEF InvBut, TablesInv, SocketsSound, q
  <2> QED
    BY <1>1, <1>2, <2>1 DEF InvBut, TablesInv, SocketsSound, Closed
<1>10. ASSUME NEW j \in Runtime, NEW u \in DOMAIN runtime[j].presence, NEW c \in Socket \ X
       PROVE  WillKnow(known'[u], down'[u], u, c, Due(runtime[j].presence, u, c))
  <2>1. u \in Socket /\ WillKnow(known[u], down[u], u, c, Due(runtime[j].presence, u, c))
    BY MemberFacts DEF InvBut, TablesInv, ListsBut
  <2>2. CASE u # s
    BY <1>2, <2>1, <2>2
  <2>3. CASE u = s
    <3> DEFINE n == Due(runtime[j].presence, u, c)
               S == ToSet(q)
    <3>1. WillKnow(view, q, s, c, n) /\ q \in Seq(S)
      BY <1>3, <2>1, <2>3 DEF QueueSound, q, view
    <3> HIDE DEF n, S
    <3>2. WillKnow(Heard(view, s, q[1]), Tail(q), s, c, n)
      BY <1>1, <1>3, <1>4, <3>1, ReadingKeeps
    <3> QED
      BY <1>2, <1>4, <2>3, <3>2 DEF n
  <2> QED
    BY <2>2, <2>3
<1>11. ListsBut(X)'
  BY <1>1, <1>10, Zenon DEF ListsBut
<1>12. \A c \in X : Out(c)'
  BY <1>1 DEF InvBut, Out
<1> QED
  BY <1>6, <1>7, <1>8, <1>9, <1>11, <1>12 DEF InvBut, TablesInv, TablesSound

-----------------------------------------------------------------------------
(* Sockets that join and speak: one registry changes, those in it stay, and *)
(* messages go to its members.                                              *)

Speaks(i, p) ==
  /\ i \in Runtime /\ ~runtime[i].retired /\ RegistrySound(p)
  /\ runtime' = [runtime EXCEPT ![i] = [runtime[i] EXCEPT !.presence = p]]
  /\ DOMAIN runtime[i].presence \subseteq DOMAIN p
  /\ \A u \in DOMAIN p \ DOMAIN runtime[i].presence :
        socket[u].phase = "open" /\ socket[u].at = i
  /\ DOMAIN down' = Socket
  /\ \A u \in Socket : QueueSound(down'[u]) /\ (u \notin DOMAIN p => down'[u] = down[u])
  /\ \A c, d \in DOMAIN p : c # d => p[c].color # p[d].color
  /\ UNCHANGED <<docVars, socket, known, spent>>

LEMMA SpeaksKeeps ==
  ASSUME TablesInv, NEW i, NEW p, Speaks(i, p)
  PROVE  TablesInv' /\ \A c : Out(c) => Out(c)'
<1> DEFINE r == runtime[i]
           t == [r EXCEPT !.presence = p]
<1>1. RuntimeSound(r) /\ i \in Runtime /\ RegistrySound(p)
  BY DEF TablesInv, TablesSound, RuntimeTable, Speaks
<1>2. /\ RuntimeSound(t) /\ t.presence = p /\ t.doc = r.doc /\ t.store = r.store
      /\ t.retired = r.retired /\ t.queue = r.queue
  <2> HIDE DEF r
  <2> QED
    BY <1>1, NewPresence
<1>3. runtime' = [runtime EXCEPT ![i] = t]
  BY DEF Speaks
<1> HIDE DEF t
<1>4. BridgeStep(i, t)
  BY <1>1, <1>2, <1>3 DEF BridgeStep, Speaks
<1>5. RuntimeTable' /\ DocumentTable' /\ OwnersSound' /\ StopSound'
  BY <1>4, BridgeStepKeeps DEF TablesInv
<1>6. /\ Runtime' = Runtime /\ runtime'[i] = t
      /\ \A j \in Runtime : j # i => runtime'[j] = runtime[j]
  BY <1>1, <1>3, OneRuntime
<1>7. socket' = socket /\ known' = known /\ stop' = stop
  BY DEF Speaks, docVars
<1>8. SocketTable'
  BY <1>6, <1>7 DEF TablesInv, TablesSound, SocketTable, Maybe, Speaks
<1>9. \A u \in Socket : socket[u].phase \in {"upgrading", "open", "closing"} => socket[u].at \in Runtime
  BY DEF TablesInv, TablesSound, SocketTable, SocketsSound, Maybe
<1>10. \A u \in DOMAIN p : u \in Socket /\ socket[u].at = i
  BY <1>1 DEF TablesInv, SocketsSound, RegistrySound, Speaks
<1>11. \A j \in Runtime : runtime'[j].retired = runtime[j].retired
  BY <1>2, <1>6
<1>12. ASSUME NEW u \in Socket
       PROVE  /\ socket[u].phase \in {"upgrading", "open", "closing"} => socket[u].at # None
              /\ socket[u].phase = "open" => ~runtime'[socket[u].at].retired
              /\ socket[u].phase \in {"closed", "authenticating", "upgrading"} => down'[u] = <<>>
              /\ socket[u].phase = "open" /\ u \notin DOMAIN runtime'[socket[u].at].presence =>
                   down'[u] = <<>>
  <2>1. u \notin DOMAIN p => down'[u] = down[u]
    BY DEF Speaks
  <2>2. socket[u].phase = "open" => ~runtime'[socket[u].at].retired
    BY <1>9, <1>11 DEF TablesInv, SocketsSound
  <2>3. u \in DOMAIN p => socket[u].phase \in {"open", "closing"}
    BY DEF TablesInv, SocketsSound, Speaks
  <2>4. socket[u].phase = "open" /\ u \notin DOMAIN runtime'[socket[u].at].presence => down'[u] = <<>>
    <3> SUFFICES ASSUME socket[u].phase = "open", u \notin DOMAIN runtime'[socket[u].at].presence
                 PROVE  down'[u] = <<>>
      OBVIOUS
    <3>1. u \notin DOMAIN runtime[socket[u].at].presence
      BY <1>2, <1>6, <1>9 DEF Speaks
    <3>2. u \notin DOMAIN p
      BY <1>2, <1>6, <1>10
    <3> QED
      BY <2>1, <3>1, <3>2 DEF TablesInv, SocketsSound
  <2> QED
    BY <2>1, <2>2, <2>3, <2>4 DEF TablesInv, SocketsSound
<1>13. ASSUME NEW j \in Runtime, NEW u \in DOMAIN runtime'[j].presence
       PROVE  /\ socket[u].at = j
              /\ socket[u].phase = "open" \/ (Closed /\ socket[u].phase = "closing")
  BY <1>2, <1>6 DEF TablesInv, SocketsSound, Speaks
<1>14. ASSUME NEW j \in Runtime, runtime'[j].retired PROVE DOMAIN runtime'[j].presence = {}
  BY <1>2, <1>6, <1>14 DEF TablesInv, SocketsSound, Speaks
<1>15. SocketsSound'
  BY <1>6, <1>7, <1>12, <1>13, <1>14 DEF SocketsSound, Closed
<1>16. ColorsAreDistinct'
  BY <1>2, <1>6 DEF TablesInv, ColorsAreDistinct, Speaks
<1>17. ASSUME NEW c, Out(c) PROVE Out(c)'
  <2>1. c \notin DOMAIN p
    BY <1>1, <1>10, <1>17 DEF Out, Speaks
  <2> QED
    BY <1>2, <1>6, <1>7, <1>17, <2>1 DEF Out
<1> QED
  BY <1>5, <1>8, <1>15, <1>16, <1>17 DEF TablesInv, TablesSound

(* One message more on the way.                                             *)
LEMMA OneMore ==
  ASSUME NEW q, QueueSound(q), NEW m, IsMessage(m), NEW view, NEW u, NEW c, NEW n
  PROVE  /\ QueueSound(q \o <<m>>) /\ Append(q, m) = q \o <<m>>
         /\ Concerns(m, c) /\ Says(m, u, c) = n => WillKnow(view, q \o <<m>>, u, c, n)
         /\ ~Concerns(m, c) /\ WillKnow(view, q, u, c, n) => WillKnow(view, q \o <<m>>, u, c, n)
<1> DEFINE ms == <<m>>
           S == ToSet(q) \cup {m}
<1>1. QueueSound(ms) /\ DOMAIN ms = {1} /\ ms[1] = m
  BY QueueOfOne
<1>2. q \in Seq(S) /\ ms \in Seq(S) /\ m \in S
  BY DEF QueueSound
<1>3. QueueSound(q \o ms)
  <2> HIDE DEF ms
  <2> QED
    BY <1>1, QueueConcat
<1>4. Append(q, m) = q \o <<m>>
  <2> HIDE DEF S
  <2> QED
    BY <1>2, AppendIsConcat
<1> HIDE DEF ms, S
<1>5. ASSUME Concerns(m, c), Says(m, u, c) = n PROVE WillKnow(view, q \o ms, u, c, n)
  <2>1. \E k \in DOMAIN ms : Concerns(ms[k], c)
    BY <1>1, <1>5
  <2>2. \A k \in DOMAIN ms : Concerns(ms[k], c) => Says(ms[k], u, c) = n
    BY <1>1, <1>5
  <2> QED
    BY <1>2, <2>1, <2>2, News
<1>6. ASSUME ~Concerns(m, c), WillKnow(view, q, u, c, n) PROVE WillKnow(view, q \o ms, u, c, n)
  <2>1. \A k \in DOMAIN ms : ~Concerns(ms[k], c)
    BY <1>1, <1>6
  <2> QED
    BY <1>2, <1>6, <2>1, OthersNews
<1> QED
  BY <1>3, <1>4, <1>5, <1>6 DEF ms

LEMMA JoinKeeps ==
  ASSUME NEW X, InvBut(X), NEW s \in Socket, Join(s)
  PROVE  InvBut(X)'
<1> DEFINE i == socket[s].at
           reg == runtime[i].presence
           new == [color |-> AllocateColor(reg), seq |-> 0, idle |-> FALSE]
           p == Register(reg, s)
           m == [type |-> "snapshot", users |-> Snapshot(p)]
           q == down[s]
<1>1. i \in Runtime /\ socket[s].phase = "open" /\ ~runtime[i].retired /\ RegistrySound(reg)
  BY ListeningFacts DEF InvBut, Join, RuntimeSound
<1>2. s \notin DOMAIN reg /\ UNCHANGED <<docVars, socket, known, spent>>
  BY DEF Join
<1>3. runtime' = [runtime EXCEPT ![i] = [runtime[i] EXCEPT !.presence = p]]
  BY DEF Join
<1>4. DOMAIN down' = Socket /\ down'[s] = Append(q, m) /\ \A u \in Socket : u # s => down'[u] = down[u]
  BY DEF Join, InvBut, TablesInv, TablesSound, SocketTable
<1>5. new.color \in Nat /\ new.color \notin Colors(reg)
  <2> HIDE DEF reg
  <2> QED
    BY <1>1, ColorIsNew
<1>6. /\ DOMAIN p = DOMAIN reg \cup {s} /\ p[s] = new /\ \A c \in DOMAIN reg : p[c] = reg[c]
      /\ p = [c \in DOMAIN p |-> p[c]]
  BY <1>2 DEF Register
<1>7. new \in [color : Nat, seq : Nat, idle : BOOLEAN] /\ new.seq = 0
  BY <1>5
<1> HIDE DEF new, p
<1>8. RegistrySound(p)
  BY <1>1, <1>6, <1>7 DEF RegistrySound
<1>9. IsMessage(m) /\ m.type = "snapshot" /\ m.users = Snapshot(p)
  <2>1. IsView(Snapshot(p))
    BY <1>8 DEF IsView, Snapshot, Shown, RegistrySound
  <2> QED
    BY <2>1 DEF IsMessage
<1> HIDE DEF m
<1>10. \A c, d \in DOMAIN p : c # d => p[c].color # p[d].color
  <2>1. \A c, d \in DOMAIN reg : c # d => reg[c].color # reg[d].color
    BY <1>1 DEF InvBut, TablesInv, ColorsAreDistinct
  <2>2. \A c \in DOMAIN reg : reg[c].color # new.color
    BY <1>5 DEF Colors
  <2> HIDE DEF reg
  <2>3. ASSUME NEW c \in DOMAIN p, NEW d \in DOMAIN p, c # d PROVE p[c].color # p[d].color
    <3>1. CASE c \in DOMAIN reg /\ d \in DOMAIN reg
      BY <1>6, <2>1, <2>3, <3>1
    <3>2. CASE c = s /\ d \in DOMAIN reg
      BY <1>6, <2>2, <3>2
    <3>3. CASE c \in DOMAIN reg /\ d = s
      BY <1>6, <2>2, <3>3
    <3> QED
      BY <1>6, <2>3, <3>1, <3>2, <3>3
  <2> QED
    BY <2>3
<1>11. \A u \in Socket : QueueSound(down[u])
  BY DEF InvBut, TablesInv, TablesSound, SocketTable
<1>12. QueueSound(q \o <<m>>) /\ Append(q, m) = q \o <<m>>
  <2> HIDE DEF q
  <2> QED
    BY <1>9, <1>11, OneMore DEF q
<1>13. ASSUME NEW u \in DOMAIN p, NEW c \in Socket \ X
       PROVE  WillKnow(known[u], down'[u], u, c, Due(p, u, c))
  <2>1. CASE u # s
    <3>1. u \in DOMAIN reg /\ u \in Socket
      BY <1>6, <1>8, <2>1 DEF RegistrySound
    <3>2. Due(p, u, c) = Due(reg, u, c)
      BY <1>2, <1>6, <1>7 DEF Due
    <3>3. WillKnow(known[u], down[u], u, c, Due(reg, u, c))
      BY <1>1, <3>1 DEF InvBut, TablesInv, ListsBut
    <3> QED
      BY <1>4, <2>1, <3>1, <3>2, <3>3
  <2>2. CASE u = s
    <3> DEFINE n == Due(p, s, c)
    <3>1. Concerns(m, c)
      BY <1>9 DEF Concerns
    <3>2. Says(m, s, c) = n
      <4>1. c \in DOMAIN p /\ c \notin Shown(p) => p[c].seq = 0
        BY <1>8 DEF Shown, RegistrySound
      <4>2. LastOf(Snapshot(p), c) = IF c \in Shown(p) THEN p[c].seq ELSE 0
        BY DEF LastOf, Snapshot
      <4>3. Says(m, s, c) = IF c = s THEN 0 ELSE LastOf(Snapshot(p), c)
        BY <1>9 DEF Says
      <4> QED
        BY <4>1, <4>2, <4>3 DEF Due, Shown
    <3> HIDE DEF n, q
    <3>3. WillKnow(known[s], q \o <<m>>, s, c, n)
      BY <1>9, <1>11, <3>1, <3>2, OneMore DEF q
    <3> QED
      BY <1>4, <1>12, <2>2, <3>3 DEF n
  <2> QED
    BY <2>1, <2>2
<1>14. \A u \in Socket : QueueSound(down'[u]) /\ (u \notin DOMAIN p => down'[u] = down[u])
  BY <1>4, <1>6, <1>11, <1>12
<1> HIDE DEF i
<1>15. Speaks(i, p)
  BY <1>1, <1>2, <1>3, <1>4, <1>6, <1>8, <1>10, <1>14 DEF Speaks, i
<1>16. TablesInv' /\ \A c \in X : Out(c)'
  BY <1>15, SpeaksKeeps DEF InvBut
<1>17. /\ Runtime' = Runtime /\ runtime'[i].presence = p /\ known' = known
       /\ \A j \in Runtime : j # i => runtime'[j] = runtime[j]
  <2> DEFINE t == [runtime[i] EXCEPT !.presence = p]
  <2>1. RuntimeSound(runtime[i])
    BY <1>1 DEF InvBut, TablesInv, TablesSound, RuntimeTable
  <2>2. t.presence = p
    BY <1>8, <2>1, NewPresence
  <2> HIDE DEF t
  <2>3. runtime' = [runtime EXCEPT ![i] = t]
    BY <1>3 DEF t
  <2> QED
    BY <1>1, <1>2, <2>2, <2>3, OneRuntime
<1>18. ASSUME NEW j \in Runtime, NEW u \in DOMAIN runtime'[j].presence, NEW c \in Socket \ X
       PROVE  WillKnow(known'[u], down'[u], u, c, Due(runtime'[j].presence, u, c))
  <2>1. CASE j = i
    BY <1>13, <1>17, <2>1
  <2>2. CASE j # i
    <3>1. u \in DOMAIN runtime[j].presence /\ runtime'[j] = runtime[j]
      BY <1>17, <2>2
    <3>2. u # s /\ u \in Socket
      BY <2>2, <3>1, MemberFacts DEF InvBut, i
    <3> QED
      BY <1>4, <1>17, <3>1, <3>2 DEF InvBut, ListsBut
  <2> QED
    BY <2>1, <2>2
<1>19. ListsBut(X)'
  BY <1>17, <1>18, Zenon DEF ListsBut
<1> QED
  BY <1>16, <1>19 DEF InvBut

-----------------------------------------------------------------------------
(* Documents come and go.                                                   *)

(* Where bridges and sockets stay as they are, so do the lists.             *)
Stays ==
  /\ Runtime \subseteq Runtime'
  /\ \A j \in Runtime : runtime'[j].presence = runtime[j].presence
                        /\ runtime'[j].retired = runtime[j].retired
  /\ \A j \in Runtime' \ Runtime : DOMAIN runtime'[j].presence = {}
  /\ UNCHANGED <<socket, down, known>> /\ (Closed => Closed')

LEMMA StaysKeeps ==
  ASSUME NEW X, InvBut(X), Stays
  PROVE  /\ SocketTable' /\ SocketsSound' /\ ListsBut(X)' /\ ColorsAreDistinct'
         /\ \A c \in X : Out(c)'
<1>1. SocketTable'
  BY DEF InvBut, TablesInv, TablesSound, SocketTable, Stays, Maybe
<1>2. \A u \in Socket : socket[u].phase = "open" => socket[u].at \in Runtime
  BY DEF InvBut, TablesInv, TablesSound, SocketTable, SocketsSound, Maybe
<1>3. SocketsSound'
  BY <1>2 DEF InvBut, TablesInv, SocketsSound, Stays
<1>4. \A j \in Runtime' : \A u \in DOMAIN runtime'[j].presence :
        /\ j \in Runtime /\ runtime'[j].presence = runtime[j].presence
        /\ known'[u] = known[u] /\ down'[u] = down[u]
  BY DEF Stays
<1>5. \A c \in X : Out(c)'
  BY <1>4 DEF InvBut, Out, Stays
<1> QED
  BY <1>1, <1>3, <1>4, <1>5, ListsFrame DEF InvBut, TablesInv

(* What the tables of documents say of one of them.                         *)
LEMMA DocumentFacts ==
  ASSUME TablesInv, NEW d \in Doc
  PROVE  /\ runtimes[d] \in Runtime \/ runtimes[d] = None
         /\ retiring[d] \in Runtime \/ retiring[d] = None
         /\ work[d].of \in Runtime \/ work[d].of = None
         /\ None \notin Runtime
         /\ work[d] = Idle \/ work[d].step # "idle"
         /\ work[d] = [step |-> work[d].step, of |-> work[d].of]
         /\ work[d].step \in {"idle", "recovering", "draining", "closing"}
<1>1. None \notin Runtime
  <2>1. \A n \in Nat : \A j \in 1..n : j \in Nat
    OBVIOUS
  <2> QED
    BY <2>1, ServerBounds DEF TablesInv, TablesSound, RuntimeTable
<1> QED
  BY <1>1 DEF TablesInv, TablesSound, DocumentTable, OwnersSound, Accounted, Owned, Maybe

(* Of a document in work.                                                   *)
LEMMA InWork ==
  ASSUME TablesInv, NEW d \in Doc, work[d].step # "idle"
  PROVE  /\ runtimes[d] = None /\ stop \in {"running", "waiting"}
         /\ work[d].of \in Runtime /\ runtime[work[d].of].doc = d
         /\ work[d].step = "recovering" => retiring[d] = None /\ ~runtime[work[d].of].retired
         /\ work[d].step # "recovering" => retiring[d] = work[d].of
         /\ work[d].step = "closing" /\ runtime[work[d].of].retired => runtime[work[d].of].queue = <<>>
         /\ ~Closed => runtime[work[d].of].store = "open"
<1>1. Accounted(d) /\ StopSound
  BY DEF TablesInv, OwnersSound
<1>2. Idle.step = "idle" /\ work[d] # Idle
  BY DEF Idle
<1>3. runtimes[d] = None
  BY <1>1, <1>2 DEF Accounted
<1>4. stop \in {"running", "waiting"}
  BY <1>1, <1>2 DEF StopSound
<1>5. /\ work[d].of \in Runtime /\ runtime[work[d].of].doc = d
      /\ work[d].step = "recovering" => retiring[d] = None /\ ~runtime[work[d].of].retired
      /\ work[d].step # "recovering" => retiring[d] = work[d].of
      /\ work[d].step = "closing" /\ runtime[work[d].of].retired => runtime[work[d].of].queue = <<>>
  BY <1>1, DocumentFacts DEF Accounted
<1>6. ~Closed => runtime[work[d].of].store = "open"
  BY <1>1, <1>5, DocumentFacts DEF Accounted
<1> QED
  BY <1>3, <1>4, <1>5, <1>6

(* What is not of document d stays as it is.                                *)
OnlyOf(d) ==
  /\ Runtime' = Runtime /\ Closed' = Closed /\ spent.leaked \subseteq spent'.leaked
  /\ \A e \in Doc : e # d =>
       runtimes'[e] = runtimes[e] /\ retiring'[e] = retiring[e] /\ work'[e] = work[e]
  /\ \A j \in Runtime : runtime'[j].doc = runtime[j].doc
  /\ \A j \in Runtime : runtime[j].doc # d =>
       runtime'[j].retired = runtime[j].retired /\ runtime'[j].queue = runtime[j].queue
       /\ runtime'[j].store = runtime[j].store

LEMMA OwnersOfOthers ==
  ASSUME TablesInv, NEW d \in Doc, OnlyOf(d), Accounted(d)',
         \A j \in Runtime : runtime[j].doc = d => Owned(j)'
  PROVE  OwnersSound'
<1>1. ASSUME NEW e \in Doc PROVE Accounted(e)'
  <2>1. CASE e # d
    <3>1. Accounted(e)
      BY DEF TablesInv, OwnersSound
    <3>2. runtimes'[e] = runtimes[e] /\ retiring'[e] = retiring[e] /\ work'[e] = work[e] /\ Closed' = Closed
      BY <2>1 DEF OnlyOf
    <3>3. \A j \in {runtimes[e], retiring[e], work[e].of} \ {None} :
            /\ j \in Runtime /\ runtime[j].doc = e
            /\ runtime'[j].doc = runtime[j].doc /\ runtime'[j].retired = runtime[j].retired
            /\ runtime'[j].queue = runtime[j].queue /\ runtime'[j].store = runtime[j].store
      <4> SUFFICES ASSUME NEW j \in {runtimes[e], retiring[e], work[e].of} \ {None}
                   PROVE  j \in Runtime /\ runtime[j].doc = e
        BY <2>1 DEF OnlyOf
      <4>0. /\ runtimes[e] \in Runtime \/ runtimes[e] = None
            /\ retiring[e] \in Runtime \/ retiring[e] = None
            /\ work[e].of \in Runtime \/ work[e].of = None
        BY DocumentFacts
      <4>1. j \in Runtime
        BY <4>0
      <4>2. CASE j = runtimes[e] \/ j = retiring[e]
        BY <3>1, <4>1, <4>2 DEF Accounted
      <4>3. CASE j = work[e].of
        <5>1. work[e].step # "idle"
          BY <3>1, <4>3 DEF Accounted, Idle
        <5> QED
          BY <4>1, <4>3, <5>1, InWork
      <4> QED
        BY <4>1, <4>2, <4>3
    <3>4. work[e].step # "idle" => work[e].of \in {runtimes[e], retiring[e], work[e].of} \ {None}
      BY InWork, DocumentFacts
    <3> QED
      BY <3>1, <3>2, <3>3, <3>4 DEF Accounted, Idle
  <2> QED
    BY <2>1
<1>2. ASSUME NEW j \in Runtime PROVE Owned(j)'
  <2>1. CASE runtime[j].doc # d
    <3>1. Owned(j) /\ runtime[j].doc \in Doc
      BY DEF TablesInv, OwnersSound, TablesSound, RuntimeTable, RuntimeSound
    <3> QED
      BY <2>1, <3>1 DEF Owned, OnlyOf
  <2> QED
    BY <2>1
<1> QED
  BY <1>1, <1>2 DEF OwnersSound, OnlyOf

(* Steps that change no runtime: the tables of documents.                   *)
LEMMA SameRuntimes ==
  ASSUME NEW X, InvBut(X), runtime' = runtime, UNCHANGED <<socket, down, known>>, Closed => Closed',
         DocumentTable', OwnersSound', StopSound'
  PROVE  InvBut(X)'
<1>1. Runtime' = Runtime
  BY DEF Runtime
<1>2. Stays
  BY <1>1 DEF Stays
<1>3. RuntimeTable'
  BY <1>1 DEF InvBut, TablesInv, TablesSound, RuntimeTable
<1> QED
  BY <1>2, <1>3, StaysKeeps DEF InvBut, TablesInv, TablesSound

LEMMA RecoveredKeeps ==
  ASSUME NEW X, InvBut(X), NEW d \in Doc, Recovered(d)
  PROVE  InvBut(X)'
<1> DEFINE i == work[d].of
<1>1. /\ runtime' = runtime /\ Runtime' = Runtime /\ stop' = stop /\ spent' = spent
      /\ UNCHANGED <<socket, down, known>> /\ work[d].step = "recovering"
  BY DEF Recovered, Runtime
<1>2. /\ i \in Runtime /\ runtimes[d] = None /\ retiring[d] = None
      /\ runtime[i].doc = d /\ ~runtime[i].retired /\ stop \in {"running", "waiting"}
      /\ ~Closed => runtime[i].store = "open"
  BY <1>1, InWork DEF InvBut
<1>3. DocumentTable'
  <2> HIDE DEF i
  <2>1. \/ /\ retiring' = [retiring EXCEPT ![d] = i] /\ runtimes' = runtimes
           /\ work' = [work EXCEPT ![d].step = "closing"]
        \/ /\ runtimes' = [runtimes EXCEPT ![d] = i] /\ retiring' = retiring
           /\ work' = [work EXCEPT ![d] = Idle]
    BY DEF Recovered, i
  <2>0. /\ runtimes \in [Doc -> Maybe(Runtime)] /\ retiring \in [Doc -> Maybe(Runtime)]
        /\ i \in Maybe(Runtime)
    BY <1>2 DEF InvBut, TablesInv, TablesSound, DocumentTable, Maybe
  <2>2. /\ runtimes' \in [Doc -> Maybe(Runtime)] /\ retiring' \in [Doc -> Maybe(Runtime)]
    <3>1. CASE retiring' = [retiring EXCEPT ![d] = i] /\ runtimes' = runtimes
      BY <2>0, <3>1
    <3>2. CASE runtimes' = [runtimes EXCEPT ![d] = i] /\ retiring' = retiring
      BY <2>0, <3>2
    <3> QED
      BY <2>1, <3>1, <3>2
  <2>3. work' \in [Doc -> [step : {"idle", "recovering", "draining", "closing"}, of : Maybe(Runtime)]]
    <3>1. Idle \in [step : {"idle", "recovering", "draining", "closing"}, of : Maybe(Runtime)]
      BY DEF Idle, Maybe
    <3> HIDE DEF Idle
    <3> QED
      BY <2>1, <3>1, SMTT(30) DEF InvBut, TablesInv, TablesSound, DocumentTable
  <2> QED
    BY <1>1, <2>2, <2>3 DEF InvBut, TablesInv, TablesSound, DocumentTable, Maybe
<1>4. /\ i # None /\ Closed' = Closed
      /\ \A j \in Runtime : Owned(j)
  BY <1>1, <1>2, DocumentFacts DEF InvBut, TablesInv, OwnersSound, Closed
<1>5. CASE Closed
  <2>1. /\ retiring' = [retiring EXCEPT ![d] = i] /\ runtimes' = runtimes
        /\ work' = [work EXCEPT ![d].step = "closing"]
    BY <1>5 DEF Recovered
  <2>2. /\ retiring'[d] = i /\ work'[d].of = i /\ work'[d].step = "closing" /\ runtimes'[d] = None
        /\ \A e \in Doc : e # d => retiring'[e] = retiring[e] /\ work'[e] = work[e]
    BY <1>2, <2>1 DEF InvBut, TablesInv, TablesSound, DocumentTable
  <2> HIDE DEF i
  <2>3. Accounted(d)'
    BY <1>1, <1>2, <1>4, <1>5, <2>2 DEF Accounted
  <2>4. \A j \in Runtime : runtime[j].doc = d => Owned(j)'
    BY <1>1, <1>2, <1>4, <1>5, <2>2 DEF Owned, i
  <2>5. OnlyOf(d)
    BY <1>1, <1>4, <2>1, <2>2 DEF OnlyOf
  <2>6. StopSound'
    BY <1>1, <1>2 DEF StopSound
  <2> QED
    BY <1>1, <1>3, <1>4, <2>3, <2>4, <2>5, <2>6, OwnersOfOthers, SameRuntimes DEF InvBut
<1>6. CASE ~Closed
  <2>1. /\ runtimes' = [runtimes EXCEPT ![d] = i] /\ retiring' = retiring
        /\ work' = [work EXCEPT ![d] = Idle]
    BY <1>6 DEF Recovered
  <2>2. /\ runtimes'[d] = i /\ work'[d] = Idle /\ retiring'[d] = None
        /\ \A e \in Doc : e # d => runtimes'[e] = runtimes[e] /\ work'[e] = work[e]
    BY <1>2, <2>1 DEF InvBut, TablesInv, TablesSound, DocumentTable
  <2> HIDE DEF i
  <2>3. Accounted(d)'
    BY <1>1, <1>2, <1>4, <1>6, <2>2 DEF Accounted, Idle
  <2>4. \A j \in Runtime : runtime[j].doc = d => Owned(j)'
    BY <1>1, <1>2, <1>4, <1>6, <2>2, DocumentFacts DEF InvBut, Owned, i
  <2>5. OnlyOf(d)
    BY <1>1, <1>4, <2>1, <2>2 DEF OnlyOf
  <2>6. StopSound'
    BY <1>1, <1>2 DEF StopSound
  <2> QED
    BY <1>1, <1>3, <1>4, <2>3, <2>4, <2>5, <2>6, OwnersOfOthers, SameRuntimes DEF InvBut
<1> QED
  BY <1>5, <1>6

LEMMA DrainKeeps ==
  ASSUME NEW X, InvBut(X), NEW d \in Doc, Drain(d)
  PROVE  InvBut(X)'
<1> DEFINE i == work[d].of
<1>1. /\ runtime' = runtime /\ Runtime' = Runtime /\ stop' = stop /\ spent' = spent
      /\ UNCHANGED <<socket, down, known>> /\ work[d].step = "draining"
      /\ runtimes' = runtimes /\ retiring' = retiring
      /\ work' = [work EXCEPT ![d].step = "closing"] /\ runtime[i].queue = <<>>
  BY DEF Drain, Runtime, Drained
<1>2. DocumentTable'
  BY <1>1 DEF InvBut, TablesInv, TablesSound, DocumentTable, Maybe
<1>3. /\ work'[d].of = i /\ work'[d].step = "closing"
      /\ \A e \in Doc : e # d => work'[e] = work[e]
  BY <1>1 DEF InvBut, TablesInv, TablesSound, DocumentTable
<1>4. /\ i \in Runtime /\ runtimes[d] = None /\ retiring[d] = i
      /\ runtime[i].doc = d /\ stop \in {"running", "waiting"}
      /\ ~Closed => runtime[i].store = "open"
  BY <1>1, InWork DEF InvBut
<1>5. /\ i # None /\ Closed' = Closed
      /\ \A j \in Runtime : Owned(j)
  BY <1>1, <1>4, DocumentFacts DEF InvBut, TablesInv, OwnersSound, Closed
<1>6. i = work[d].of
  OBVIOUS
<1> HIDE DEF i
<1>7. Accounted(d)'
  BY <1>1, <1>3, <1>4, <1>5 DEF Accounted
<1>8. \A j \in Runtime : runtime[j].doc = d => Owned(j)'
  BY <1>1, <1>3, <1>4, <1>5, <1>6 DEF Owned
<1>9. OnlyOf(d)
  BY <1>1, <1>3, <1>5 DEF OnlyOf
<1>10. StopSound'
  BY <1>1, <1>4 DEF StopSound
<1> QED
  BY <1>1, <1>2, <1>5, <1>7, <1>8, <1>9, <1>10, OwnersOfOthers, SameRuntimes DEF InvBut

LEMMA CloseStoresFailsKeeps ==
  ASSUME NEW X, InvBut(X), NEW d \in Doc, CloseStoresFails(d)
  PROVE  InvBut(X)'
<1> DEFINE i == work[d].of
<1>1. /\ runtime' = runtime /\ Runtime' = Runtime /\ stop' = stop
      /\ UNCHANGED <<socket, down, known>> /\ work[d].step = "closing"
      /\ runtimes' = runtimes /\ retiring' = retiring
      /\ work' = [work EXCEPT ![d] = Idle]
      /\ DOMAIN spent' = DOMAIN spent /\ spent'.unclosed = spent.unclosed /\ spent'.leaked = spent.leaked
  BY DEF CloseStoresFails, Fails, Runtime, InvBut, TablesInv, TablesSound, DocumentTable
<1>2. DocumentTable'
  BY <1>1 DEF InvBut, TablesInv, TablesSound, DocumentTable, Maybe, Idle
<1>3. /\ work'[d] = Idle
      /\ \A e \in Doc : e # d => work'[e] = work[e]
  BY <1>1 DEF InvBut, TablesInv, TablesSound, DocumentTable
<1>4. /\ i \in Runtime /\ runtimes[d] = None /\ retiring[d] = i
      /\ runtime[i].doc = d /\ stop \in {"running", "waiting"}
      /\ ~Closed => runtime[i].store = "open"
  BY <1>1, InWork DEF InvBut
<1>5. /\ i # None /\ Closed' = Closed
      /\ \A j \in Runtime : Owned(j)
  BY <1>1, <1>4, DocumentFacts DEF InvBut, TablesInv, OwnersSound, Closed
<1>6. i = work[d].of
  OBVIOUS
<1> HIDE DEF i
<1>7. Accounted(d)'
  BY <1>1, <1>3, <1>4, <1>5 DEF Accounted, Idle
<1>8. \A j \in Runtime : runtime[j].doc = d => Owned(j)'
  BY <1>1, <1>3, <1>4, <1>5, <1>6 DEF Owned
<1>9. OnlyOf(d)
  BY <1>1, <1>3, <1>5 DEF OnlyOf
<1>10. StopSound'
  BY <1>1, <1>4 DEF StopSound
<1> QED
  BY <1>1, <1>2, <1>5, <1>7, <1>8, <1>9, <1>10, OwnersOfOthers, SameRuntimes DEF InvBut

(* The stores of a runtime are closed.                                      *)
Shuts(i) ==
  /\ Stays /\ RuntimeTable' /\ Runtime' = Runtime
  /\ \A j \in Runtime :
       /\ runtime'[j].doc = runtime[j].doc /\ runtime'[j].retired = runtime[j].retired
       /\ runtime'[j].queue = runtime[j].queue
       /\ j # i => runtime'[j].store = runtime[j].store
  /\ runtime'[i].store = "closed"

LEMMA StoreClosed ==
  ASSUME TablesInv, NEW i \in Runtime, runtime' = [runtime EXCEPT ![i].store = "closed"],
         UNCHANGED <<socket, down, known>>, Closed' = Closed
  PROVE  Shuts(i)
<1> DEFINE r == runtime[i]
           t == [r EXCEPT !.store = "closed"]
<1>1. RuntimeSound(r)
  BY DEF TablesInv, TablesSound, RuntimeTable
<1>2. /\ RuntimeSound(t) /\ t.presence = r.presence /\ t.doc = r.doc /\ t.store = "closed"
      /\ t.retired = r.retired /\ t.queue = r.queue
  <2>1. /\ DOMAIN t = DOMAIN r /\ t.presence = r.presence /\ t.doc = r.doc /\ t.store = "closed"
        /\ t.retired = r.retired /\ t.queue = r.queue /\ t.poisoned = r.poisoned
    BY <1>1 DEF RuntimeSound
  <2> HIDE DEF r, t
  <2> QED
    BY <1>1, <2>1 DEF RuntimeSound
<1>3. runtime' = [runtime EXCEPT ![i] = t]
  OBVIOUS
<1> HIDE DEF t
<1>4. /\ Runtime' = Runtime /\ runtime'[i] = t
      /\ \A j \in Runtime : j # i => runtime'[j] = runtime[j]
  BY <1>3, OneRuntime
<1>5. RuntimeTable'
  BY <1>2, <1>4 DEF TablesInv, TablesSound, RuntimeTable
<1>6. Stays
  BY <1>2, <1>4 DEF Stays
<1> QED
  BY <1>2, <1>4, <1>5, <1>6 DEF Shuts

LEMMA RecoveryFailsKeeps ==
  ASSUME NEW X, InvBut(X), NEW d \in Doc, RecoveryFails(d)
  PROVE  InvBut(X)'
<1> DEFINE i == work[d].of
<1>1. /\ stop' = stop /\ UNCHANGED <<socket, down, known>> /\ work[d].step = "recovering"
      /\ runtimes' = runtimes /\ retiring' = retiring
      /\ work' = [work EXCEPT ![d] = Idle]
  BY DEF RecoveryFails
<1>2. /\ DOMAIN spent' = DOMAIN spent /\ spent'.unclosed = spent.unclosed
      /\ \/ runtime' = [runtime EXCEPT ![i].store = "closed"] /\ spent'.leaked = spent.leaked
         \/ runtime' = runtime /\ spent'.leaked = spent.leaked \cup {i}
  BY DEF RecoveryFails, InvBut, TablesInv, TablesSound, DocumentTable
<1>3. /\ i \in Runtime /\ runtimes[d] = None /\ retiring[d] = None
      /\ runtime[i].doc = d /\ ~runtime[i].retired /\ stop \in {"running", "waiting"}
  BY <1>1, InWork DEF InvBut
<1>4. Closed' = Closed /\ \A j \in Runtime : Owned(j)
  BY <1>1 DEF InvBut, TablesInv, OwnersSound, Closed
<1>5. i = work[d].of
  OBVIOUS
<1> HIDE DEF i
<1>6. /\ work'[d] = Idle
      /\ \A e \in Doc : e # d => work'[e] = work[e]
  BY <1>1 DEF InvBut, TablesInv, TablesSound, DocumentTable
<1>7. Accounted(d)'
  BY <1>1, <1>3, <1>6 DEF Accounted, Idle
<1>8. StopSound'
  BY <1>1, <1>3 DEF StopSound
<1>9. ASSUME Runtime' = Runtime PROVE DocumentTable'
  BY <1>1, <1>2, <1>9 DEF InvBut, TablesInv, TablesSound, DocumentTable, Maybe, Idle
<1>10. CASE runtime' = [runtime EXCEPT ![i].store = "closed"] /\ spent'.leaked = spent.leaked
  <2>1. Shuts(i)
    BY <1>1, <1>3, <1>4, <1>10, StoreClosed DEF InvBut
  <2>2. \A j \in Runtime : runtime[j].doc = d => Owned(j)'
    BY <1>1, <1>3, <1>4, <1>5, <1>10, <2>1, DocumentFacts DEF InvBut, Owned, Shuts
  <2>3. OnlyOf(d)
    BY <1>1, <1>3, <1>4, <1>6, <1>10, <2>1 DEF OnlyOf, Shuts
  <2>4. OwnersSound'
    BY <1>7, <2>2, <2>3, OwnersOfOthers DEF InvBut
  <2> QED
    BY <1>8, <1>9, <2>1, <2>4, StaysKeeps DEF InvBut, TablesInv, TablesSound, Shuts
<1>11. CASE runtime' = runtime /\ spent'.leaked = spent.leaked \cup {i}
  <2>1. Runtime' = Runtime
    BY <1>11 DEF Runtime
  <2>2. \A j \in Runtime : runtime[j].doc = d => Owned(j)'
    BY <1>1, <1>3, <1>4, <1>5, <1>11, DocumentFacts DEF InvBut, Owned
  <2>3. OnlyOf(d)
    BY <1>1, <1>4, <1>6, <1>11, <2>1 DEF OnlyOf
  <2>4. OwnersSound'
    BY <1>7, <2>2, <2>3, OwnersOfOthers DEF InvBut
  <2> QED
    BY <1>1, <1>4, <1>8, <1>9, <1>11, <2>1, <2>4, SameRuntimes
<1> QED
  BY <1>2, <1>10, <1>11

LEMMA CloseStoresKeeps ==
  ASSUME NEW X, InvBut(X), NEW d \in Doc, CloseStores(d)
  PROVE  InvBut(X)'
<1> DEFINE i == work[d].of
<1>1. /\ runtime' = [runtime EXCEPT ![i].store = "closed"] /\ stop' = stop
      /\ UNCHANGED <<socket, down, known>> /\ work[d].step = "closing"
      /\ runtimes' = runtimes /\ retiring' = [retiring EXCEPT ![d] = None]
      /\ work' = [work EXCEPT ![d] = Idle] /\ spent' = spent
  BY DEF CloseStores
<1>2. /\ i \in Runtime /\ runtimes[d] = None /\ retiring[d] = i
      /\ runtime[i].doc = d /\ stop \in {"running", "waiting"}
      /\ runtime[i].retired => runtime[i].queue = <<>>
  BY <1>1, InWork DEF InvBut
<1>3. Closed' = Closed /\ \A j \in Runtime : Owned(j)
  BY <1>1 DEF InvBut, TablesInv, OwnersSound, Closed
<1>4. i = work[d].of
  OBVIOUS
<1> HIDE DEF i
<1>5. Shuts(i)
  BY <1>1, <1>2, <1>3, StoreClosed DEF InvBut
<1>6. DocumentTable'
  BY <1>1, <1>5 DEF InvBut, TablesInv, TablesSound, DocumentTable, Maybe, Idle, Shuts
<1>7. /\ work'[d] = Idle /\ retiring'[d] = None
      /\ \A e \in Doc : e # d => work'[e] = work[e] /\ retiring'[e] = retiring[e]
  BY <1>1 DEF InvBut, TablesInv, TablesSound, DocumentTable
<1>8. Accounted(d)'
  BY <1>1, <1>2, <1>7 DEF Accounted, Idle
<1>9. \A j \in Runtime : runtime[j].doc = d => Owned(j)'
  BY <1>1, <1>2, <1>3, <1>4, <1>5, DocumentFacts DEF InvBut, Owned, Shuts
<1>10. OnlyOf(d)
  BY <1>1, <1>2, <1>3, <1>5, <1>7 DEF OnlyOf, Shuts
<1>11. StopSound'
  BY <1>1, <1>2 DEF StopSound
<1>12. OwnersSound'
  BY <1>8, <1>9, <1>10, OwnersOfOthers DEF InvBut
<1> QED
  BY <1>5, <1>6, <1>11, <1>12, StaysKeeps DEF InvBut, TablesInv, TablesSound, Shuts

LEMMA AddDocumentKeeps ==
  ASSUME NEW X, InvBut(X), NEW d \in Doc, AddDocument(d)
  PROVE  InvBut(X)'
<1> DEFINE new == NewRuntime(d)
<1>0. PICK n : n = Cardinality(Runtime)
  OBVIOUS
<1> DEFINE i == n + 1
<1>1. /\ runtime' = [j \in 1..i |-> IF j = i THEN new ELSE runtime[j]]
      /\ work' = [work EXCEPT ![d] = [step |-> "recovering", of |-> i]]
      /\ runtimes' = runtimes /\ retiring' = retiring /\ stop' = stop /\ spent' = spent
      /\ UNCHANGED <<socket, down, known>>
      /\ ~Closed /\ runtimes[d] = None /\ retiring[d] = None /\ work[d] = Idle
  BY <1>0 DEF AddDocument, MayAdd
<1>2. n \in Nat /\ Runtime = 1..n /\ \A j \in Runtime : RuntimeSound(runtime[j])
  BY <1>0 DEF InvBut, TablesInv, TablesSound, RuntimeTable
<1>3. RuntimeSound(new) /\ new.doc = d /\ new.store = "open" /\ new.presence = <<>> /\ ~new.retired
  <2> DEFINE none == <<>>
  <2>1. RegistrySound(none)
    BY EmptyView DEF IsView, RegistrySound
  <2>2. none \in Seq(ToSet(none))
    OBVIOUS
  <2>3. new = [doc |-> d, retired |-> FALSE, presence |-> none, queue |-> none, poisoned |-> FALSE, store |-> "open"]
    BY DEF NewRuntime
  <2> HIDE DEF new, none
  <2>4. RuntimeSound(new) /\ new.doc = d /\ new.store = "open" /\ new.presence = none /\ ~new.retired
    BY <2>1, <2>2, <2>3 DEF RuntimeSound
  <2> QED
    BY <2>4 DEF none
<1>4. i = n + 1
  OBVIOUS
<1> HIDE DEF new, i
<1>5. /\ Runtime' = 1..i /\ i \in Nat /\ runtime'[i] = new
      /\ \A j \in Runtime : j \in Runtime' /\ runtime'[j] = runtime[j]
      /\ \A j \in Runtime' : j \in Runtime \/ j = i
      /\ i \in Runtime' /\ i \notin Runtime /\ i # None
  BY <1>1, <1>2, <1>4, ServerBounds DEF Runtime
<1>6. Cardinality(Runtime)' = i
  BY <1>5, FS_Interval
<1>7. RuntimeTable'
  BY <1>2, <1>3, <1>5, <1>6 DEF RuntimeTable
<1>8. DocumentTable'
  BY <1>1, <1>5 DEF InvBut, TablesInv, TablesSound, DocumentTable, Maybe
<1>9. Stays
  <2>1. DOMAIN new.presence = {}
    BY <1>3
  <2> QED
    BY <1>1, <1>5, <2>1 DEF Stays, Closed
<1>10. /\ work'[d].step = "recovering" /\ work'[d].of = i
       /\ \A e \in Doc : e # d => work'[e] = work[e]
  BY <1>1 DEF InvBut, TablesInv, TablesSound, DocumentTable
<1>11. Closed' = Closed
  BY <1>1 DEF Closed
<1>12. Accounted(d)'
  BY <1>1, <1>3, <1>5, <1>10 DEF Accounted
<1>13. ASSUME NEW e \in Doc, e # d PROVE Accounted(e)'
  <2>1. Accounted(e)
    BY DEF InvBut, TablesInv, OwnersSound
  <2>2. \A j \in {runtimes[e], retiring[e], work[e].of} \ {None} : runtime'[j] = runtime[j]
    BY <1>5, DocumentFacts, ZenonT(30) DEF InvBut
  <2>3. work'[e] = work[e]
    BY <1>10, <1>13
  <2>4. work[e].step # "idle" => work[e].of # None
    BY InWork, DocumentFacts DEF InvBut
  <2> QED
    BY <1>1, <1>11, <2>1, <2>2, <2>3, <2>4, ZenonT(30) DEF Accounted, Idle
<1>14. ASSUME NEW j \in Runtime PROVE Owned(j)'
  <2>1. Owned(j) /\ runtime'[j] = runtime[j] /\ runtime[j].doc \in Doc /\ j # None
    BY <1>2, <1>5, DocumentFacts DEF InvBut, TablesInv, OwnersSound, RuntimeSound
  <2>2. CASE runtime[j].doc # d
    BY <1>1, <1>10, <1>11, <2>1, <2>2 DEF Owned
  <2>3. CASE runtime[j].doc = d
    BY <1>1, <1>11, <2>1, <2>3 DEF Owned, Idle
  <2> QED
    BY <2>2, <2>3
<1>15. Owned(i)'
  BY <1>3, <1>5, <1>10 DEF Owned
<1>16. OwnersSound'
  BY <1>5, <1>12, <1>13, <1>14, <1>15 DEF OwnersSound
<1>17. StopSound'
  BY <1>1 DEF StopSound, Closed
<1> QED
  BY <1>7, <1>8, <1>9, <1>16, <1>17, StaysKeeps DEF InvBut, TablesInv, TablesSound

LEMMA RemoveDocumentKeeps ==
  ASSUME NEW X, InvBut(X), NEW d \in Doc, RemoveDocument(d)
  PROVE  InvBut(X)'
<1> DEFINE i == IF runtimes[d] # None THEN runtimes[d] ELSE retiring[d]
           r == runtime[i]
           t == [r EXCEPT !.retired = TRUE]
           S == Attached(i)
<1>1. /\ ~Closed /\ work[d] = Idle /\ i # None
      /\ runtimes' = [runtimes EXCEPT ![d] = None]
      /\ retiring' = [retiring EXCEPT ![d] = i]
      /\ work' = [work EXCEPT ![d] = [step |-> "draining", of |-> i]]
      /\ CloseSockets(i, t, S)
      /\ stop' = stop /\ known' = known /\ spent' = spent
  BY DEF RemoveDocument, RetiredSockets
<1>2. i \in {runtimes[d], retiring[d]}
  OBVIOUS
<1>3. Accounted(d) /\ \A j \in Runtime : Owned(j)
  BY DEF InvBut, TablesInv, OwnersSound
<1> HIDE DEF i
<1>4. i \in Runtime /\ runtime[i].doc = d /\ runtime[i].store = "open"
  BY <1>1, <1>2, <1>3, DocumentFacts DEF InvBut, Accounted
<1>5. RuntimeSound(r)
  BY <1>4 DEF InvBut, TablesInv, TablesSound, RuntimeTable
<1>6. /\ RuntimeSound(t) /\ t.presence = r.presence /\ t.doc = r.doc /\ t.store = r.store
      /\ t.retired /\ t.queue = r.queue
  <2>1. /\ DOMAIN t = DOMAIN r /\ t.presence = r.presence /\ t.doc = r.doc /\ t.store = r.store
        /\ t.retired = TRUE /\ t.queue = r.queue /\ t.poisoned = r.poisoned
    BY <1>5 DEF RuntimeSound
  <2> HIDE DEF r, t
  <2> QED
    BY <1>5, <2>1 DEF RuntimeSound
<1>7. /\ S \subseteq Socket /\ \A s \in S : socket[s].at = i /\ socket[s].phase \in {"open", "closing"}
      /\ \A s \in Socket : socket[s].at = i /\ socket[s].phase = "open" => s \in S
  BY DEF Attached
<1>8. DOMAIN t.presence \subseteq S
  BY <1>1, <1>4, <1>6, MemberFacts DEF Attached, InvBut, TablesInv, SocketsSound
<1> HIDE DEF t, S
<1>9. /\ SocketTable' /\ SocketsSound' /\ ListsBut(X)' /\ ColorsAreDistinct'
      /\ \A c \in Socket : c \in S \/ Out(c) => Out(c)'
      /\ \E p : /\ runtime' = [runtime EXCEPT ![i] = [t EXCEPT !.presence = p]]
                /\ RegistrySound(p)
  BY <1>1, <1>4, <1>6, <1>7, <1>8, ClosingKeeps DEF InvBut, TablesInv
<1>10. PICK p : /\ runtime' = [runtime EXCEPT ![i] = [t EXCEPT !.presence = p]]
                /\ RegistrySound(p)
  BY <1>9
<1> DEFINE u == [t EXCEPT !.presence = p]
<1>11. /\ RuntimeSound(u) /\ u.doc = t.doc /\ u.store = t.store
       /\ u.retired = t.retired /\ u.queue = t.queue
  BY <1>6, <1>10, NewPresence
<1>12. runtime' = [runtime EXCEPT ![i] = u]
  BY <1>10
<1> HIDE DEF u
<1>13. /\ Runtime' = Runtime /\ runtime'[i] = u
       /\ \A j \in Runtime : j # i => runtime'[j] = runtime[j]
  BY <1>4, <1>12, OneRuntime
<1>14. RuntimeTable'
  BY <1>11, <1>13 DEF InvBut, TablesInv, TablesSound, RuntimeTable
<1>15. DocumentTable'
  BY <1>1, <1>4, <1>13 DEF InvBut, TablesInv, TablesSound, DocumentTable, Maybe
<1>16. /\ runtimes'[d] = None /\ retiring'[d] = i /\ work'[d].step = "draining" /\ work'[d].of = i
       /\ \A e \in Doc : e # d =>
            runtimes'[e] = runtimes[e] /\ retiring'[e] = retiring[e] /\ work'[e] = work[e]
  BY <1>1 DEF InvBut, TablesInv, TablesSound, DocumentTable
<1>17. Closed' = Closed
  BY <1>1 DEF Closed
<1>18. Accounted(d)'
  BY <1>1, <1>4, <1>6, <1>11, <1>13, <1>16 DEF Accounted
<1>19. ASSUME NEW j \in Runtime, runtime[j].doc = d PROVE Owned(j)'
  <2>1. CASE j = i
    BY <1>4, <1>6, <1>11, <1>13, <1>16, <2>1 DEF Owned
  <2>2. CASE j # i
    <3>1. j \notin {runtimes[d], retiring[d], work[d].of}
      <4>1. runtimes[d] = None \/ retiring[d] = None
        BY <1>3 DEF Accounted
      <4> QED
        BY <1>1, <1>2, <2>2, <4>1, DocumentFacts DEF InvBut, Idle
    <3>2. Owned(j) /\ runtime'[j] = runtime[j]
      BY <1>3, <1>13, <2>2
    <3> QED
      BY <1>1, <1>17, <1>19, <3>1, <3>2 DEF Owned
  <2> QED
    BY <2>1, <2>2
<1>20. OnlyOf(d)
  BY <1>1, <1>4, <1>6, <1>11, <1>13, <1>16, <1>17 DEF OnlyOf
<1>21. OwnersSound'
  BY <1>18, <1>19, <1>20, OwnersOfOthers DEF InvBut
<1>22. StopSound'
  BY <1>1 DEF StopSound, Closed
<1>23. \A c \in X : Out(c)'
  BY <1>9 DEF InvBut, Out
<1> QED
  BY <1>9, <1>14, <1>15, <1>21, <1>22, <1>23 DEF InvBut, TablesInv, TablesSound

-----------------------------------------------------------------------------
(* RunningServer.close.                                                     *)

LEMMA StoppingKeeps ==
  ASSUME NEW X, InvBut(X), stop' \in {"waiting", "stores", "wss", "http", "done"},
         UNCHANGED <<runtime, runtimes, retiring, work, socket, down, known, spent>>, StopSound'
  PROVE  InvBut(X)'
<1>1. Runtime' = Runtime /\ Closed'
  BY DEF Runtime, Closed
<1>2. DocumentTable'
  BY <1>1 DEF InvBut, TablesInv, TablesSound, DocumentTable, Maybe
<1>3. OwnersSound'
  BY <1>1 DEF InvBut, TablesInv, OwnersSound, Accounted, Owned, Idle
<1> QED
  BY <1>1, <1>2, <1>3, SameRuntimes

LEMMA StopKeeps ==
  ASSUME NEW X, InvBut(X), Stop
  PROVE  InvBut(X)'
  BY StoppingKeeps DEF Stop, StopSound

LEMMA StopDocumentsKeeps ==
  ASSUME NEW X, InvBut(X), StopDocuments
  PROVE  InvBut(X)'
<1>1. StopSound'
  BY DEF StopDocuments, StopSound, Idle
<1> QED
  BY <1>1, StoppingKeeps DEF StopDocuments

LEMMA StopListeningKeeps ==
  ASSUME NEW X, InvBut(X), StopListening
  PROVE  InvBut(X)'
<1>1. StopSound'
  BY DEF StopListening, StopSound, InvBut, TablesInv, Idle, Runtime
<1> QED
  BY <1>1, StoppingKeeps DEF StopListening

LEMMA StopDoneKeeps ==
  ASSUME NEW X, InvBut(X), StopDone
  PROVE  InvBut(X)'
<1>1. StopSound'
  BY DEF StopDone, StopSound, InvBut, TablesInv, Idle, Runtime
<1> QED
  BY <1>1, StoppingKeeps DEF StopDone

(* closeRuntimes: every open store is closed, or its failure reported.      *)
LEMMA StopStoresKeeps ==
  ASSUME NEW X, InvBut(X), StopStores
  PROVE  InvBut(X)'
<1>1. PICK failed \in SUBSET ToClose :
        /\ stop = "stores" /\ stop' = "wss"
        /\ spent' = [spent EXCEPT !.failures = @ + Cardinality(failed), !.unclosed = failed]
        /\ runtime' = [i \in Runtime |->
                         IF i \in ToClose \ failed THEN [runtime[i] EXCEPT !.store = "closed"]
                                                   ELSE runtime[i]]
        /\ socket' = StopSockets
        /\ UNCHANGED <<runtimes, retiring, work, down, known>>
  BY DEF StopStores
<1>2. DOMAIN spent' = DOMAIN spent /\ spent'.unclosed = failed /\ spent'.leaked = spent.leaked
  BY <1>1 DEF InvBut, TablesInv, TablesSound, DocumentTable
<1>3. \A j \in Runtime : RuntimeSound(runtime[j])
  BY DEF InvBut, TablesInv, TablesSound, RuntimeTable
<1>4. Runtime' = Runtime /\ Closed /\ Closed'
  BY <1>1 DEF Runtime, Closed
<1>5. ASSUME NEW j \in Runtime
      PROVE  /\ RuntimeSound(runtime'[j]) /\ runtime'[j].doc = runtime[j].doc
             /\ runtime'[j].retired = runtime[j].retired /\ runtime'[j].queue = runtime[j].queue
             /\ runtime'[j].presence = runtime[j].presence
             /\ j \in ToClose \ failed => runtime'[j].store = "closed"
             /\ runtime'[j].store = "closed" \/ runtime'[j].store = runtime[j].store
  <2> DEFINE r == runtime[j]
             t == [r EXCEPT !.store = "closed"]
  <2>1. runtime'[j] = IF j \in ToClose \ failed THEN t ELSE r
    BY <1>1
  <2>2. /\ DOMAIN t = DOMAIN r /\ t.presence = r.presence /\ t.doc = r.doc /\ t.store = "closed"
        /\ t.retired = r.retired /\ t.queue = r.queue /\ t.poisoned = r.poisoned
    BY <1>3 DEF RuntimeSound
  <2>3. RuntimeSound(r)
    BY <1>3
  <2> HIDE DEF r, t
  <2>4. RuntimeSound(t)
    BY <2>2, <2>3 DEF RuntimeSound
  <2>5. CASE j \in ToClose \ failed
    BY <2>1, <2>2, <2>4, <2>5 DEF r
  <2>6. CASE j \notin ToClose \ failed
    BY <2>1, <2>3, <2>6 DEF r
  <2> QED
    BY <2>5, <2>6
<1>6. RuntimeTable'
  BY <1>4, <1>5 DEF InvBut, TablesInv, TablesSound, RuntimeTable
<1>7. DocumentTable'
  BY <1>1, <1>2, <1>4 DEF InvBut, TablesInv, TablesSound, DocumentTable, Maybe
<1>8. OwnersSound'
  <2>1. ASSUME NEW d \in Doc PROVE Accounted(d)'
    <3>1. Accounted(d)
      BY DEF InvBut, TablesInv, OwnersSound
    <3>2. work[d] = Idle
      BY <1>1 DEF InvBut, TablesInv, StopSound
    <3> QED
      BY <1>1, <1>4, <1>5, <3>1, <3>2, DocumentFacts DEF InvBut, Accounted, Idle
  <2>2. ASSUME NEW j \in Runtime PROVE Owned(j)'
    <3>1. Owned(j)
      BY DEF InvBut, TablesInv, OwnersSound
    <3> QED
      BY <1>1, <1>2, <1>4, <1>5, <3>1 DEF Owned
  <2> QED
    BY <1>4, <2>1, <2>2 DEF OwnersSound
<1>9. \A d \in Doc : work[d] = Idle
  BY <1>1 DEF InvBut, TablesInv, StopSound
<1>10. ASSUME NEW j \in Runtime PROVE runtime'[j].store = "closed" \/ j \in failed \cup spent.leaked
  <2>1. SUFFICES ASSUME runtime[j].store = "open", j \notin spent.leaked PROVE j \in ToClose
    BY <1>3, <1>5 DEF RuntimeSound
  <2> DEFINE d == runtime[j].doc
  <2>2. d \in Doc /\ j \in {runtimes[d], retiring[d], work[d].of} /\ Accounted(d)
    BY <1>3, <2>1 DEF InvBut, TablesInv, OwnersSound, Owned, RuntimeSound
  <2> HIDE DEF d
  <2>3. j # None /\ work[d].of = None
    BY <1>9, <2>2, DocumentFacts DEF InvBut, Idle
  <2>4. j = IF retiring[d] # None THEN retiring[d] ELSE runtimes[d]
    BY <2>2, <2>3 DEF Accounted
  <2> QED
    BY <2>2, <2>3, <2>4 DEF ToClose
<1>11. StopSound'
  BY <1>1, <1>2, <1>4, <1>9, <1>10 DEF StopSound, Idle
<1>12. ListsBut(X)' /\ ColorsAreDistinct'
  BY <1>1, <1>4, <1>5, ListsFrame DEF InvBut, TablesInv
<1>13. \A s \in Socket : socket[s] \in [phase : {"closed", "authenticating", "upgrading", "open", "closing"},
                                        at : Maybe(Runtime)]
  BY DEF InvBut, TablesInv, TablesSound, SocketTable
<1>14. \A s \in Socket :
         /\ socket[s].phase = "authenticating" => socket'[s] = Absent
         /\ socket[s].phase = "open" => socket'[s] = [socket[s] EXCEPT !.phase = "closing"]
         /\ socket[s].phase \notin {"authenticating", "open"} => socket'[s] = socket[s]
  BY <1>1 DEF StopSockets, Shut
<1>15. \A s \in Socket :
         /\ socket[s].phase = "authenticating" => socket'[s].phase = "closed"
         /\ socket[s].phase = "open" => socket'[s].phase = "closing" /\ socket'[s].at = socket[s].at
         /\ socket[s].phase \notin {"authenticating", "open"} => socket'[s] = socket[s]
         /\ socket'[s] \in [phase : {"closed", "authenticating", "upgrading", "open", "closing"},
                            at : Maybe(Runtime)]
  <2> SUFFICES ASSUME NEW s \in Socket
               PROVE  /\ socket[s].phase = "authenticating" => socket'[s].phase = "closed"
                      /\ socket[s].phase = "open" => socket'[s].phase = "closing" /\ socket'[s].at = socket[s].at
                      /\ socket[s].phase \notin {"authenticating", "open"} => socket'[s] = socket[s]
                      /\ socket'[s] \in [phase : {"closed", "authenticating", "upgrading", "open", "closing"},
                                         at : Maybe(Runtime)]
    OBVIOUS
  <2> DEFINE e == socket[s]
             f == socket'[s]
  <2>1. e \in [phase : {"closed", "authenticating", "upgrading", "open", "closing"}, at : Maybe(Runtime)]
    BY <1>13
  <2>2. /\ e.phase = "authenticating" => f = Absent
        /\ e.phase = "open" => f = [e EXCEPT !.phase = "closing"]
        /\ e.phase \notin {"authenticating", "open"} => f = e
    BY <1>14
  <2>3. Absent.phase = "closed" /\ Absent \in [phase : {"closed"}, at : Maybe(Runtime)]
    BY DEF Absent, Maybe
  <2> HIDE DEF e, f
  <2>4. CASE e.phase = "authenticating"
    BY <2>2, <2>3, <2>4 DEF e, f
  <2>5. CASE e.phase = "open"
    <3>1. /\ f.phase = "closing" /\ f.at = e.at
          /\ f \in [phase : {"closed", "authenticating", "upgrading", "open", "closing"}, at : Maybe(Runtime)]
      BY <2>1, <2>2, <2>5
    <3> QED
      BY <2>5, <3>1 DEF e, f
  <2>6. CASE e.phase \notin {"authenticating", "open"}
    BY <2>1, <2>2, <2>6 DEF e, f
  <2> QED
    BY <2>4, <2>5, <2>6
<1>16. SocketTable'
  <2>1. socket' = [s \in Socket |-> socket'[s]]
    BY <1>1, Zenon DEF StopSockets
  <2>2. socket' \in [Socket -> [phase : {"closed", "authenticating", "upgrading", "open", "closing"},
                                at : Maybe(Runtime)]]
    BY <1>15, <2>1
  <2> QED
    BY <1>1, <1>4, <2>2 DEF InvBut, TablesInv, TablesSound, SocketTable, Maybe
<1>17. \A s \in Socket :
         /\ socket'[s].phase \in {"upgrading", "open", "closing"} => socket'[s].at # None
         /\ socket'[s].phase # "open"
         /\ socket'[s].phase \in {"closed", "authenticating", "upgrading"} => down[s] = <<>>
  BY <1>13, <1>15 DEF InvBut, TablesInv, SocketsSound
<1>18. ASSUME NEW j \in Runtime, NEW s \in DOMAIN runtime[j].presence
       PROVE  socket'[s].at = j /\ socket'[s].phase = "closing"
  <2>1. s \in Socket /\ socket[s].at = j /\ socket[s].phase \in {"open", "closing"}
    BY MemberFacts DEF InvBut
  <2> QED
    BY <1>15, <2>1
<1>19. SocketsSound'
  BY <1>1, <1>4, <1>5, <1>17, <1>18 DEF InvBut, TablesInv, SocketsSound
<1>20. \A c \in X : Out(c)'
  BY <1>4, <1>5, <1>15 DEF InvBut, Out
<1> QED
  BY <1>6, <1>7, <1>8, <1>11, <1>12, <1>16, <1>19, <1>20 DEF InvBut, TablesInv, TablesSound

-----------------------------------------------------------------------------
(* Deltas that wait for their microtask.                                    *)

(* A message of another is read back as it came.                            *)
LEMMA OthersNewsBack ==
  ASSUME NEW S, NEW q \in Seq(S), NEW ms \in Seq(S), NEW view, NEW s, NEW c, NEW n,
         WillKnow(view, q \o ms, s, c, n),
         \A i \in DOMAIN ms : ~Concerns(ms[i], c)
  PROVE  WillKnow(view, q, s, c, n)
<1> DEFINE r == q \o ms
           k == Len(q)
<1>0. k = Len(q) /\ r = q \o ms
  OBVIOUS
<1> HIDE DEF k, r
<1>1. /\ k \in Nat /\ Len(ms) \in Nat /\ DOMAIN q = 1..k /\ DOMAIN ms = 1..Len(ms)
      /\ r \in Seq(S) /\ DOMAIN r = 1..(k + Len(ms))
      /\ \A i \in 1..k : r[i] = q[i]
      /\ \A i \in 1..Len(ms) : r[k + i] = ms[i]
  BY <1>0, Concatenated
<1>2. \A i \in DOMAIN r : i \in DOMAIN q \/ ~Concerns(r[i], c)
  <2> SUFFICES ASSUME NEW i \in DOMAIN r, i \notin DOMAIN q PROVE ~Concerns(r[i], c)
    OBVIOUS
  <2>1. i - k \in 1..Len(ms) /\ k + (i - k) = i
    BY <1>1
  <2>2. r[i] = ms[i - k]
    BY <1>1, <2>1
  <2> QED
    BY <1>1, <2>1, <2>2
<1>3. \A i \in DOMAIN q : i \in DOMAIN r /\ r[i] = q[i]
  BY <1>1
<1>4. WillKnow(view, r, s, c, n)
  BY DEF r
<1>5. CASE \A i \in DOMAIN r : ~Concerns(r[i], c)
  BY <1>3, <1>4, <1>5 DEF WillKnow
<1>6. ASSUME NEW i \in DOMAIN r, Concerns(r[i], c), Says(r[i], s, c) = n,
             \A j \in DOMAIN r : j > i => ~Concerns(r[j], c)
      PROVE  WillKnow(view, q, s, c, n)
  <2>1. i \in DOMAIN q /\ Concerns(q[i], c) /\ Says(q[i], s, c) = n
    BY <1>2, <1>3, <1>6
  <2>2. \A j \in DOMAIN q : j > i => ~Concerns(q[j], c)
    BY <1>3, <1>6
  <2> QED
    BY <2>1, <2>2 DEF WillKnow
<1> QED
  BY <1>4, <1>5, <1>6 DEF WillKnow

(* Nothing more on the way.                                                 *)
LEMMA NothingMore ==
  ASSUME NEW q, QueueSound(q)
  PROVE  q \o <<>> = q
  BY DEF QueueSound

LEMMA SomeMessage ==
  ASSUME NEW w, w \in Seq(ToSet(w)), w # <<>>
  PROVE  \E m \in ToSet(w) : TRUE
<1>1. 1 \in DOMAIN w
  OBVIOUS
<1> QED
  BY <1>1 DEF ToSet

(* What waits, when it is of s, comes to all of its room but s.             *)
LEMMA ComesToOthers ==
  ASSUME NEW q, QueueSound(q), NEW w, w \in Seq(ToSet(w)), NEW s, \A m \in ToSet(w) : m.from = s,
         NEW at, NEW u
  PROVE  (IF \E m \in ToSet(w) : m.from # u /\ at[m.from].at = at[u].at THEN q \o w ELSE q)
           = IF u # s /\ at[u].at = at[s].at THEN q \o w ELSE q
<1>1. CASE w = <<>>
  <2>1. ToSet(w) = {} /\ q \o w = q
    BY <1>1, NothingMore DEF ToSet
  <2> QED
    BY <2>1
<1>2. CASE w # <<>>
  <2>1. PICK m \in ToSet(w) : TRUE
    BY <1>2, SomeMessage
  <2> QED
    BY <2>1
<1> QED
  BY <1>1, <1>2

(* Without the deltas that wait, which are about connections of X.          *)
LEMMA ListsWithout ==
  ASSUME ServerInv, NEW X, spent.overtaken \subseteq X,
         \A m \in ToSet(undelivered) : m.from \in X
  PROVE  ListsBut(X)
<1> SUFFICES ASSUME NEW i \in Runtime, NEW s \in DOMAIN runtime[i].presence, NEW c \in Socket \ X
             PROVE  WillKnow(known[s], down[s], s, c, Due(runtime[i].presence, s, c))
  BY DEF ListsBut
<1> DEFINE n == Due(runtime[i].presence, s, c)
           q == down[s]
           w == undelivered
           S == ToSet(q) \cup ToSet(w)
<1>1. WillKnow(known[s], Coming(s), s, c, n)
  BY DEF ServerInv, ListsSound
<1>2. QueueSound(q)
  BY MemberFacts DEF ServerInv, TablesInv, TablesSound, SocketTable
<1>3. w \in Seq(ToSet(w)) /\ \A m \in ToSet(w) : m.type = "delta"
  BY DEF ServerInv, DeltasSound
<1>4. Coming(s) = q \/ Coming(s) = q \o w
  BY DEF Coming
<1>5. \A k \in DOMAIN w : ~Concerns(w[k], c)
  <2>1. \A k \in DOMAIN w : w[k] \in ToSet(w)
    BY DEF ToSet
  <2> QED
    BY <1>3, <2>1 DEF Concerns
<1>6. q \in Seq(S) /\ w \in Seq(S)
  BY <1>2, <1>3 DEF QueueSound
<1> HIDE DEF n, q, w, S
<1>7. CASE Coming(s) = q
  BY <1>1, <1>7 DEF n, q
<1>8. CASE Coming(s) = q \o w
  <2>1. WillKnow(known[s], q, s, c, n)
    BY <1>1, <1>5, <1>6, <1>8, OthersNewsBack
  <2> QED
    BY <2>1 DEF n, q
<1> QED
  BY <1>4, <1>7, <1>8

(* And back, after a step.                                                  *)
LEMMA ListsWith ==
  ASSUME NEW X, InvBut(X)', X = spent'.overtaken, DeltasSound',
         \A m \in ToSet(undelivered') : m.from \in X
  PROVE  ServerInv'
<1>1. ASSUME NEW i \in Runtime', NEW s \in DOMAIN runtime'[i].presence, NEW c \in Socket \ X
      PROVE  WillKnow(known'[s], Coming(s)', s, c, Due(runtime'[i].presence, s, c))
  <2> DEFINE n == Due(runtime'[i].presence, s, c)
             q == down'[s]
             w == undelivered'
             S == ToSet(q) \cup ToSet(w)
  <2>1. WillKnow(known'[s], q, s, c, n)
    BY <1>1 DEF InvBut, ListsBut
  <2>2. QueueSound(q)
    <3>1. s \in Socket
      BY <1>1 DEF InvBut, TablesInv, TablesSound, RuntimeTable, RuntimeSound, RegistrySound
    <3> QED
      BY <3>1 DEF InvBut, TablesInv, TablesSound, SocketTable
  <2>3. w \in Seq(ToSet(w)) /\ \A m \in ToSet(w) : m.type = "delta"
    BY DEF DeltasSound
  <2>4. Coming(s)' = q \/ Coming(s)' = q \o w
    BY DEF Coming
  <2>5. \A k \in DOMAIN w : ~Concerns(w[k], c)
    <3>1. \A k \in DOMAIN w : w[k] \in ToSet(w)
      BY DEF ToSet
    <3> QED
      BY <1>1, <2>3, <3>1 DEF Concerns
  <2>6. q \in Seq(S) /\ w \in Seq(S)
    BY <2>2, <2>3 DEF QueueSound
  <2> HIDE DEF n, q, w, S
  <2>7. WillKnow(known'[s], q \o w, s, c, n)
    BY <2>1, <2>5, <2>6, OthersNews
  <2> QED
    BY <2>1, <2>4, <2>7 DEF n
<1>2. ListsSound'
  BY <1>1, Zenon DEF ListsSound
<1> QED
  BY <1>2 DEF InvBut, ServerInv, OvertakenSound

(* A presence waits behind those of the same chunk.                         *)
LEMMA PresenceKeeps ==
  ASSUME ServerInv, NEW s \in Socket, Presence(s)
  PROVE  ServerInv'
<1> DEFINE i == socket[s].at
           reg == runtime[i].presence
           p == [Touch(reg, s) EXCEPT ![s].seq = @ + 1]
           n == reg[s].seq + 1
           m == [type |-> "delta", from |-> s, seq |-> n]
           w == undelivered
           t == [runtime[i] EXCEPT !.presence = p]
<1>1. /\ i \in Runtime /\ socket[s].phase = "open" /\ ~runtime[i].retired /\ RegistrySound(reg)
      /\ RuntimeSound(runtime[i])
  BY ListeningFacts DEF ServerInv, Presence, RuntimeSound
<1>2. s \in DOMAIN reg /\ UNCHANGED <<docVars, socket, down, known, spent>>
      /\ \A a \in ToSet(w) : a.from = s
  BY DEF Presence, InChunkOf
<1>3. runtime' = [runtime EXCEPT ![i] = t] /\ undelivered' = Append(w, m)
  BY DEF Presence
<1>4. n \in Nat \ {0}
  BY <1>1, <1>2 DEF RegistrySound
<1>5. IsMessage(m) /\ m.type = "delta" /\ m.from = s /\ m.seq = n
  BY <1>4 DEF IsMessage
<1>6. reg[s] \in [color : Nat, seq : Nat, idle : BOOLEAN]
  BY <1>1, <1>2 DEF RegistrySound
<1>7. /\ DOMAIN p = DOMAIN reg /\ p = [c \in DOMAIN p |-> p[c]]
      /\ \A c \in DOMAIN reg : c # s => p[c] = reg[c]
      /\ p[s] \in [color : Nat, seq : Nat, idle : BOOLEAN] /\ p[s].seq = n /\ p[s].color = reg[s].color
  BY <1>1, <1>2, <1>4, <1>6 DEF Touch, RegistrySound
<1> HIDE DEF p, m, n
<1>8. RegistrySound(p)
  BY <1>1, <1>7 DEF RegistrySound
<1>9. t.presence = p
  BY <1>1, <1>8, NewPresence
<1>10. \A c, d \in DOMAIN p : c # d => p[c].color # p[d].color
  <2>1. \A c, d \in DOMAIN reg : c # d => reg[c].color # reg[d].color
    BY <1>1 DEF ServerInv, TablesInv, ColorsAreDistinct
  <2>2. \A c \in DOMAIN reg : p[c].color = reg[c].color
    BY <1>7
  <2> HIDE DEF reg
  <2> QED
    BY <1>7, <2>1, <2>2
<1>11. DOMAIN down = Socket /\ \A u \in Socket : QueueSound(down[u])
  BY DEF ServerInv, TablesInv, TablesSound, SocketTable
<1>12. Speaks(i, p)
  BY <1>1, <1>2, <1>3, <1>7, <1>8, <1>10, <1>11 DEF Speaks
<1>13. TablesInv' /\ \A c : Out(c) => Out(c)'
  BY <1>12, SpeaksKeeps DEF ServerInv
<1>14. OvertakenSound' /\ spent' = spent
  BY <1>2, <1>13 DEF ServerInv, OvertakenSound
<1> HIDE DEF t
<1>15. /\ Runtime' = Runtime /\ runtime'[i].presence = p
       /\ \A j \in Runtime : j # i => runtime'[j] = runtime[j]
  BY <1>1, <1>3, <1>9, OneRuntime
<1>16. w \in Seq(ToSet(w)) /\ \A a \in ToSet(w) : IsMessage(a) /\ a.type = "delta"
  BY DEF ServerInv, DeltasSound
<1>17. /\ undelivered' \in Seq(ToSet(undelivered')) /\ undelivered' = w \o <<m>>
       /\ \A a \in ToSet(undelivered') : IsMessage(a) /\ a.type = "delta" /\ a.from = s
  <2> DEFINE S == ToSet(w) \cup {m}
             v == undelivered'
  <2>1. w \in Seq(S) /\ v = Append(w, m) /\ m \in S
    BY <1>3, <1>16
  <2>2. \A a \in S : IsMessage(a) /\ a.type = "delta" /\ a.from = s
    BY <1>2, <1>5, <1>16
  <2> HIDE DEF S, v, w
  <2>3. v \in Seq(S)
    BY <2>1
  <2>4. v \in Seq(ToSet(v)) /\ ToSet(v) \subseteq S
    BY <2>3, SeqDef DEF ToSet
  <2>5. v = w \o <<m>>
    BY <2>1, AppendIsConcat
  <2> QED
    BY <2>2, <2>4, <2>5 DEF v
<1>18. DeltasSound'
  <2>1. socket'[s].at = i /\ i # None /\ s \in DOMAIN runtime'[i].presence
    BY <1>1, <1>2, <1>7, <1>15, DocumentFacts DEF ServerInv, TablesInv, SocketsSound
  <2> QED
    BY <1>17, <2>1 DEF DeltasSound, InChunkOf
<1>19. ASSUME NEW j \in Runtime, NEW u \in DOMAIN runtime'[j].presence, NEW c \in Socket \ spent.overtaken
       PROVE  WillKnow(known[u], Coming(u)', u, c, Due(runtime'[j].presence, u, c))
  <2> DEFINE q == down[u]
             before == Coming(u)
             after == Coming(u)'
  <2>1. u \in DOMAIN runtime[j].presence
    BY <1>7, <1>15
  <2>2. u \in Socket /\ socket[u].at = j /\ QueueSound(q)
    BY <1>11, <2>1, MemberFacts DEF ServerInv
  <2>3. WillKnow(known[u], before, u, c, Due(runtime[j].presence, u, c))
    BY <2>1 DEF ServerInv, ListsSound
  <2>4. before = IF u # s /\ socket[u].at = socket[s].at THEN q \o w ELSE q
    BY <1>2, <1>16, <2>2, ComesToOthers DEF Coming
  <2>5. after = IF u # s /\ socket[u].at = socket[s].at THEN q \o (w \o <<m>>) ELSE q
    <3> DEFINE v == undelivered'
    <3>1. v = w \o <<m>> /\ v \in Seq(ToSet(v)) /\ \A a \in ToSet(v) : a.from = s
      BY <1>17
    <3>2. after = IF \E a \in ToSet(v) : a.from # u /\ socket[a.from].at = socket[u].at THEN q \o v ELSE q
      BY <1>2 DEF Coming
    <3> HIDE DEF v, after, q
    <3> QED
      BY <2>2, <3>1, <3>2, ComesToOthers
  <2> HIDE DEF before, after
  <2>6. CASE u # s /\ socket[u].at = socket[s].at
    <3>1. j = i
      BY <2>2, <2>6
    <3>2. before = q \o w /\ after = q \o (w \o <<m>>)
      BY <2>4, <2>5, <2>6
    <3>3. QueueSound(before) /\ after = before \o <<m>>
      <4>1. QueueSound(w)
        BY <1>16 DEF QueueSound
      <4> HIDE DEF q, w
      <4>2. QueueSound(q \o w)
        BY <2>2, <4>1, QueueConcat
      <4> DEFINE S == ToSet(q) \cup ToSet(w) \cup {m}
                 ms == <<m>>
      <4>3. q \in Seq(S) /\ w \in Seq(S) /\ ms \in Seq(S)
        BY <2>2, <4>1 DEF QueueSound
      <4> HIDE DEF S, ms
      <4>4. (q \o w) \o ms = q \o (w \o ms)
        BY <4>3, ConcatAssociative
      <4> QED
        BY <3>2, <4>2, <4>4 DEF ms
    <3>4. CASE c = s
      <4>1. Due(runtime'[j].presence, u, c) = n
        BY <1>2, <1>7, <1>15, <2>6, <3>1, <3>4 DEF Due
      <4>2. Concerns(m, c) /\ Says(m, u, c) = n
        BY <1>5, <3>4 DEF Concerns, Says
      <4>3. WillKnow(known[u], before \o <<m>>, u, c, n)
        BY <1>5, <3>3, <4>2, OneMore
      <4> QED
        BY <3>3, <4>1, <4>3 DEF after
    <3>5. CASE c # s
      <4>1. Due(runtime'[j].presence, u, c) = Due(runtime[j].presence, u, c)
        BY <1>7, <1>15, <3>1, <3>5 DEF Due
      <4>2. ~Concerns(m, c)
        BY <1>5, <3>5 DEF Concerns
      <4>3. WillKnow(known[u], before \o <<m>>, u, c, Due(runtime[j].presence, u, c))
        BY <1>5, <2>3, <3>3, <4>2, OneMore
      <4> QED
        BY <3>3, <4>1, <4>3 DEF after
    <3> QED
      BY <3>4, <3>5
  <2>7. CASE ~(u # s /\ socket[u].at = socket[s].at)
    <3>1. after = before
      BY <2>4, <2>5, <2>7
    <3>2. Due(runtime'[j].presence, u, c) = Due(runtime[j].presence, u, c)
      <4>1. CASE j = i
        BY <1>7, <1>15, <2>2, <2>7, <4>1 DEF Due
      <4>2. CASE j # i
        BY <1>15, <4>2
      <4> QED
        BY <4>1, <4>2
    <3> QED
      BY <2>3, <3>1, <3>2 DEF after
  <2> QED
    BY <2>6, <2>7
<1>20. ListsSound'
  BY <1>2, <1>14, <1>15, <1>19, Zenon DEF ListsSound
<1> QED
  BY <1>13, <1>14, <1>18, <1>20 DEF ServerInv

(* A connection is cut off, perhaps in front of its own presences.          *)
LEMMA BadFrameKeeps ==
  ASSUME ServerInv, NEW s \in Socket, BadFrame(s)
  PROVE  ServerInv'
<1> DEFINE i == socket[s].at
<1>0. PICK X : X = spent'.overtaken
  OBVIOUS
<1>1. /\ i \in Runtime /\ socket[s].phase = "open" /\ ~runtime[i].retired
      /\ RuntimeSound(runtime[i])
  BY ListeningFacts DEF ServerInv, BadFrame
<1>2. /\ DOMAIN spent' = DOMAIN spent /\ spent'.unclosed = spent.unclosed /\ spent'.leaked = spent.leaked
      /\ X = IF undelivered = <<>> THEN spent.overtaken ELSE spent.overtaken \cup {s}
  BY <1>0 DEF BadFrame, ServerInv, TablesInv, TablesSound, DocumentTable
<1>3. undelivered' = undelivered /\ \A m \in ToSet(undelivered) : m.from = s
  BY DEF BadFrame, InChunkOf
<1>4. CutsOff(i, runtime[i], {s})
  BY <1>1, <1>2 DEF CutsOff, BadFrame, docVars
<1>5. \A m \in ToSet(undelivered) : m.from \in X
  <2>1. undelivered = <<>> => ToSet(undelivered) = {}
    BY DEF ToSet
  <2> QED
    BY <1>2, <1>3, <2>1
<1>6. ListsBut(X)
  BY <1>2, <1>5, ListsWithout
<1>7. \A c \in X : c \in {s} \/ Out(c)
  BY <1>2 DEF ServerInv, OvertakenSound
<1>8. InvBut(X)'
  BY <1>4, <1>6, <1>7, CutsOffKeeps DEF ServerInv
<1>9. DeltasSound'
  <2>1. socket'[s].at # None
    BY <1>1, <1>4, DocumentFacts DEF CutsOff, CloseSockets, Shut, ServerInv, TablesInv, TablesSound, SocketTable, SocketsSound
  <2> QED
    BY <1>0, <1>3, <1>5, <2>1 DEF ServerInv, DeltasSound, InChunkOf
<1> QED
  BY <1>0, <1>3, <1>5, <1>8, <1>9, ListsWith

(* A microtask runs: what waited is on its way.                             *)
LEMMA DispatchDeltaKeeps ==
  ASSUME ServerInv, DispatchDelta
  PROVE  ServerInv'
<1>0. PICK w, s : w = undelivered /\ s = Head(w).from
  OBVIOUS
<1> DEFINE m == Head(w)
           k == socket[s].at
           D == DOMAIN runtime[k].presence \ {s}
<1>1. /\ w \in Seq(ToSet(w)) /\ w # <<>>
      /\ \A a \in ToSet(w) :
           /\ IsMessage(a) /\ a.type = "delta" /\ InChunkOf(a.from)
           /\ socket[a.from].at # None
           /\ a.from \in DOMAIN runtime[socket[a.from].at].presence \cup spent.overtaken
  BY <1>0 DEF ServerInv, DeltasSound, DispatchDelta
<1>2. m \in ToSet(w) /\ QueueSound(w)
  <2>1. QueueSound(w)
    BY <1>1 DEF QueueSound
  <2>2. m = w[1] /\ 1 \in DOMAIN w
    BY <1>1
  <2> QED
    BY <2>1, <2>2 DEF ToSet
<1>3. /\ \A a \in ToSet(w) : a.from = s
      /\ IsMessage(m) /\ m.type = "delta" /\ s \in Socket
      /\ k \in Runtime
  <2>1. \A a \in ToSet(w) : a.from = s
    BY <1>0, <1>1, <1>2 DEF InChunkOf
  <2>2. IsMessage(m) /\ m.type = "delta" /\ s \in Socket /\ k # None
    BY <1>0, <1>1, <1>2 DEF IsMessage
  <2>3. socket[s] \in [phase : {"closed", "authenticating", "upgrading", "open", "closing"},
                       at : Maybe(Runtime)]
    BY <2>2 DEF ServerInv, TablesInv, TablesSound, SocketTable
  <2> QED
    BY <2>1, <2>2, <2>3 DEF Maybe
<1>4. /\ UNCHANGED <<runtime, docVars, socket, known, spent>> /\ Runtime' = Runtime
      /\ undelivered' = Tail(w) /\ DOMAIN down' = Socket
      /\ \A u \in Socket : down'[u] = IF u \in D THEN down[u] \o <<m>> ELSE down[u]
  BY <1>0 DEF DispatchDelta, Fanned, Runtime
<1>5. \A u \in D : u \in Socket /\ socket[u].at = k /\ socket[u].phase \in {"open", "closing"}
  BY <1>3, MemberFacts DEF ServerInv
<1>6. \A u \in Socket : QueueSound(down[u])
  BY DEF ServerInv, TablesInv, TablesSound, SocketTable
<1>7. /\ Tail(w) \in Seq(ToSet(Tail(w))) /\ ToSet(Tail(w)) \subseteq ToSet(w)
      /\ w = <<m>> \o Tail(w)
  <2> DEFINE S == ToSet(w)
             v == Tail(w)
  <2>1. w \in Seq(S) /\ w # <<>>
    BY <1>1
  <2> HIDE DEF S
  <2>2. v \in Seq(S) /\ w = <<Head(w)>> \o v
    BY <2>1, HeadTailProperties
  <2> HIDE DEF v
  <2>3. v \in Seq(ToSet(v)) /\ ToSet(v) \subseteq S
    BY <2>2, SeqDef DEF ToSet
  <2> QED
    BY <2>2, <2>3 DEF v, S
<1> HIDE DEF m, k, D
<1>8. SocketTable'
  <2>1. ASSUME NEW u \in Socket PROVE QueueSound(down'[u])
    <3>1. QueueSound(down[u] \o <<m>>)
      BY <1>3, <1>6, OneMore
    <3> QED
      BY <1>4, <1>6, <3>1
  <2> QED
    BY <1>4, <2>1 DEF ServerInv, TablesInv, TablesSound, SocketTable, Maybe
<1>9. RuntimeTable' /\ DocumentTable' /\ OwnersSound' /\ StopSound' /\ ColorsAreDistinct' /\ OvertakenSound'
  <2>1. /\ runtimes' = runtimes /\ retiring' = retiring /\ work' = work /\ stop' = stop
        /\ runtime' = runtime /\ spent' = spent /\ Runtime' = Runtime /\ socket' = socket
    BY <1>4 DEF docVars
  <2>2. RuntimeTable' /\ DocumentTable'
    BY <2>1 DEF ServerInv, TablesInv, TablesSound, RuntimeTable, DocumentTable, Maybe
  <2>3. OwnersSound' /\ StopSound' /\ ColorsAreDistinct'
    BY <2>1 DEF ServerInv, TablesInv, OwnersSound, Accounted, Owned, StopSound, Closed, Idle, ColorsAreDistinct
  <2>4. OvertakenSound'
    BY <2>1 DEF ServerInv, OvertakenSound, Out
  <2> QED
    BY <2>2, <2>3, <2>4
<1>10. SocketsSound'
  <2>1. \A u \in Socket : u \notin D => down'[u] = down[u]
    BY <1>4
  <2>2. \A u \in D : u \in DOMAIN runtime[socket[u].at].presence
    BY <1>5 DEF D
  <2>3. stop' = stop
    BY <1>4 DEF docVars
  <2> QED
    BY <1>4, <1>5, <2>1, <2>2, <2>3 DEF ServerInv, TablesInv, SocketsSound, Closed
<1>11. DeltasSound'
  BY <1>1, <1>3, <1>4, <1>7 DEF DeltasSound, InChunkOf
<1>12. ASSUME NEW j \in Runtime, NEW u \in DOMAIN runtime[j].presence
       PROVE  Coming(u)' = Coming(u)
  <2> DEFINE q == down[u]
             r == down'[u]
             v == Tail(w)
             after == Coming(u)'
  <2>1. u \in Socket /\ socket[u].at = j /\ QueueSound(q)
    BY <1>6, MemberFacts DEF ServerInv
  <2>2. QueueSound(r)
    BY <1>8, <2>1 DEF SocketTable
  <2>3. Coming(u) = IF u # s /\ socket[u].at = socket[s].at THEN q \o w ELSE q
    <3> HIDE DEF q
    <3> QED
      BY <1>0, <1>1, <1>3, <2>1, ComesToOthers DEF Coming, q
  <2>4. after = IF u # s /\ socket[u].at = socket[s].at THEN r \o v ELSE r
    <3>1. v \in Seq(ToSet(v)) /\ \A a \in ToSet(v) : a.from = s
      BY <1>3, <1>7
    <3>2. PICK B : B = \E a \in ToSet(v) : a.from # u /\ socket[a.from].at = socket[u].at
      OBVIOUS
    <3>3. after = IF B THEN r \o v ELSE r
      BY <1>4, <3>2 DEF Coming
    <3> HIDE DEF v, r, after
    <3>4. CASE v = <<>>
      <4>1. r \o v = r
        BY <2>2, <3>4, NothingMore
      <4> QED
        BY <3>3, <4>1
    <3>5. CASE v # <<>>
      <4>1. PICK a \in ToSet(v) : TRUE
        BY <3>1, <3>5, SomeMessage
      <4>2. B = (u # s /\ socket[u].at = socket[s].at)
        BY <3>1, <3>2, <4>1
      <4> QED
        BY <3>3, <4>2
    <3> QED
      BY <3>4, <3>5
  <2>5. CASE u # s /\ socket[u].at = socket[s].at
    <3>1. u \in D
      BY <2>1, <2>5 DEF D, k
    <3>2. r = q \o <<m>>
      BY <1>4, <2>1, <3>1
    <3>3. q \o w = (q \o <<m>>) \o v
      <4> DEFINE S == ToSet(q) \cup ToSet(w)
                 ms == <<m>>
      <4>1. q \in Seq(S) /\ v \in Seq(S) /\ ms \in Seq(S) /\ w = ms \o v
        BY <1>2, <1>7, <2>1 DEF QueueSound
      <4> HIDE DEF S, ms, q, v
      <4>2. (q \o ms) \o v = q \o (ms \o v)
        BY <4>1, ConcatAssociative
      <4> QED
        BY <4>1, <4>2 DEF ms
    <3> QED
      BY <2>3, <2>4, <2>5, <3>2, <3>3
  <2>6. CASE ~(u # s /\ socket[u].at = socket[s].at)
    <3>1. u \notin D
      BY <1>5, <2>6 DEF D, k
    <3>2. r = q
      BY <1>4, <2>1, <3>1
    <3> QED
      BY <2>3, <2>4, <2>6, <3>2
  <2> QED
    BY <2>5, <2>6
<1>13. ListsSound'
  <2>1. ASSUME NEW j \in Runtime, NEW u \in DOMAIN runtime[j].presence, NEW c \in Socket \ spent.overtaken
        PROVE  WillKnow(known[u], Coming(u)', u, c, Due(runtime[j].presence, u, c))
    <3>1. WillKnow(known[u], Coming(u), u, c, Due(runtime[j].presence, u, c))
      BY DEF ServerInv, ListsSound
    <3> QED
      BY <1>12, <3>1
  <2> QED
    BY <1>4, <2>1, Zenon DEF ListsSound
<1> QED
  BY <1>8, <1>9, <1>10, <1>11, <1>13 DEF ServerInv, TablesInv, TablesSound

-----------------------------------------------------------------------------
(* The invariant.                                                           *)

LEMMA InitServer == Init => ServerInv
<1> SUFFICES ASSUME Init PROVE ServerInv
  OBVIOUS
<1>1. PICK served \in SUBSET Doc :
        LET number == CHOOSE f \in [served -> 1..Cardinality(served)] : IsInjective(f)
        IN  /\ runtime = [i \in 1..Cardinality(served) |->
                            NewRuntime(CHOOSE d \in served : number[d] = i)]
            /\ runtimes = [d \in Doc |-> IF d \in served THEN number[d] ELSE None]
            /\ retiring = [d \in Doc |-> None]
            /\ work = [d \in Doc |-> Idle]
            /\ stop = "running"
            /\ socket = [s \in Socket |-> Absent]
            /\ down = [s \in Socket |-> <<>>]
            /\ known = [s \in Socket |-> <<>>]
            /\ undelivered = <<>>
            /\ spent = [upgrades |-> 0, submits |-> 0, failures |-> 0, unclosed |-> {},
                         leaked |-> {}, overtaken |-> {}, late |-> FALSE]
  BY DEF Init
<1> DEFINE n == Cardinality(served)
           number == CHOOSE f \in [served -> 1..n] : IsInjective(f)
           docOf(i) == CHOOSE d \in served : number[d] = i
<1>2. /\ runtime = [i \in 1..n |-> NewRuntime(docOf(i))]
      /\ runtimes = [d \in Doc |-> IF d \in served THEN number[d] ELSE None]
      /\ retiring = [d \in Doc |-> None] /\ work = [d \in Doc |-> Idle] /\ stop = "running"
      /\ socket = [s \in Socket |-> Absent] /\ down = [s \in Socket |-> <<>>]
      /\ known = [s \in Socket |-> <<>>] /\ undelivered = <<>>
      /\ spent = [upgrades |-> 0, submits |-> 0, failures |-> 0, unclosed |-> {},
                   leaked |-> {}, overtaken |-> {}, late |-> FALSE]
  BY <1>1
<1>3. IsFiniteSet(served) /\ n \in Nat /\ ExistsBijection(1..n, served)
  BY ServerBounds, FS_Subset, FS_CardinalityType
<1>4. number \in [served -> 1..n] /\ IsInjective(number)
  <2>1. ExistsBijection(served, 1..n)
    BY <1>3, Fun_ExistsBijSymmetric
  <2>2. \E f \in [served -> 1..n] : IsInjective(f)
    BY <2>1 DEF ExistsBijection, Bijection, Injection, IsInjective
  <2> HIDE DEF n
  <2> QED
    BY <2>2
<1>5. \A i \in 1..n : \E d \in served : number[d] = i
  <2>1. IsFiniteSet(1..n) /\ Cardinality(1..n) = n
    BY <1>3, FS_Interval
  <2> HIDE DEF number
  <2>2. number \in Injection(served, 1..n)
    BY <1>4 DEF Injection, IsInjective
  <2>3. number \in Surjection(served, 1..n)
    BY <1>3, <2>1, <2>2, FS_Injection
  <2> QED
    BY <2>3 DEF Surjection
<1> HIDE DEF number
<1>6. \A i \in 1..n : docOf(i) \in served /\ number[docOf(i)] = i
  BY <1>5
<1>7. \A d, e \in served : number[d] = number[e] => d = e
  BY <1>4 DEF IsInjective
<1> HIDE DEF n, docOf
<1>8. Runtime = 1..n /\ Cardinality(Runtime) = n /\ None \notin 1..n
  <2>1. Runtime = 1..n
    BY <1>2, Zenon DEF Runtime
  <2>2. Cardinality(1..n) = n
    BY <1>3, FS_Interval
  <2> QED
    BY <1>3, <2>1, <2>2, ServerBounds
<1>9. ASSUME NEW i \in 1..n
      PROVE  /\ RuntimeSound(runtime[i]) /\ runtime[i].doc = docOf(i) /\ runtime[i].store = "open"
             /\ ~runtime[i].retired /\ DOMAIN runtime[i].presence = {}
  <2> DEFINE none == <<>>
             new == runtime[i]
             d == docOf(i)
  <2>1. RegistrySound(none) /\ DOMAIN none = {}
    BY EmptyView DEF IsView, RegistrySound
  <2>2. none \in Seq(ToSet(none))
    OBVIOUS
  <2>3. new = [doc |-> d, retired |-> FALSE, presence |-> none, queue |-> none, poisoned |-> FALSE, store |-> "open"]
    BY <1>2 DEF NewRuntime
  <2>4. d \in Doc
    BY <1>6
  <2> HIDE DEF new, none, d
  <2>5. RuntimeSound(new) /\ new.doc = d /\ new.store = "open" /\ new.presence = none /\ ~new.retired
    BY <2>1, <2>2, <2>3, <2>4 DEF RuntimeSound
  <2> QED
    BY <2>1, <2>5 DEF new, d
<1>10. RuntimeTable
  BY <1>3, <1>8, <1>9 DEF RuntimeTable
<1>11. \A d \in Doc : /\ runtimes[d] = (IF d \in served THEN number[d] ELSE None)
                      /\ retiring[d] = None /\ work[d] = Idle
  BY <1>2
<1>12. DocumentTable
  <2>1. Idle \in [step : {"idle", "recovering", "draining", "closing"}, of : Maybe(Runtime)]
    BY DEF Idle, Maybe
  <2> HIDE DEF Idle
  <2>2. work \in [Doc -> [step : {"idle", "recovering", "draining", "closing"}, of : Maybe(Runtime)]]
    BY <1>2, <2>1
  <2>3. runtimes \in [Doc -> Maybe(Runtime)] /\ retiring \in [Doc -> Maybe(Runtime)]
    BY <1>2, <1>4, <1>8 DEF Maybe
  <2> QED
    BY <1>2, <2>2, <2>3 DEF DocumentTable
<1>13. SocketTable
  <2>1. Absent \in [phase : {"closed", "authenticating", "upgrading", "open", "closing"}, at : Maybe(Runtime)]
    BY DEF Absent, Maybe
  <2> HIDE DEF Absent
  <2> QED
    BY <1>2, <2>1, EmptyQueue, EmptyView DEF SocketTable
<1>14. OwnersSound
  <2>1. ASSUME NEW d \in Doc PROVE Accounted(d)
    <3>1. CASE d \in served
      <4>1. runtimes[d] \in 1..n /\ runtimes[d] = number[d]
        BY <1>4, <1>11, <3>1
      <4>2. runtime[runtimes[d]].doc = d
        BY <1>6, <1>7, <1>9, <3>1, <4>1
      <4> QED
        BY <1>9, <1>11, <4>1, <4>2 DEF Accounted, Idle
    <3>2. CASE d \notin served
      BY <1>11, <3>2 DEF Accounted, Idle
    <3> QED
      BY <3>1, <3>2
  <2>2. ASSUME NEW i \in Runtime PROVE Owned(i)
    BY <1>6, <1>8, <1>9, <1>11 DEF Owned
  <2> QED
    BY <2>1, <2>2 DEF OwnersSound
<1>15. StopSound
  BY <1>2 DEF StopSound
<1>16. SocketsSound
  <2>1. \A s \in Socket : socket[s].phase = "closed" /\ down[s] = <<>>
    BY <1>2 DEF Absent
  <2> QED
    BY <1>8, <1>9, <2>1 DEF SocketsSound
<1>17. ListsSound /\ ColorsAreDistinct
  BY <1>8, <1>9 DEF ListsSound, ColorsAreDistinct
<1>18. OvertakenSound /\ DeltasSound
  <2> DEFINE none == <<>>
  <2>1. none \in Seq(ToSet(none)) /\ ToSet(none) = {} /\ undelivered = none
    BY <1>2 DEF ToSet
  <2> HIDE DEF none
  <2> QED
    BY <1>2, <2>1 DEF OvertakenSound, DeltasSound
<1> QED
  BY <1>10, <1>12, <1>13, <1>14, <1>15, <1>16, <1>17, <1>18 DEF ServerInv, TablesInv, TablesSound

(* A task finds no delta waiting, and leaves none.                          *)
LEMMA BeforeTask ==
  ASSUME ServerInv, NextTask, NEW X, X = spent.overtaken
  PROVE  InvBut(X)
<1>1. \A m \in ToSet(undelivered) : m.from \in X
  BY DEF NextTask, ToSet
<1>2. ListsBut(X)
  BY <1>1, ListsWithout
<1> QED
  BY <1>2 DEF InvBut, ServerInv, OvertakenSound

LEMMA AfterTask ==
  ASSUME NextTask, NEW X, X = spent'.overtaken, InvBut(X)'
  PROVE  ServerInv'
<1>1. undelivered' = <<>> /\ ToSet(undelivered') = {}
  BY DEF NextTask, ToSet
<1>2. DeltasSound'
  <2> DEFINE none == <<>>
  <2>1. none \in Seq(ToSet(none)) /\ undelivered' = none
    BY <1>1
  <2> HIDE DEF none
  <2> QED
    BY <1>1, <2>1 DEF DeltasSound
<1> QED
  BY <1>1, <1>2, ListsWith

LEMMA NextServer == ServerInv /\ [Next]_vars => ServerInv'
<1> SUFFICES ASSUME ServerInv, [Next]_vars PROVE ServerInv'
  OBVIOUS
<1>0. PICK X : X = spent.overtaken
  OBVIOUS
<1> DEFINE Finds == NextTask /\ spent'.overtaken = X
<1>a. ASSUME Finds PROVE InvBut(X) /\ (InvBut(X)' => ServerInv')
  BY <1>0, <1>a, BeforeTask, AfterTask
<1>b. DOMAIN spent = {"upgrades", "submits", "failures", "unclosed", "leaked", "overtaken", "late"}
  BY DEF ServerInv, TablesInv, TablesSound, DocumentTable
<1>1. ASSUME NEW s \in Socket, Gone(s) \/ Join(s) \/ Heartbeat(s) \/ Submit(s) \/ Read(s)
      PROVE  ServerInv'
  <2>1. Finds
    BY <1>0, <1>1, <1>b DEF Gone, Join, Heartbeat, Submit, Enqueue, Read
  <2> HIDE DEF Finds
  <2> QED
    BY <1>1, <1>a, <2>1, GoneKeeps, JoinKeeps, HeartbeatKeeps, SubmitKeeps, ReadKeeps
<1>2. ASSUME NEW s \in Socket, Refused(s) \/ Connect(s) \/ Upgrade(s)
      PROVE  ServerInv'
  <2>1. Finds
    BY <1>0, <1>2, <1>b DEF Refused, Connect, Upgrade
  <2>2. Upgrade(s) => s \notin X
    BY <1>0 DEF Upgrade, Free
  <2> HIDE DEF Finds
  <2> QED
    BY <1>2, <1>a, <2>1, <2>2, RefusedKeeps, ConnectKeeps, UpgradeKeeps
<1>3. ASSUME NEW s \in Socket, NEW d \in Doc, AcceptUpgrade(s, d)
      PROVE  ServerInv'
  <2>1. Finds
    BY <1>0, <1>3 DEF AcceptUpgrade
  <2> HIDE DEF Finds
  <2> QED
    BY <1>3, <1>a, <2>1, AcceptUpgradeKeeps
<1>4. ASSUME NEW s \in Socket, NEW i \in Runtime, FallsSilent(i, s)
      PROVE  ServerInv'
  <2>1. Finds
    BY <1>0, <1>4 DEF FallsSilent
  <2> HIDE DEF Finds
  <2> QED
    BY <1>4, <1>a, <2>1, FallsSilentKeeps
<1>5. ASSUME NEW i \in Runtime, Settle(i) \/ AppendFails(i) \/ Sweep(i)
      PROVE  ServerInv'
  <2>1. Finds
    BY <1>0, <1>5, <1>b DEF Settle, AppendFails, Fails, Sweep
  <2> HIDE DEF Finds
  <2> QED
    BY <1>5, <1>a, <2>1, SettleKeeps, AppendFailsKeeps, SweepKeeps
<1>6. ASSUME NEW d \in Doc, SubmitFromServer(d) \/ AddDocument(d) \/ Recovered(d) \/ RecoveryFails(d)
      PROVE  ServerInv'
  <2>1. Finds
    BY <1>0, <1>6, <1>b DEF SubmitFromServer, Enqueue, AddDocument, Recovered, RecoveryFails
  <2> HIDE DEF Finds
  <2> QED
    BY <1>6, <1>a, <2>1, SubmitFromServerKeeps, AddDocumentKeeps, RecoveredKeeps, RecoveryFailsKeeps
<1>7. ASSUME NEW d \in Doc, RemoveDocument(d) \/ Drain(d) \/ CloseStores(d) \/ CloseStoresFails(d)
      PROVE  ServerInv'
  <2>1. Finds
    BY <1>0, <1>7, <1>b DEF RemoveDocument, Drain, CloseStores, CloseStoresFails, Fails
  <2> HIDE DEF Finds
  <2> QED
    BY <1>7, <1>a, <2>1, RemoveDocumentKeeps, DrainKeeps, CloseStoresKeeps, CloseStoresFailsKeeps
<1>8. ASSUME Stop \/ StopDocuments \/ StopStores \/ StopListening \/ StopDone
      PROVE  ServerInv'
  <2>1. Finds
    BY <1>0, <1>8, <1>b DEF Stop, StopDocuments, StopStores, StopListening, StopDone
  <2> HIDE DEF Finds
  <2> QED
    BY <1>8, <1>a, <2>1, StopKeeps, StopDocumentsKeeps, StopStoresKeeps, StopListeningKeeps, StopDoneKeeps
<1>9. CASE UNCHANGED vars
  <2>1. /\ runtime' = runtime /\ runtimes' = runtimes /\ retiring' = retiring /\ work' = work
        /\ stop' = stop /\ socket' = socket /\ down' = down /\ known' = known
        /\ undelivered' = undelivered /\ spent' = spent /\ Runtime' = Runtime
    BY <1>9 DEF vars, Runtime
  <2>2. TablesInv'
    BY <2>1 DEF ServerInv, TablesInv, TablesSound, RuntimeTable, DocumentTable, SocketTable, Maybe,
                OwnersSound, Accounted, Owned, StopSound, SocketsSound, ColorsAreDistinct, Closed, Idle
  <2>3. OvertakenSound' /\ DeltasSound' /\ ListsSound'
    BY <2>1 DEF ServerInv, OvertakenSound, Out, DeltasSound, InChunkOf, ListsSound, Coming
  <2> QED
    BY <2>2, <2>3 DEF ServerInv
<1> QED
  BY <1>1, <1>2, <1>3, <1>4, <1>5, <1>6, <1>7, <1>8, <1>9,
     PresenceKeeps, BadFrameKeeps, DispatchDeltaKeeps DEF Next

(* The tables, their owners, the sockets and the lists stay consistent in   *)
(* every state of the server, between a presence and the microtask of its   *)
(* delta too (server.ts:397-401, 1575-1704, presence.ts, room.ts).          *)
THEOREM ServerInvariance == Spec => []ServerInv
BY InitServer, NextServer, PTL DEF Spec

-----------------------------------------------------------------------------
(* What it gives.                                                           *)

LEMMA OneOwner == ServerInv => StoresHaveOneOwner
<1> SUFFICES ASSUME ServerInv PROVE StoresHaveOneOwner
  OBVIOUS
<1>1. OneOpenStorePerDocument
  <2> SUFFICES ASSUME NEW i \in Runtime \ spent.leaked, NEW j \in Runtime \ spent.leaked, i # j,
                      runtime[i].doc = runtime[j].doc,
                      runtime[i].store = "open", runtime[j].store = "open"
               PROVE  FALSE
    BY DEF OneOpenStorePerDocument, ServerInv, TablesInv, TablesSound, RuntimeTable, RuntimeSound
  <2> DEFINE d == runtime[i].doc
  <2>1. d \in Doc /\ Accounted(d)
    BY DEF ServerInv, TablesInv, OwnersSound, TablesSound, RuntimeTable, RuntimeSound
  <2>2. i \in {runtimes[d], retiring[d], work[d].of} /\ j \in {runtimes[d], retiring[d], work[d].of}
    BY DEF ServerInv, TablesInv, OwnersSound, Owned
  <2> HIDE DEF d
  <2>3. i # None /\ j # None
    BY <2>1, DocumentFacts DEF ServerInv
  <2>4. CASE work[d].step = "idle"
    BY <2>1, <2>2, <2>3, <2>4 DEF Accounted, Idle
  <2>5. CASE work[d].step # "idle"
    BY <2>1, <2>2, <2>3, <2>5, InWork DEF ServerInv
  <2> QED
    BY <2>4, <2>5
<1>2. StopLeavesNoStoreOpen
  BY DEF StopLeavesNoStoreOpen, ServerInv, TablesInv, StopSound
<1> QED
  BY <1>1, <1>2 DEF StoresHaveOneOwner

(* Every open store has one owner, however documents are added, removed and *)
(* added again, recoveries and closes fail, and the server stops: for any   *)
(* number of documents (server.ts:1596-1604, 1651, 1690-1704).  Stores that *)
(* the clean-up of a failed recovery could not close are left out           *)
(* (server.ts:1204-1223).                                                   *)
THEOREM OwnersAreUnique == Spec => []StoresHaveOneOwner
BY OneOwner, ServerInvariance, PTL

LEMMA Sealed == ServerInv => RemovedIsSealed
<1> SUFFICES ASSUME ServerInv, NEW i \in Runtime, runtime[i].retired
             PROVE  /\ Attached(i) = {} /\ runtime[i].presence = <<>>
                    /\ (runtime[i].store = "closed" /\ ~Closed) => runtime[i].queue = <<>>
  BY DEF RemovedIsSealed
<1>1. Attached(i) = {}
  BY DEF Attached, ServerInv, TablesInv, SocketsSound
<1>2. runtime[i].presence = <<>>
  <2>1. RegistrySound(runtime[i].presence) /\ DOMAIN runtime[i].presence = {}
    BY DEF ServerInv, TablesInv, SocketsSound, TablesSound, RuntimeTable, RuntimeSound
  <2> QED
    BY <2>1, EmptyTable DEF RegistrySound
<1>3. (runtime[i].store = "closed" /\ ~Closed) => runtime[i].queue = <<>>
  BY DEF ServerInv, TablesInv, OwnersSound, Owned
<1> QED
  BY <1>1, <1>2, <1>3

(* A removed document lets nobody in, and its stores are closed when every  *)
(* submit it accepted is answered (server.ts:1633-1636).                    *)
THEOREM RemovedStaysSealed == Spec => []RemovedIsSealed
BY Sealed, ServerInvariance, PTL

LEMMA ListsComplete == ServerInv => PresenceListsAgree
<1> SUFFICES ASSUME ServerInv, NEW i \in Runtime, NEW s \in DOMAIN runtime[i].presence,
                    undelivered = <<>>, down[s] = <<>>
             PROVE  Without(known[s], spent.overtaken) = Without(Snapshot(runtime[i].presence), {s})
  BY DEF PresenceListsAgree
<1> DEFINE reg == runtime[i].presence
           out == spent.overtaken
           view == known[s]
           v == Without(view, out)
           w == Without(Snapshot(reg), {s})
<1>1. s \in Socket /\ RegistrySound(reg)
  BY MemberFacts DEF RuntimeSound, ServerInv
<1>2. IsView(view)
  BY <1>1 DEF ServerInv, TablesInv, TablesSound, SocketTable
<1>3. IsView(v) /\ DOMAIN v = DOMAIN view \ out /\ \A c \in DOMAIN view \ out : v[c] = view[c]
  <2> HIDE DEF view, out
  <2> QED
    BY <1>2, WithoutFacts
<1>4. IsView(Snapshot(reg)) /\ DOMAIN Snapshot(reg) = Shown(reg)
      /\ \A c \in Shown(reg) : Snapshot(reg)[c] = reg[c].seq
  BY <1>1 DEF IsView, Snapshot, Shown, RegistrySound
<1>5. IsView(w) /\ DOMAIN w = Shown(reg) \ {s} /\ \A c \in Shown(reg) \ {s} : w[c] = reg[c].seq
  <2> DEFINE all == Snapshot(reg)
             own == {s}
  <2>1. /\ IsView(all) /\ DOMAIN all = Shown(reg)
        /\ \A c \in Shown(reg) : all[c] = reg[c].seq
    BY <1>4
  <2>2. w = Without(all, own)
    OBVIOUS
  <2> HIDE DEF all, own, w, reg
  <2>3. /\ DOMAIN w = DOMAIN all \ own /\ \A c \in DOMAIN all \ own : w[c] = all[c]
        /\ IsView(all) => IsView(w)
    BY <2>2, WithoutFacts, Zenon
  <2> QED
    BY <2>1, <2>3 DEF own
<1>6. Shown(reg) \subseteq DOMAIN reg /\ \A c \in DOMAIN reg \ Shown(reg) : reg[c].seq = 0
  BY <1>1 DEF Shown, RegistrySound
<1>7. Coming(s) = <<>>
  BY DEF Coming, ToSet
<1>8. ASSUME NEW c \in Socket \ out PROVE LastOf(view, c) = Due(reg, s, c)
  <2> DEFINE n == Due(reg, s, c)
  <2>1. WillKnow(view, <<>>, s, c, n)
    BY <1>7 DEF ServerInv, ListsSound
  <2> HIDE DEF n, view
  <2> QED
    BY <2>1, AllRead DEF n
<1>9. \A c \in out : c \notin DOMAIN reg
  BY DEF ServerInv, OvertakenSound, Out
<1>10. ASSUME NEW c \in Socket PROVE LastOf(v, c) = LastOf(w, c)
  <2> HIDE DEF v, w, view, out, reg
  <2>1. CASE c \in out
    BY <1>3, <1>5, <1>6, <1>9, <2>1 DEF LastOf
  <2>2. CASE c \notin out
    BY <1>3, <1>5, <1>6, <1>8, <2>2 DEF LastOf, Due
  <2> QED
    BY <2>1, <2>2
<1> HIDE DEF v, w
<1>11. v = w
  BY <1>3, <1>5, <1>10, SameView
<1> QED
  BY <1>11 DEF v, w

(* Whoever has read everything sent to it has the presence list of its      *)
(* room, in any number of rooms with any number of connections that join,   *)
(* speak, fall silent and are cut off in any order (presence.ts,            *)
(* room.ts:230-257).  It may still know connections cut off right behind a  *)
(* presence, whose farewell overtook the delta (server.ts:469-483).         *)
THEOREM ListsAgree == Spec => []PresenceListsAgree
BY ListsComplete, ServerInvariance, PTL

(* The connections of a room have different colours (presence.ts:137-144).  *)
THEOREM ColorsStayDistinct == Spec => []ColorsAreDistinct
<1>1. ServerInv => ColorsAreDistinct
  BY DEF ServerInv, TablesInv
<1> QED
  BY <1>1, ServerInvariance, PTL
=============================================================================
