--------------------------- MODULE DocumentLemmas ---------------------------
(***************************************************************************)
(* What the operators do that the other modules are built from, whatever   *)
(* the rows, columns and operations: sequence operators keep or add        *)
(* elements, replaying a log goes on where a replay of its beginning ends, *)
(* every valid operation keeps a document well formed and never makes      *)
(* applyOperation throw, a snapshot read back is the document that was     *)
(* written, and a verdict means what it says.                              *)
(***************************************************************************)
EXTENDS Sequencer, SequenceTheorems, WellFoundedInduction, TLAPS

-----------------------------------------------------------------------------
(* Sequences.                                                               *)

(* A sequence is one over its own elements.                                 *)
LEMMA SeqSelf ==
  ASSUME NEW S, NEW s \in Seq(S)
  PROVE  s \in Seq(ToSet(s))
  BY SeqDef DEF ToSet

(* Append adds one element.                                                 *)
LEMMA AppendElements ==
  ASSUME NEW S, NEW s \in Seq(S), NEW x
  PROVE  /\ Append(s, x) \in Seq(ToSet(Append(s, x)))
         /\ ToSet(Append(s, x)) = ToSet(s) \cup {x}
<1>1. s \in Seq(S \cup {x})
  OBVIOUS
<1>2. Append(s, x) \in Seq(S \cup {x})
  BY <1>1
<1>3. Append(s, x) \in Seq(ToSet(Append(s, x)))
  BY <1>2, SeqSelf
<1>4. ToSet(Append(s, x)) = ToSet(s) \cup {x}
  <2>1. /\ DOMAIN Append(s, x) = 1..Len(s)+1
        /\ \A i \in 1..Len(s) : Append(s, x)[i] = s[i]
        /\ Append(s, x)[Len(s)+1] = x
    BY <1>1, AppendProperties
  <2>2. DOMAIN s = 1..Len(s) /\ Len(s) \in Nat
    OBVIOUS
  <2> QED
    BY <2>1, <2>2 DEF ToSet
<1> QED
  BY <1>3, <1>4

(* RemoveAt adds none.                                                      *)
LEMMA RemoveAtElements ==
  ASSUME NEW S, NEW s \in Seq(S), NEW i \in DOMAIN s
  PROVE  /\ RemoveAt(s, i) \in Seq(ToSet(RemoveAt(s, i)))
         /\ ToSet(RemoveAt(s, i)) \subseteq ToSet(s)
<1> DEFINE a == SubSeq(s, 1, i-1)
           b == SubSeq(s, i+1, Len(s))
<1>1. i \in 1..Len(s) /\ Len(s) \in Nat
  OBVIOUS
<1>2. s \in Seq(ToSet(s))
  BY SeqSelf
<1>3. a \in Seq(ToSet(s)) /\ b \in Seq(ToSet(s))
  BY <1>1, <1>2, SubSeqProperties DEF ToSet
<1>4. RemoveAt(s, i) \in Seq(ToSet(s))
  BY <1>3, ConcatProperties DEF RemoveAt
<1>5. RemoveAt(s, i) \in Seq(ToSet(RemoveAt(s, i)))
  BY <1>4, SeqSelf
<1>6. ToSet(RemoveAt(s, i)) \subseteq ToSet(s)
  BY <1>4 DEF ToSet
<1> QED
  BY <1>5, <1>6

(* Replacing an element adds at most the new one.                           *)
LEMMA ReplaceElements ==
  ASSUME NEW S, NEW s \in Seq(S), NEW i \in DOMAIN s, NEW x
  PROVE  /\ [s EXCEPT ![i] = x] \in Seq(ToSet([s EXCEPT ![i] = x]))
         /\ ToSet([s EXCEPT ![i] = x]) \subseteq ToSet(s) \cup {x}
<1>1. [s EXCEPT ![i] = x] \in Seq(S \cup {x})
  BY SeqDef
<1>2. [s EXCEPT ![i] = x] \in Seq(ToSet([s EXCEPT ![i] = x]))
  BY <1>1, SeqSelf
<1>3. ToSet([s EXCEPT ![i] = x]) \subseteq ToSet(s) \cup {x}
  BY DEF ToSet
<1> QED
  BY <1>2, <1>3

(* The least-number principle, for a set.                                   *)
LEMMA Smallest ==
  ASSUME NEW T, T \subseteq Nat, T # {}
  PROVE  \E t \in T : \A u \in T : t <= u
<1> DEFINE R == {ss \in Nat \X Nat : ss[1] < ss[2]}
<1>1. IsWellFoundedOn(R, Nat)
  BY NatLessThanWellFounded DEF OpToRel
<1>2. PICK t \in T : \A u \in T : ~ (<<u, t>> \in R)
  <2> HIDE DEF R
  <2> QED
    BY <1>1, WFMin
<1>3. \A u \in T : ~(u < t)
  BY <1>2
<1> QED
  BY <1>3

(* A nonempty set of numbers up to n has a largest one.                     *)
LEMMA LargestUpTo ==
  ASSUME NEW n \in Nat, NEW S, S \subseteq 0..n, S # {}
  PROVE  \E m \in S : \A k \in S : k <= m
<1> DEFINE T == {n - k : k \in S}
<1>1. T \subseteq Nat /\ T # {}
  <2>1. \A k \in S : n - k \in Nat
    OBVIOUS
  <2>2. PICK k \in S : TRUE
    OBVIOUS
  <2>3. n - k \in T
    OBVIOUS
  <2> QED
    BY <2>1, <2>3
<1>2. PICK t \in T : \A u \in T : t <= u
  <2> HIDE DEF T
  <2> QED
    BY <1>1, Smallest
<1>3. PICK m \in S : t = n - m
  BY <1>2
<1>4. \A k \in S : n - m <= n - k
  BY <1>2, <1>3
<1>5. \A k \in S : k <= m
  BY <1>4
<1> QED
  BY <1>5
(* A sequence is a prefix of itself and of what continues it.               *)
LEMMA PrefixOfConcat ==
  ASSUME NEW S, NEW s \in Seq(S), NEW t \in Seq(S)
  PROVE  IsPrefix(s, s) /\ IsPrefix(s, s \o t)
<1>1. IsPrefix(s, s)
  BY DEF IsPrefix
<1>2. Len(s \o t) = Len(s) + Len(t) /\ s \o t \in Seq(S) /\ Len(s) \in Nat /\ Len(t) \in Nat
  OBVIOUS
<1>3. SubSeq(s \o t, 1, Len(s)) = SubSeq(s, 1, Len(s))
  BY <1>2
<1> QED
  BY <1>1, <1>2, <1>3 DEF IsPrefix

-----------------------------------------------------------------------------
(* Replay.                                                                  *)

(* The documents a replay goes through.                                     *)
IsTrace(f, base, entries) ==
  f = [n \in 0..Len(entries) |->
         IF n = 0 THEN base
         ELSE ApplyOperation(f[n - 1], entries[n].operation, entries[n].rev)]

(* Field by field.                                                          *)
LEMMA TraceFacts ==
  ASSUME NEW S, NEW entries \in Seq(S), NEW base, NEW f, IsTrace(f, base, entries)
  PROVE  /\ f[0] = base
         /\ \A n \in 1..Len(entries) :
              f[n] = ApplyOperation(f[n-1], entries[n].operation, entries[n].rev)
<1> DEFINE g == [n \in 0..Len(entries) |->
         IF n = 0 THEN base
         ELSE ApplyOperation(f[n - 1], entries[n].operation, entries[n].rev)]
<1>1. f = g
  BY DEF IsTrace
<1>2. Len(entries) \in Nat
  OBVIOUS
<1>3. g[0] = base
  BY <1>2
<1>4. \A n \in 1..Len(entries) :
              g[n] = ApplyOperation(f[n-1], entries[n].operation, entries[n].rev)
  BY <1>2
<1> HIDE DEF g
<1> QED
  BY <1>1, <1>3, <1>4

(* Every replay of a log has one.  *)
LEMMA TraceExists ==
  ASSUME NEW S, NEW entries \in Seq(S), NEW base
  PROVE  \E f : IsTrace(f, base, entries)
<1> DEFINE step(d, n) == ApplyOperation(d, entries[n].operation, entries[n].rev)
           upTo(f, m) == f = [n \in 0..m |-> IF n = 0 THEN base ELSE step(f[n-1], n)]
           T == {m \in 0..Len(entries) : ~ \E f : upTo(f, m)}
<1>1. Len(entries) \in Nat
  OBVIOUS
<1>2. T = {}
  <2> SUFFICES ASSUME T # {} PROVE FALSE
    OBVIOUS
  <2>1. PICK m \in T : \A k \in T : m <= k
    <3>1. T \subseteq Nat
      BY <1>1
    <3> HIDE DEF T
    <3> QED
      BY <3>1, Smallest
  <2>2. m \in 0..Len(entries) /\ ~ \E f : upTo(f, m)
    OBVIOUS
  <2> HIDE DEF step
  <2>3. CASE m = 0
    <3>1. upTo([n \in 0..0 |-> base], 0)
      OBVIOUS
    <3> QED
      BY <2>2, <2>3, <3>1
  <2>4. CASE m > 0
    <3>1. m - 1 \in 0..Len(entries) /\ m - 1 \notin T
      BY <1>1, <2>1, <2>2, <2>4
    <3>2. PICK f : upTo(f, m - 1)
      BY <3>1
    <3> DEFINE g == [n \in 0..m |-> IF n = 0 THEN base ELSE step(f[n-1], n)]
    <3>3. ASSUME NEW n \in 0..m-1 PROVE g[n] = f[n]
      <4>1. f[n] = [i \in 0..m-1 |-> IF i = 0 THEN base ELSE step(f[i-1], i)][n]
        BY <3>2
      <4> QED
        BY <2>2, <4>1
    <3>4. \A n \in 1..m : g[n-1] = f[n-1]
      <4>1. \A n \in 1..m : n-1 \in 0..m-1
        BY <2>2
      <4> HIDE DEF g
      <4> QED
        BY <3>3, <4>1
    <3>5. [n \in 0..m |-> IF n = 0 THEN base ELSE step(f[n-1], n)]
          = [n \in 0..m |-> IF n = 0 THEN base ELSE step(g[n-1], n)]
      <4> HIDE DEF g
      <4>1. ASSUME NEW n \in 0..m
            PROVE  (IF n = 0 THEN base ELSE step(f[n-1], n))
                   = (IF n = 0 THEN base ELSE step(g[n-1], n))
        <5>1. n = 0 \/ n \in 1..m
          BY <2>2
        <5> QED
          BY <3>4, <5>1, Zenon
      <4> QED
        BY <4>1, Zenon
    <3>6. upTo(g, m)
      BY <3>5
    <3> QED
      BY <2>2, <3>6
  <2> QED
    BY <1>1, <2>2, <2>3, <2>4
<1>3. \E f : upTo(f, Len(entries))
  BY <1>1, <1>2
<1> QED
  BY <1>3 DEF IsTrace

(* There is only one.                                                       *)
LEMMA TracesAgree ==
  ASSUME NEW S, NEW entries \in Seq(S), NEW longer \in Seq(S), NEW base, NEW f, NEW g,
         IsTrace(f, base, entries), IsTrace(g, base, longer),
         Len(entries) <= Len(longer),
         \A i \in 1..Len(entries) : longer[i] = entries[i]
  PROVE  \A n \in 0..Len(entries) : f[n] = g[n]
<1> DEFINE T == {n \in 0..Len(entries) : f[n] # g[n]}
<1>1. Len(entries) \in Nat /\ Len(longer) \in Nat
  OBVIOUS
<1> SUFFICES ASSUME T # {} PROVE FALSE
  OBVIOUS
<1>2. PICK m \in T : \A k \in T : m <= k
  <2>1. T \subseteq Nat
    BY <1>1
  <2> HIDE DEF T
  <2> QED
    BY <2>1, Smallest
<1>3. m \in 0..Len(entries) /\ f[m] # g[m]
  OBVIOUS
<1>4. f[0] = g[0] /\ m # 0
  BY <1>3, TraceFacts
<1>5. m - 1 \in 0..Len(entries) /\ m \in 1..Len(entries) /\ m \in 1..Len(longer) /\ ~(m <= m - 1)
  BY <1>1, <1>3, <1>4
<1>6. f[m-1] = g[m-1]
  BY <1>2, <1>5
<1>7. /\ f[m] = ApplyOperation(f[m-1], entries[m].operation, entries[m].rev)
      /\ g[m] = ApplyOperation(g[m-1], longer[m].operation, longer[m].rev)
  BY <1>5, TraceFacts
<1> QED
  BY <1>3, <1>5, <1>6, <1>7

(* A replay is the end of any trace. *)
LEMMA ReplayIsTrace ==
  ASSUME NEW S, NEW entries \in Seq(S), NEW base, NEW f, IsTrace(f, base, entries)
  PROVE  Replay(base, entries) = f[Len(entries)]
<1> DEFINE c == CHOOSE g : IsTrace(g, base, entries)
<1>1. IsTrace(c, base, entries)
  OBVIOUS
<1>2. Replay(base, entries) = c[Len(entries)]
  BY DEF Replay, IsTrace
<1> HIDE DEF c
<1>3. c[Len(entries)] = f[Len(entries)]
  BY <1>1, TracesAgree
<1> QED
  BY <1>2, <1>3

(* Nothing replayed.                                                        *)
LEMMA ReplayEmpty ==
  ASSUME NEW base
  PROVE  Replay(base, <<>>) = base
<1>1. <<>> \in Seq({})
  OBVIOUS
<1>2. PICK f : IsTrace(f, base, <<>>)
  BY <1>1, TraceExists
<1>3. f[0] = base /\ Replay(base, <<>>) = f[Len(<<>>)]
  BY <1>1, <1>2, TraceFacts, ReplayIsTrace
<1> QED
  BY <1>3

(* A trace, cut, is one of the log cut there.                               *)
LEMMA TracePrefix ==
  ASSUME NEW S, NEW entries \in Seq(S), NEW base, NEW f, IsTrace(f, base, entries),
         NEW n \in 0..Len(entries)
  PROVE  Replay(base, SubSeq(entries, 1, n)) = f[n]
<1> DEFINE head == SubSeq(entries, 1, n)
<1>1. head \in Seq(S) /\ Len(head) = n /\ \A i \in 1..n : entries[i] = head[i]
  BY SubSeqProperties
<1>2. PICK g : IsTrace(g, base, head)
  BY <1>1, TraceExists
<1>3. Replay(base, head) = g[n]
  BY <1>1, <1>2, ReplayIsTrace
<1> HIDE DEF head
<1>4. \A i \in 0..n : g[i] = f[i]
  BY <1>1, <1>2, TracesAgree
<1> QED
  BY <1>3, <1>4 DEF head

(* The replay of a log up to an entry applies it to the replay up to the    *)
(* one before.                                                              *)
LEMMA ReplayStep ==
  ASSUME NEW S, NEW entries \in Seq(S), NEW base, NEW n \in 1..Len(entries)
  PROVE  Replay(base, SubSeq(entries, 1, n)) =
           ApplyOperation(Replay(base, SubSeq(entries, 1, n - 1)),
                          entries[n].operation, entries[n].rev)
<1>1. PICK f : IsTrace(f, base, entries)
  BY TraceExists
<1>2. n \in 0..Len(entries) /\ n - 1 \in 0..Len(entries)
  OBVIOUS
<1>3. /\ Replay(base, SubSeq(entries, 1, n)) = f[n]
      /\ Replay(base, SubSeq(entries, 1, n - 1)) = f[n - 1]
  BY <1>1, <1>2, TracePrefix
<1> QED
  BY <1>1, <1>3, TraceFacts

(* A replay may stop anywhere and go on from the document reached.          *)
LEMMA ReplayContinues ==
  ASSUME NEW S, NEW entries \in Seq(S), NEW base, NEW k \in 0..Len(entries)
  PROVE  Replay(Replay(base, SubSeq(entries, 1, k)), SubSeq(entries, k + 1, Len(entries)))
           = Replay(base, entries)
<1> DEFINE tail == SubSeq(entries, k + 1, Len(entries))
           m == Len(entries) - k
<1>1. PICK f : IsTrace(f, base, entries)
  BY TraceExists
<1>2. Replay(base, entries) = f[Len(entries)] /\ Replay(base, SubSeq(entries, 1, k)) = f[k]
  BY <1>1, ReplayIsTrace, TracePrefix
<1>3. /\ tail \in Seq(S) /\ Len(tail) = m /\ m \in Nat
      /\ \A n \in 1..m : tail[n] = entries[k + n]
  <2>1. Len(entries) \in Nat /\ k \in Nat /\ k <= Len(entries)
    OBVIOUS
  <2>2. k + 1 \in 1..Len(entries)+1
    BY <2>1
  <2>3. tail \in Seq(S) /\ Len(tail) = m
    BY <2>1, <2>2, SubSeqProperties
  <2> QED
    BY <2>1, <2>3
<1> DEFINE g == [n \in 0..m |-> f[k + n]]
<1>4. \A n \in 1..m :
        g[n] = ApplyOperation(g[n - 1], tail[n].operation, tail[n].rev)
  <2> SUFFICES ASSUME NEW n \in 1..m
               PROVE  g[n] = ApplyOperation(g[n - 1], tail[n].operation, tail[n].rev)
    OBVIOUS
  <2>1. k + n \in 1..Len(entries) /\ k + (n - 1) = k + n - 1
    BY <1>3
  <2>2. f[k + n] = ApplyOperation(f[k + n - 1], entries[k + n].operation, entries[k + n].rev)
    BY <1>1, <2>1, TraceFacts
  <2>3. g[n] = f[k + n] /\ g[n - 1] = f[k + n - 1] /\ tail[n] = entries[k + n]
    BY <1>3, <2>1
  <2> HIDE DEF g, tail
  <2> QED
    BY <2>2, <2>3
<1>5. g[0] = f[k]
  BY <1>3
<1>6. IsTrace(g, f[k], tail)
  <2> DEFINE h == [n \in 0..Len(tail) |->
                     IF n = 0 THEN f[k]
                     ELSE ApplyOperation(g[n - 1], tail[n].operation, tail[n].rev)]
  <2>1. DOMAIN g = DOMAIN h
    BY <1>3
  <2>2. \A n \in 0..m : g[n] = h[n]
    <3> SUFFICES ASSUME NEW n \in 0..m PROVE g[n] = h[n]
      OBVIOUS
    <3> HIDE DEF g
    <3>1. n # 0 => n \in 1..m
      BY <1>3
    <3> QED
      BY <1>3, <1>4, <1>5, <3>1
  <2>3. g = [n \in 0..m |-> g[n]] /\ h = [n \in 0..m |-> h[n]]
    BY <1>3
  <2> HIDE DEF g, h
  <2>4. g = h
    BY <2>2, <2>3
  <2> QED
    BY <2>4 DEF IsTrace, h
<1>7. Replay(f[k], tail) = g[m]
  BY <1>3, <1>6, ReplayIsTrace
<1>8. g[m] = f[Len(entries)]
  BY <1>3
<1> QED
  BY <1>2, <1>7, <1>8

-----------------------------------------------------------------------------
(* Filters.                                                                 *)

(* The sequences a filter goes through.                                     *)
FilterStep(seq, places, before, n) ==
  IF n \in places THEN Append(before, seq[n]) ELSE before

IsFilter(f, seq, places) ==
  f = [n \in 0..Len(seq) |-> IF n = 0 THEN <<>> ELSE FilterStep(seq, places, f[n - 1], n)]

(* Every filter has one.                                                    *)
LEMMA FilterExists ==
  ASSUME NEW S, NEW seq \in Seq(S), NEW places
  PROVE  \E f : IsFilter(f, seq, places)
<1> DEFINE step(d, n) == FilterStep(seq, places, d, n)
           upTo(f, m) == f = [n \in 0..m |-> IF n = 0 THEN <<>> ELSE step(f[n-1], n)]
           T == {m \in 0..Len(seq) : ~ \E f : upTo(f, m)}
<1>1. Len(seq) \in Nat
  OBVIOUS
<1>2. T = {}
  <2> SUFFICES ASSUME T # {} PROVE FALSE
    OBVIOUS
  <2>1. PICK m \in T : \A k \in T : m <= k
    <3>1. T \subseteq Nat
      BY <1>1
    <3> HIDE DEF T
    <3> QED
      BY <3>1, Smallest
  <2>2. m \in 0..Len(seq) /\ ~ \E f : upTo(f, m)
    OBVIOUS
  <2> HIDE DEF step
  <2>3. CASE m = 0
    <3>1. upTo([n \in 0..0 |-> <<>>], 0)
      OBVIOUS
    <3> QED
      BY <2>2, <2>3, <3>1
  <2>4. CASE m > 0
    <3>1. m - 1 \in 0..Len(seq) /\ m - 1 \notin T
      <4>1. m - 1 \in 0..Len(seq) /\ ~ m <= m - 1
        BY <1>1, <2>2, <2>4
      <4> HIDE DEF T
      <4> QED
        BY <2>1, <4>1
    <3>2. PICK f : upTo(f, m - 1)
      BY <3>1
    <3> DEFINE g == [n \in 0..m |-> IF n = 0 THEN <<>> ELSE step(f[n-1], n)]
    <3>3. ASSUME NEW n \in 0..m-1 PROVE g[n] = f[n]
      <4>1. f[n] = [i \in 0..m-1 |-> IF i = 0 THEN <<>> ELSE step(f[i-1], i)][n]
        BY <3>2
      <4> QED
        BY <2>2, <4>1
    <3>4. \A n \in 1..m : g[n-1] = f[n-1]
      <4>1. \A n \in 1..m : n-1 \in 0..m-1
        BY <2>2
      <4> HIDE DEF g
      <4> QED
        BY <3>3, <4>1
    <3>5. [n \in 0..m |-> IF n = 0 THEN <<>> ELSE step(f[n-1], n)]
          = [n \in 0..m |-> IF n = 0 THEN <<>> ELSE step(g[n-1], n)]
      <4> HIDE DEF g
      <4>1. ASSUME NEW n \in 0..m
            PROVE  (IF n = 0 THEN <<>> ELSE step(f[n-1], n))
                   = (IF n = 0 THEN <<>> ELSE step(g[n-1], n))
        <5>1. n = 0 \/ n \in 1..m
          BY <2>2
        <5> QED
          BY <3>4, <5>1, Zenon
      <4> QED
        BY <4>1, Zenon
    <3>6. upTo(g, m)
      BY <3>5
    <3> QED
      BY <2>2, <3>6
  <2> QED
    BY <1>1, <2>2, <2>3, <2>4
<1>3. \E f : upTo(f, Len(seq))
  BY <1>1, <1>2
<1> QED
  BY <1>3 DEF IsFilter

(* One step after the other.                                                *)
LEMMA FilterTrace ==
  ASSUME NEW S, NEW seq \in Seq(S), NEW places
  PROVE  \E f : /\ Filtered(seq, places) = f[Len(seq)]
               /\ f[0] = <<>>
               /\ \A n \in 1..Len(seq) : f[n] = FilterStep(seq, places, f[n - 1], n)
<1> DEFINE c == CHOOSE f : IsFilter(f, seq, places)
           h == [n \in 0..Len(seq) |-> IF n = 0 THEN <<>> ELSE FilterStep(seq, places, c[n - 1], n)]
<1>1. IsFilter(c, seq, places)
  BY FilterExists
<1>2. Filtered(seq, places) = c[Len(seq)]
  BY DEF Filtered, IsFilter, FilterStep
<1> HIDE DEF c
<1>3. c = h
  BY <1>1 DEF IsFilter
<1>4. Len(seq) \in Nat
  OBVIOUS
<1>5. h[0] = <<>> /\ \A n \in 1..Len(seq) : h[n] = FilterStep(seq, places, c[n - 1], n)
  BY <1>4
<1> HIDE DEF h
<1>6. c[0] = <<>> /\ \A n \in 1..Len(seq) : c[n] = FilterStep(seq, places, c[n - 1], n)
  BY <1>3, <1>5
<1> QED
  BY <1>2, <1>6

(* A filter keeps elements and adds none.                                   *)
LEMMA FilterElements ==
  ASSUME NEW S, NEW seq \in Seq(S), NEW places
  PROVE  /\ Filtered(seq, places) \in Seq(S)
         /\ Filtered(seq, places) \in Seq(ToSet(Filtered(seq, places)))
         /\ \A x \in ToSet(Filtered(seq, places)) :
              \E i \in DOMAIN seq : i \in places /\ seq[i] = x
<1> DEFINE at == {i \in DOMAIN seq : i \in places}
           chosen == {seq[i] : i \in at}
<1>1. PICK f : /\ Filtered(seq, places) = f[Len(seq)]
               /\ f[0] = <<>>
               /\ \A n \in 1..Len(seq) : f[n] = FilterStep(seq, places, f[n - 1], n)
  BY FilterTrace
<1>2. Len(seq) \in Nat /\ DOMAIN seq = 1..Len(seq)
  OBVIOUS
<1>3. \A n \in 0..Len(seq) : f[n] \in Seq(chosen)
  <2> DEFINE T == {n \in 0..Len(seq) : f[n] \notin Seq(chosen)}
  <2> SUFFICES ASSUME T # {} PROVE FALSE
    OBVIOUS
  <2>1. PICK n \in T : \A u \in T : n <= u
    <3>1. T \subseteq Nat
      BY <1>2
    <3> HIDE DEF T
    <3> QED
      BY <3>1, Smallest
  <2>2. n # 0
    <3>1. f[0] \in Seq(chosen)
      BY <1>1
    <3> QED
      BY <2>1, <3>1
  <2>3. n \in 1..Len(seq) /\ n - 1 \in 0..Len(seq) /\ n - 1 \notin T
    BY <1>2, <2>1, <2>2
  <2>4. f[n - 1] \in Seq(chosen)
    BY <2>3
  <2>5. n \in places => seq[n] \in chosen
    BY <1>2, <2>3
  <2> HIDE DEF chosen
  <2>6. f[n] = FilterStep(seq, places, f[n - 1], n)
    BY <1>1, <2>3
  <2>7. f[n] \in Seq(chosen)
    <3>1. CASE n \in places
      <4> DEFINE before == f[n - 1]
      <4>1. f[n] = Append(before, seq[n])
        BY <2>6, <3>1 DEF FilterStep
      <4>2. before \in Seq(chosen) /\ seq[n] \in chosen
        BY <2>4, <2>5, <3>1
      <4> HIDE DEF before
      <4> QED
        BY <4>1, <4>2
    <3>2. CASE n \notin places
      BY <2>4, <2>6, <3>2 DEF FilterStep
    <3> QED
      BY <3>1, <3>2
  <2> QED
    BY <2>1, <2>7
<1>4. Filtered(seq, places) \in Seq(chosen)
  BY <1>1, <1>2, <1>3
<1>5. \A x \in ToSet(Filtered(seq, places)) : x \in chosen
  <2> HIDE DEF chosen
  <2> QED
    BY <1>4 DEF ToSet
<1>6. chosen \subseteq S
  BY <1>2
<1>7. Filtered(seq, places) \in Seq(S)
  <2> HIDE DEF chosen
  <2> QED
    BY <1>4, <1>6
<1>8. Filtered(seq, places) \in Seq(ToSet(Filtered(seq, places)))
  BY <1>7, SeqSelf
<1> QED
  BY <1>5, <1>7, <1>8

-----------------------------------------------------------------------------
(* Well-formed documents stay well formed.                                  *)

(* Two documents with the same fields are the same.                         *)
LEMMA SameDocument ==
  ASSUME NEW doc, IsDocument(doc), NEW other, IsDocument(other),
         doc.revision = other.revision, doc.rowOrder = other.rowOrder,
         doc.row = other.row, doc.cell = other.cell, doc.maxSlot = other.maxSlot
  PROVE  doc = other
  BY Zenon DEF IsDocument

(* The fields of a document written out.                                    *)
LEMMA DocumentFields ==
  ASSUME NEW a, NEW b, NEW c, NEW d, NEW e
  PROVE  LET n == [revision |-> a, rowOrder |-> b, row |-> c, cell |-> d, maxSlot |-> e]
         IN  /\ IsDocument(n) /\ n.revision = a /\ n.rowOrder = b /\ n.row = c
             /\ n.cell = d /\ n.maxSlot = e
  BY Zenon DEF IsDocument

(* The change that decides what a list of changes leaves in a cell.         *)
LastChange(doc, changes, k) ==
  CHOOSE i \in DOMAIN changes :
    /\ CellKey(doc, changes[i].row, changes[i].col) = k
    /\ \A j \in DOMAIN changes : CellKey(doc, changes[j].row, changes[j].col) = k => j <= i

(* The fields of a changed document.                                        *)
LEMMA SetCellsFields ==
  ASSUME NEW doc, IsDocument(doc), NEW changes, NEW revision
  PROVE  LET next == ApplySetCells(doc, changes, revision)
             written == {CellKey(doc, changes[i].row, changes[i].col) : i \in DOMAIN changes}
         IN  /\ IsDocument(next)
             /\ next.revision = revision
             /\ next.rowOrder = doc.rowOrder
             /\ next.row = doc.row
             /\ next.maxSlot = doc.maxSlot
             /\ DOMAIN next.cell = DOMAIN doc.cell \cup written
             /\ next.cell = [k \in DOMAIN next.cell |-> next.cell[k]]
             /\ \A k \in written : next.cell[k] =
                  [value |-> changes[LastChange(doc, changes, k)].value, rev |-> revision]
             /\ \A k \in DOMAIN doc.cell \ written : next.cell[k] = doc.cell[k]
<1> DEFINE keyOf(i) == CellKey(doc, changes[i].row, changes[i].col)
           written  == {keyOf(i) : i \in DOMAIN changes}
           last(k)  == CHOOSE i \in DOMAIN changes :
                         /\ keyOf(i) = k
                         /\ \A j \in DOMAIN changes : keyOf(j) = k => j <= i
           cell == [k \in DOMAIN doc.cell \cup written |->
                      IF k \in written
                      THEN [value |-> changes[last(k)].value, rev |-> revision]
                      ELSE doc.cell[k]]
           next == ApplySetCells(doc, changes, revision)
<1>1. next = [doc EXCEPT !.revision = revision, !.cell = cell]
  BY Zenon DEF ApplySetCells
<1>2. /\ DOMAIN cell = DOMAIN doc.cell \cup written /\ cell = [k \in DOMAIN cell |-> cell[k]]
      /\ \A k \in written : cell[k] =
           [value |-> changes[LastChange(doc, changes, k)].value, rev |-> revision]
      /\ \A k \in DOMAIN doc.cell \ written : cell[k] = doc.cell[k]
  BY DEF LastChange
<1> HIDE DEF cell, next
<1>3. /\ IsDocument(next) /\ next.revision = revision /\ next.rowOrder = doc.rowOrder
      /\ next.row = doc.row /\ next.cell = cell /\ next.maxSlot = doc.maxSlot
  BY <1>1, Zenon DEF IsDocument
<1> QED
  BY <1>2, <1>3 DEF next

(* Deleting rows changes nothing but their metadata, and no slot there.     *)
LEMMA DeleteRowsFields ==
  ASSUME NEW doc, IsDocument(doc), doc.row \in [DOMAIN doc.row -> RowMeta],
         NEW rows, NEW revision \in Nat
  PROVE  LET next == ApplyDeleteRows(doc, rows, revision)
         IN  /\ IsDocument(next)
             /\ next.revision = revision
             /\ next.rowOrder = doc.rowOrder
             /\ next.row \in [DOMAIN doc.row -> RowMeta]
             /\ \A r \in DOMAIN doc.row : next.row[r].slot = doc.row[r].slot
             /\ next.maxSlot = doc.maxSlot
             /\ next.cell = doc.cell
<1> DEFINE row == [r \in DOMAIN doc.row |->
                     IF r \in ToSet(rows) /\ ~doc.row[r].tombstone
                     THEN [doc.row[r] EXCEPT !.tombstone = TRUE, !.rev = revision]
                     ELSE doc.row[r]]
           next == ApplyDeleteRows(doc, rows, revision)
<1>1. next = [doc EXCEPT !.revision = revision, !.row = row]
  BY DEF ApplyDeleteRows
<1>2. \A r \in DOMAIN doc.row : row[r] \in RowMeta /\ row[r].slot = doc.row[r].slot
  <2> SUFFICES ASSUME NEW r \in DOMAIN doc.row
               PROVE  row[r] \in RowMeta /\ row[r].slot = doc.row[r].slot
    OBVIOUS
  <2> DEFINE old == doc.row[r]
  <2>1. old \in RowMeta
    OBVIOUS
  <2> HIDE DEF old
  <2>2. row[r] = old \/ row[r] = [old EXCEPT !.tombstone = TRUE, !.rev = revision]
    BY DEF old
  <2>3. /\ [old EXCEPT !.tombstone = TRUE, !.rev = revision] \in RowMeta
        /\ [old EXCEPT !.tombstone = TRUE, !.rev = revision].slot = old.slot
    BY <2>1 DEF RowMeta
  <2> HIDE DEF row
  <2> QED
    BY <2>1, <2>2, <2>3 DEF old
<1>3. row \in [DOMAIN doc.row -> RowMeta]
  BY <1>2
<1> HIDE DEF row, next
<1>4. /\ IsDocument(next) /\ next.revision = revision /\ next.rowOrder = doc.rowOrder
      /\ next.row = row /\ next.cell = doc.cell /\ next.maxSlot = doc.maxSlot
  BY <1>1, Zenon DEF IsDocument
<1> QED
  BY <1>2, <1>3, <1>4 DEF next

(* Where insertRows splices, and the place of a row in a list.              *)
InsertionPoint(doc, after) == CHOOSE i \in AnchorIndexes(doc, after) : TRUE
IndexIn(rows, r) == CHOOSE i \in DOMAIN rows : rows[i] = r

(* Inserting rows adds to order and metadata.                               *)
LEMMA InsertRowsFields ==
  ASSUME NEW doc, IsDocument(doc), NEW after, NEW rows, NEW revision
  PROVE  LET next == ApplyInsertRows(doc, after, rows, revision)
         IN  /\ IsDocument(next)
             /\ next.revision = revision
             /\ next.rowOrder = Spliced(doc.rowOrder, InsertionPoint(doc, after), rows)
             /\ DOMAIN next.row = DOMAIN doc.row \cup ToSet(rows)
             /\ next.row = [r \in DOMAIN next.row |-> next.row[r]]
             /\ \A r \in ToSet(rows) : next.row[r] =
                  [slot |-> doc.maxSlot + IndexIn(rows, r), tombstone |-> FALSE, rev |-> revision]
             /\ \A r \in DOMAIN doc.row \ ToSet(rows) : next.row[r] = doc.row[r]
             /\ next.maxSlot = doc.maxSlot + Len(rows)
             /\ next.cell = doc.cell
<1> DEFINE at == CHOOSE i \in AnchorIndexes(doc, after) : TRUE
           order == Spliced(doc.rowOrder, at, rows)
           row == [r \in DOMAIN doc.row \cup ToSet(rows) |->
                   IF r \in ToSet(rows)
                   THEN [slot |-> doc.maxSlot + (CHOOSE i \in DOMAIN rows : rows[i] = r),
                         tombstone |-> FALSE, rev |-> revision]
                   ELSE doc.row[r]]
           slot == doc.maxSlot + Len(rows)
           next == ApplyInsertRows(doc, after, rows, revision)
<1>1. next = [doc EXCEPT !.revision = revision, !.rowOrder = order, !.row = row, !.maxSlot = slot]
  BY DEF ApplyInsertRows
<1>2. /\ DOMAIN row = DOMAIN doc.row \cup ToSet(rows)
      /\ row = [r \in DOMAIN row |-> row[r]]
      /\ \A r \in ToSet(rows) : row[r] =
                  [slot |-> doc.maxSlot + IndexIn(rows, r), tombstone |-> FALSE, rev |-> revision]
      /\ \A r \in DOMAIN doc.row \ ToSet(rows) : row[r] = doc.row[r]
  BY DEF IndexIn
<1>3. order = Spliced(doc.rowOrder, InsertionPoint(doc, after), rows)
  BY DEF InsertionPoint
<1> HIDE DEF order, row, slot, next
<1>4. /\ IsDocument(next) /\ next.revision = revision /\ next.rowOrder = order
      /\ next.row = row /\ next.cell = doc.cell /\ next.maxSlot = slot
  BY <1>1, Zenon DEF IsDocument
<1> QED
  BY <1>2, <1>3, <1>4 DEF next, slot

(* Writing cells of known rows and columns.                                 *)
LEMMA SetCellsWellFormed ==
  ASSUME NEW doc, WellFormed(doc), NEW op, op.type = "setCells", Violations(doc, op) = {},
         NEW revision \in Nat, doc.revision <= revision
  PROVE  /\ WellFormed(ApplySetCells(doc, op.changes, revision))
         /\ ApplySetCells(doc, op.changes, revision).revision = revision
<1> DEFINE changes == op.changes
           next == ApplySetCells(doc, changes, revision)
<1>1. \A i \in DOMAIN changes : changes[i].row \in DOMAIN doc.row /\ changes[i].col \in Column
  <2> SUFFICES ASSUME NEW i \in DOMAIN changes
               PROVE  changes[i].row \in DOMAIN doc.row /\ changes[i].col \in Column
    OBVIOUS
  <2>1. SetCellsViolations(doc, changes) = {}
    BY DEF Violations
  <2>2. ChangeViolation(doc, changes[i]) = {}
    BY <2>1 DEF SetCellsViolations
  <2> QED
    BY <2>2 DEF ChangeViolation, Known
<1>2. IsDocument(doc)
  BY DEF WellFormed
<1> HIDE DEF changes
<1> DEFINE written == {CellKey(doc, changes[i].row, changes[i].col) : i \in DOMAIN changes}
<1>3. /\ IsDocument(next)
      /\ next.revision = revision
      /\ next.rowOrder = doc.rowOrder
      /\ next.row = doc.row
      /\ next.maxSlot = doc.maxSlot
      /\ DOMAIN next.cell = DOMAIN doc.cell \cup written
      /\ next.cell = [k \in DOMAIN next.cell |-> next.cell[k]]
      /\ \A k \in written : next.cell[k] =
           [value |-> changes[LastChange(doc, changes, k)].value, rev |-> revision]
      /\ \A k \in DOMAIN doc.cell \ written : next.cell[k] = doc.cell[k]
  BY <1>2, SetCellsFields
<1> HIDE DEF next
<1>4. OrderSound(next) /\ SlotsSound(next)
  BY <1>3 DEF WellFormed, OrderSound, SlotsSound
<1>5. CellsSound(next)
  <2>1. \A k \in DOMAIN doc.cell : \E r \in DOMAIN doc.row, c \in Column : k = CellKey(doc, r, c)
    BY DEF WellFormed, CellsSound
  <2>2. \A r, c : CellKey(next, r, c) = CellKey(doc, r, c)
    BY <1>3 DEF CellKey
  <2>3. \A k \in DOMAIN next.cell : next.cell[k].rev \in 0..next.revision
    <3>1. doc.revision \in Nat /\ \A k \in DOMAIN doc.cell : doc.cell[k].rev \in 0..doc.revision
      BY DEF WellFormed, CellsSound
    <3> SUFFICES ASSUME NEW k \in DOMAIN next.cell PROVE next.cell[k].rev \in 0..revision
      BY <1>3
    <3>2. CASE k \in written
      <4> DEFINE v == changes[LastChange(doc, changes, k)].value
      <4>1. next.cell[k] = [value |-> v, rev |-> revision]
        BY <1>3, <3>2
      <4> HIDE DEF v, written
      <4>2. next.cell[k].rev = revision
        BY <4>1
      <4> QED
        BY <3>1, <4>2
    <3>3. CASE k \in DOMAIN doc.cell \ written
      <4>1. next.cell[k] = doc.cell[k]
        BY <1>3, <3>3
      <4> QED
        BY <3>1, <3>3, <4>1
    <3> QED
      BY <1>3, <3>2, <3>3
  <2> QED
    BY <1>1, <1>3, <2>1, <2>2, <2>3 DEF CellsSound
<1> QED
  BY <1>3, <1>4, <1>5 DEF WellFormed, next, changes

(* Deleting rows leaves order, slots and cells alone.                       *)
LEMMA DeleteRowsWellFormed ==
  ASSUME NEW doc, WellFormed(doc), NEW rows, NEW revision \in Nat, doc.revision <= revision
  PROVE  /\ WellFormed(ApplyDeleteRows(doc, rows, revision))
         /\ ApplyDeleteRows(doc, rows, revision).revision = revision
<1> DEFINE next == ApplyDeleteRows(doc, rows, revision)
<1>1. IsDocument(doc) /\ doc.row \in [DOMAIN doc.row -> RowMeta]
  BY DEF WellFormed, SlotsSound
<1>2. /\ IsDocument(next)
      /\ next.revision = revision
      /\ next.rowOrder = doc.rowOrder
      /\ next.row \in [DOMAIN doc.row -> RowMeta]
      /\ \A r \in DOMAIN doc.row : next.row[r].slot = doc.row[r].slot
      /\ next.maxSlot = doc.maxSlot
      /\ next.cell = doc.cell
  BY <1>1, DeleteRowsFields
<1> HIDE DEF next
<1>3. DOMAIN next.row = DOMAIN doc.row
  BY <1>2
<1>4. OrderSound(next)
  BY <1>2, <1>3 DEF WellFormed, OrderSound
<1>5. SlotsSound(next)
  <2>1. /\ \A r, q \in DOMAIN doc.row : r # q => doc.row[r].slot # doc.row[q].slot
        /\ doc.maxSlot \in {-1} \cup {doc.row[r].slot : r \in DOMAIN doc.row}
        /\ \A r \in DOMAIN doc.row : doc.row[r].slot <= doc.maxSlot
    BY DEF WellFormed, SlotsSound
  <2> QED
    BY <1>2, <1>3, <2>1 DEF SlotsSound
<1>6. CellsSound(next)
  <2>1. \A r \in DOMAIN doc.row, c \in Column : CellKey(next, r, c) = CellKey(doc, r, c)
    BY <1>2 DEF CellKey
  <2>2. CellsSound(doc) /\ doc.revision \in Nat
    BY DEF WellFormed
  <2>3. \A k \in DOMAIN next.cell : next.cell[k].rev \in 0..next.revision
    BY <1>2, <2>2 DEF CellsSound
  <2> QED
    BY <1>2, <1>3, <2>1, <2>2, <2>3 DEF CellsSound
<1> QED
  BY <1>2, <1>4, <1>5, <1>6 DEF WellFormed, next

(* u is t put into s behind its first n elements.                           *)
IsSplice(u, s, n, t) ==
  /\ DOMAIN u = 1..Len(s) + Len(t)
  /\ \A i \in 1..n : u[i] = s[i]
  /\ \A i \in 1..Len(t) : u[n + i] = t[i]
  /\ \A i \in n+1..Len(s) : u[Len(t) + i] = s[i]

(* A sequence put into another.                                             *)
LEMMA SplicedFacts ==
  ASSUME NEW S, NEW s \in Seq(S), NEW t \in Seq(S), NEW at \in 0..Len(s),
         NEW u, u = Spliced(s, at, t)
  PROVE  u \in Seq(S) /\ IsSplice(u, s, at, t)
<1> DEFINE a == SubSeq(s, 1, at)
           b == SubSeq(s, at + 1, Len(s))
<1>0. u = a \o t \o b
  BY DEF Spliced
<1>1. Len(s) \in Nat /\ Len(t) \in Nat /\ at \in Nat /\ at <= Len(s)
  OBVIOUS
<1>2. a \in Seq(S) /\ Len(a) = at /\ \A i \in 1..at : a[i] = s[i]
  BY <1>1, SubSeqProperties
<1>3. /\ b \in Seq(S) /\ Len(b) = Len(s) - at
      /\ \A i \in 1..Len(s) - at : b[i] = s[at + i]
  <2>1. at + 1 \in 1..Len(s)+1
    BY <1>1
  <2>2. b \in Seq(S) /\ Len(b) = Len(s) - at
    BY <1>1, <2>1, SubSeqProperties
  <2> QED
    BY <1>1, <2>2, SMTT(30)
<1> HIDE DEF a, b
<1>4. a \o t \in Seq(S) /\ Len(a \o t) = at + Len(t)
  BY <1>2
<1>5. u \in Seq(S) /\ Len(u) = Len(s) + Len(t)
  <2>1. u \in Seq(S) /\ Len(u) = Len(a \o t) + Len(b)
    BY <1>0, <1>3, <1>4, ConcatProperties
  <2> QED
    BY <1>1, <1>3, <1>4, <2>1
<1>6. DOMAIN u = 1..Len(s) + Len(t)
  BY <1>5
<1>7. \A i \in 1..at : u[i] = s[i]
  BY <1>0, <1>1, <1>2, <1>3, <1>4
<1>8. \A i \in 1..Len(t) : u[at + i] = t[i]
  BY <1>0, <1>1, <1>2, <1>3, <1>4
<1>9. \A i \in at+1..Len(s) : u[Len(t) + i] = s[i]
  <2> SUFFICES ASSUME NEW i \in at+1..Len(s) PROVE u[Len(t) + i] = s[i]
    OBVIOUS
  <2>1. i - at \in 1..Len(s) - at /\ Len(t) + i = (at + Len(t)) + (i - at) /\ at + (i - at) = i
    BY <1>1
  <2>2. u[(at + Len(t)) + (i - at)] = b[i - at]
    BY <1>0, <1>1, <1>3, <1>4, <2>1
  <2> QED
    BY <1>3, <2>1, <2>2
<1> QED
  BY <1>5, <1>6, <1>7, <1>8, <1>9 DEF IsSplice

(* It lists what both list, once if they do and have nothing in common.     *)
LEMMA SplicedOnce ==
  ASSUME NEW S, NEW s \in Seq(S), NEW t \in Seq(S), NEW at \in 0..Len(s),
         IsInjective(s), IsInjective(t), ToSet(s) \cap ToSet(t) = {},
         NEW u, u = Spliced(s, at, t)
  PROVE  IsInjective(u) /\ ToSet(u) = ToSet(s) \cup ToSet(t)
<1>1. /\ DOMAIN u = 1..Len(s) + Len(t)
      /\ \A i \in 1..at : u[i] = s[i]
      /\ \A i \in 1..Len(t) : u[at + i] = t[i]
      /\ \A i \in at+1..Len(s) : u[Len(t) + i] = s[i]
  <2>1. IsSplice(u, s, at, t)
    BY SplicedFacts
  <2> QED
    BY <2>1 DEF IsSplice
<1>2. /\ Len(s) \in Nat /\ Len(t) \in Nat /\ at \in Nat /\ at <= Len(s)
      /\ DOMAIN s = 1..Len(s) /\ DOMAIN t = 1..Len(t)
  OBVIOUS
<1>3. ASSUME NEW i \in DOMAIN u
      PROVE  \/ i \in 1..at /\ u[i] = s[i]
             \/ i - at \in 1..Len(t) /\ u[i] = t[i - at]
             \/ i - Len(t) \in at+1..Len(s) /\ u[i] = s[i - Len(t)]
  <2>1. CASE i \in 1..at
    BY <1>1, <2>1
  <2>2. CASE i \in at+1..at+Len(t)
    <3>1. i - at \in 1..Len(t) /\ at + (i - at) = i
      BY <1>2, <2>2
    <3> QED
      BY <1>1, <3>1
  <2>3. CASE i \in at+Len(t)+1..Len(s)+Len(t)
    <3>1. i - Len(t) \in at+1..Len(s) /\ Len(t) + (i - Len(t)) = i
      BY <1>2, <2>3
    <3> QED
      BY <1>1, <3>1
  <2> QED
    BY <1>1, <1>2, <2>1, <2>2, <2>3
<1>4. ToSet(u) = ToSet(s) \cup ToSet(t)
  <2>1. \A i \in DOMAIN u : u[i] \in ToSet(s) \cup ToSet(t)
    BY <1>2, <1>3 DEF ToSet
  <2>2. \A i \in DOMAIN s : s[i] \in ToSet(u)
    <3> SUFFICES ASSUME NEW i \in DOMAIN s PROVE \E j \in DOMAIN u : s[i] = u[j]
      BY DEF ToSet
    <3>1. CASE i \in 1..at
      BY <1>1, <1>2, <3>1
    <3>2. CASE i \in at+1..Len(s)
      <4>1. Len(t) + i \in DOMAIN u
        BY <1>1, <1>2, <3>2
      <4> QED
        BY <1>1, <3>2, <4>1
    <3> QED
      BY <1>2, <3>1, <3>2
  <2>3. \A i \in DOMAIN t : t[i] \in ToSet(u)
    <3> SUFFICES ASSUME NEW i \in DOMAIN t PROVE \E j \in DOMAIN u : t[i] = u[j]
      BY DEF ToSet
    <3>1. at + i \in DOMAIN u
      BY <1>1, <1>2
    <3> QED
      BY <1>1, <1>2, <3>1
  <2> QED
    BY <2>1, <2>2, <2>3 DEF ToSet
<1>5. IsInjective(u)
  <2> SUFFICES ASSUME NEW i \in DOMAIN u, NEW j \in DOMAIN u, u[i] = u[j]
               PROVE  i = j
    BY DEF IsInjective
  <2>1. \A p \in DOMAIN s, q \in DOMAIN t : s[p] # t[q]
    BY DEF ToSet
  <2>2. /\ \A p, q \in DOMAIN s : s[p] = s[q] => p = q
        /\ \A p, q \in DOMAIN t : t[p] = t[q] => p = q
    BY DEF IsInjective
  <2>3. /\ \/ i \in 1..at /\ u[i] = s[i]
           \/ i - at \in 1..Len(t) /\ u[i] = t[i - at]
           \/ i - Len(t) \in at+1..Len(s) /\ u[i] = s[i - Len(t)]
        /\ \/ j \in 1..at /\ u[j] = s[j]
           \/ j - at \in 1..Len(t) /\ u[j] = t[j - at]
           \/ j - Len(t) \in at+1..Len(s) /\ u[j] = s[j - Len(t)]
        /\ i \in Int /\ j \in Int
    BY <1>1, <1>2, <1>3, SMTT(30)
  <2>4. CASE i - at \in 1..Len(t) /\ u[i] = t[i - at]
    <3>1. j - at \in 1..Len(t) /\ u[j] = t[j - at]
      BY <1>2, <2>1, <2>3, <2>4
    <3>2. i - at = j - at
      BY <1>2, <2>2, <2>4, <3>1
    <3> QED
      BY <1>2, <2>3, <3>2
  <2>5. CASE i \in 1..at /\ u[i] = s[i]
    BY <1>2, <2>1, <2>2, <2>3, <2>5
  <2>6. CASE i - Len(t) \in at+1..Len(s) /\ u[i] = s[i - Len(t)]
    BY <1>2, <2>1, <2>2, <2>3, <2>6
  <2> QED
    BY <2>3, <2>4, <2>5, <2>6
<1> QED
  BY <1>4, <1>5

(* New rows, each named once and unknown before, behind a known anchor.     *)
LEMMA InsertRowsWellFormed ==
  ASSUME NEW doc, WellFormed(doc), NEW op, op.type = "insertRows", IsOperation(op),
         Violations(doc, op) = {}, NEW revision \in Nat, doc.revision <= revision
  PROVE  /\ WellFormed(ApplyInsertRows(doc, op.after, op.rows, revision))
         /\ ApplyInsertRows(doc, op.after, op.rows, revision).revision = revision
<1> DEFINE rows == op.rows
           added == ToSet(rows)
           at == InsertionPoint(doc, op.after)
           indexOf(r) == IndexIn(rows, r)
           next == ApplyInsertRows(doc, op.after, rows, revision)
<1>1. rows \in Seq(added)
  BY DEF IsOperation
<1>2. /\ AnchorIndexes(doc, op.after) # {}
      /\ \A i \in DOMAIN rows : rows[i] \notin DOMAIN doc.row
      /\ \A i \in DOMAIN rows : \A j \in 1..i-1 : rows[j] # rows[i]
  <2>1. InsertRowsViolations(doc, op.after, rows) = {}
    BY DEF Violations
  <2> HIDE DEF rows
  <2> QED
    BY <2>1 DEF InsertRowsViolations, Known
<1>3. /\ IsDocument(doc) /\ doc.rowOrder \in Seq(DOMAIN doc.row)
      /\ IsInjective(doc.rowOrder) /\ ToSet(doc.rowOrder) = DOMAIN doc.row
  BY DEF WellFormed, OrderSound
<1>4. at \in 0..Len(doc.rowOrder)
  <2>1. at \in AnchorIndexes(doc, op.after)
    BY <1>2 DEF InsertionPoint
  <2> HIDE DEF at
  <2> QED
    BY <1>3, <2>1 DEF AnchorIndexes
<1>5. /\ IsDocument(next)
      /\ next.revision = revision
      /\ next.rowOrder = Spliced(doc.rowOrder, at, rows)
      /\ DOMAIN next.row = DOMAIN doc.row \cup added
      /\ next.row = [r \in DOMAIN next.row |-> next.row[r]]
      /\ \A r \in added : next.row[r] =
           [slot |-> doc.maxSlot + indexOf(r), tombstone |-> FALSE, rev |-> revision]
      /\ \A r \in DOMAIN doc.row \ added : next.row[r] = doc.row[r]
      /\ next.maxSlot = doc.maxSlot + Len(rows)
      /\ next.cell = doc.cell
  <2> HIDE DEF rows
  <2> QED
    BY <1>3, InsertRowsFields
<1> HIDE DEF rows, at, next
<1>6. Len(rows) \in Nat /\ DOMAIN rows = 1..Len(rows)
  BY <1>1
<1>7. IsInjective(rows) /\ added \cap DOMAIN doc.row = {}
  <2>1. \A i, j \in DOMAIN rows : i < j => rows[i] # rows[j]
    BY <1>2, <1>6
  <2>2. IsInjective(rows)
    BY <1>6, <2>1 DEF IsInjective
  <2> QED
    BY <1>2, <2>2 DEF ToSet
<1>8. \A r \in added : indexOf(r) \in 1..Len(rows) /\ rows[indexOf(r)] = r
  <2>1. \A r \in added : \E i \in DOMAIN rows : rows[i] = r
    BY DEF ToSet
  <2> QED
    BY <1>6, <2>1 DEF IndexIn
<1> HIDE DEF indexOf
<1>9. /\ DOMAIN next.row = DOMAIN doc.row \cup added
      /\ \A r \in added : next.row[r] = [slot |-> doc.maxSlot + indexOf(r), tombstone |-> FALSE,
                                         rev |-> revision]
      /\ \A r \in DOMAIN doc.row : next.row[r] = doc.row[r]
  BY <1>5, <1>7
<1>10. OrderSound(next)
  <2> DEFINE S == DOMAIN doc.row \cup added
  <2>1. doc.rowOrder \in Seq(S) /\ rows \in Seq(S)
    BY <1>1, <1>3
  <2>2. ToSet(doc.rowOrder) \cap added = {}
    BY <1>3, <1>7
  <2>3. IsInjective(next.rowOrder) /\ ToSet(next.rowOrder) = ToSet(doc.rowOrder) \cup added
    <3> HIDE DEF S
    <3> QED
      BY <1>3, <1>4, <1>5, <1>7, <2>1, <2>2, SplicedOnce
  <2>4. next.rowOrder \in Seq(S)
    <3> HIDE DEF S
    <3> QED
      BY <1>4, <1>5, <2>1, SplicedFacts
  <2> QED
    BY <1>3, <1>9, <2>3, <2>4 DEF OrderSound
<1>11. /\ doc.row \in [DOMAIN doc.row -> RowMeta]
       /\ \A r, q \in DOMAIN doc.row : r # q => doc.row[r].slot # doc.row[q].slot
       /\ doc.maxSlot \in {-1} \cup {doc.row[r].slot : r \in DOMAIN doc.row}
       /\ \A r \in DOMAIN doc.row : doc.row[r].slot <= doc.maxSlot
  BY DEF WellFormed, SlotsSound
<1>12. /\ \A r \in DOMAIN doc.row : doc.row[r] \in RowMeta /\ doc.row[r].slot \in Nat
       /\ doc.maxSlot \in Int /\ doc.maxSlot >= -1
  <2>1. \A r \in DOMAIN doc.row : doc.row[r] \in RowMeta
    BY <1>11
  <2>2. \A r \in DOMAIN doc.row : doc.row[r].slot \in Nat
    BY <2>1 DEF RowMeta
  <2> QED
    BY <1>11, <2>1, <2>2
<1>13. \A r \in added : /\ next.row[r].slot = doc.maxSlot + indexOf(r)
                        /\ next.row[r] \in RowMeta
  <2> SUFFICES ASSUME NEW r \in added
               PROVE  next.row[r].slot = doc.maxSlot + indexOf(r) /\ next.row[r] \in RowMeta
    OBVIOUS
  <2> DEFINE slot == doc.maxSlot + indexOf(r)
  <2>1. slot \in Nat
    BY <1>6, <1>8, <1>12
  <2>2. next.row[r] = [slot |-> slot, tombstone |-> FALSE, rev |-> revision]
    BY <1>9
  <2> HIDE DEF slot, added
  <2>3. next.row[r].slot = slot /\ next.row[r] \in RowMeta
    BY <2>1, <2>2 DEF RowMeta
  <2> QED
    BY <2>3 DEF slot
<1>14. SlotsSound(next)
  <2>1. next.row \in [DOMAIN next.row -> RowMeta]
    <3>1. next.row = [r \in DOMAIN next.row |-> next.row[r]]
      BY <1>5
    <3>2. \A r \in DOMAIN next.row : next.row[r] \in RowMeta
      BY <1>9, <1>12, <1>13
    <3> QED
      BY <3>1, <3>2
  <2>2. ASSUME NEW r \in DOMAIN next.row, NEW q \in DOMAIN next.row, r # q
        PROVE  next.row[r].slot # next.row[q].slot
    <3>1. CASE r \in added /\ q \in added
      <4>1. indexOf(r) # indexOf(q)
        BY <1>8, <2>2, <3>1
      <4> QED
        BY <1>6, <1>8, <1>12, <1>13, <3>1, <4>1
    <3>2. CASE r \in added /\ q \in DOMAIN doc.row
      BY <1>6, <1>8, <1>9, <1>11, <1>12, <1>13, <3>2
    <3>3. CASE r \in DOMAIN doc.row /\ q \in added
      BY <1>6, <1>8, <1>9, <1>11, <1>12, <1>13, <3>3
    <3>4. CASE r \in DOMAIN doc.row /\ q \in DOMAIN doc.row
      BY <1>9, <1>11, <2>2, <3>4
    <3> QED
      BY <1>9, <3>1, <3>2, <3>3, <3>4
  <2>3. \A r \in DOMAIN next.row : next.row[r].slot <= next.maxSlot
    <3>1. \A r \in added : doc.maxSlot + indexOf(r) <= doc.maxSlot + Len(rows)
      BY <1>6, <1>8, <1>12
    <3>2. \A r \in DOMAIN doc.row : doc.row[r].slot <= doc.maxSlot + Len(rows)
      BY <1>6, <1>11, <1>12
    <3> QED
      BY <1>5, <1>9, <1>13, <3>1, <3>2
  <2>4. next.maxSlot \in {-1} \cup {next.row[r].slot : r \in DOMAIN next.row}
    <3>1. CASE Len(rows) = 0
      <4>1. next.maxSlot = doc.maxSlot
        BY <1>5, <1>12, <3>1
      <4> QED
        BY <1>9, <1>11, <4>1
    <3>2. CASE Len(rows) # 0
      <4>1. Len(rows) \in DOMAIN rows
        BY <1>6, <3>2
      <4> DEFINE r == rows[Len(rows)]
      <4>2. r \in added
        BY <4>1 DEF ToSet
      <4>3. indexOf(r) = Len(rows)
        BY <1>6, <1>7, <1>8, <4>1, <4>2 DEF IsInjective
      <4> HIDE DEF r
      <4> QED
        BY <1>5, <1>9, <1>13, <4>2, <4>3
    <3> QED
      BY <3>1, <3>2
  <2> QED
    BY <2>1, <2>2, <2>3, <2>4 DEF SlotsSound
<1>15. CellsSound(next)
  <2>1. \A r \in DOMAIN doc.row, c \in Column : CellKey(next, r, c) = CellKey(doc, r, c)
    BY <1>9 DEF CellKey
  <2>2. CellsSound(doc) /\ doc.revision \in Nat
    BY DEF WellFormed
  <2>3. \A k \in DOMAIN next.cell : next.cell[k].rev \in 0..next.revision
    BY <1>5, <2>2 DEF CellsSound
  <2> QED
    BY <1>5, <1>9, <2>1, <2>2, <2>3 DEF CellsSound
<1> QED
  BY <1>5, <1>10, <1>14, <1>15 DEF WellFormed, next, rows

(* Applying a valid operation to a well-formed document gives another, at   *)
(* the operation's revision, whatever the operation.                        *)
LEMMA ApplyWellFormed ==
  ASSUME NEW doc, WellFormed(doc), NEW op, IsOperation(op), Violations(doc, op) = {},
         NEW revision \in Nat, doc.revision <= revision
  PROVE  /\ WellFormed(ApplyOperation(doc, op, revision))
         /\ ApplyOperation(doc, op, revision).revision = revision
<1>1. CASE op.type = "setCells"
  <2>1. ApplyOperation(doc, op, revision) = ApplySetCells(doc, op.changes, revision)
    BY <1>1 DEF ApplyOperation
  <2> QED
    BY <1>1, <2>1, SetCellsWellFormed
<1>2. CASE op.type = "insertRows"
  <2>1. ApplyOperation(doc, op, revision) = ApplyInsertRows(doc, op.after, op.rows, revision)
    BY <1>2 DEF ApplyOperation
  <2> QED
    BY <1>2, <2>1, InsertRowsWellFormed
<1>3. CASE op.type = "deleteRows"
  <2>1. ApplyOperation(doc, op, revision) = ApplyDeleteRows(doc, op.rows, revision)
    BY <1>3 DEF ApplyOperation
  <2> QED
    BY <1>3, <2>1, DeleteRowsWellFormed
<1> QED
  BY <1>1, <1>2, <1>3 DEF IsOperation

(* Validation covers everything apply throws on.                            *)
LEMMA ValidCoversApply ==
  ASSUME NEW doc, NEW op, Violations(doc, op) = {}
  PROVE  ~ApplyThrows(doc, op)
<1>1. CASE op.type = "setCells"
  <2>1. SetCellsViolations(doc, op.changes) = {}
    BY <1>1 DEF Violations
  <2>2. \A i \in DOMAIN op.changes : ChangeViolation(doc, op.changes[i]) = {}
    BY <2>1 DEF SetCellsViolations
  <2>3. \A i \in DOMAIN op.changes : /\ Known(doc, op.changes[i].row)
                                     /\ ~Tombstoned(doc, op.changes[i].row)
                                     /\ op.changes[i].col \in Column
    BY <2>2 DEF ChangeViolation
  <2> QED
    BY <1>1, <2>3 DEF ApplyThrows
<1>2. CASE op.type = "insertRows"
  <2>1. InsertRowsViolations(doc, op.after, op.rows) = {}
    BY <1>2 DEF Violations
  <2> QED
    BY <1>2, <2>1 DEF ApplyThrows, InsertRowsViolations
<1> QED
  BY <1>1, <1>2 DEF ApplyThrows

-----------------------------------------------------------------------------
(* A document written to a snapshot and read back.                          *)

(* maxSlot is not in the snapshot: it is the largest slot of its rows.      *)
LEMMA MaxSlotFound ==
  ASSUME NEW doc, SlotsSound(doc)
  PROVE  MaxSlotOf(doc.row) = doc.maxSlot
<1> DEFINE slots == {-1} \cup {doc.row[r].slot : r \in DOMAIN doc.row}
           bound(m) == \A r \in DOMAIN doc.row : doc.row[r].slot <= m
<1>1. doc.maxSlot \in slots /\ bound(doc.maxSlot)
  BY DEF SlotsSound
<1>2. \A r \in DOMAIN doc.row : doc.row[r].slot \in Nat
  BY DEF SlotsSound, RowMeta
<1>3. ASSUME NEW m \in slots, bound(m) PROVE m = doc.maxSlot
  <2>1. m \in Int /\ doc.maxSlot \in Int /\ m >= -1 /\ doc.maxSlot >= -1
    BY <1>1, <1>2
  <2>2. CASE m = -1 \/ doc.maxSlot = -1
    <3>1. DOMAIN doc.row = {}
      BY <1>1, <1>2, <1>3, <2>2
    <3> QED
      BY <1>1, <3>1
  <2>3. CASE m # -1 /\ doc.maxSlot # -1
    <3>1. m <= doc.maxSlot /\ doc.maxSlot <= m
      BY <1>1, <1>3, <2>3
    <3> QED
      BY <2>1, <3>1
  <2> QED
    BY <2>2, <2>3
<1> QED
  BY <1>1, <1>3 DEF MaxSlotOf

(* A well-formed document is found again in its snapshot.                   *)
LEMMA SnapshotRoundTrip ==
  ASSUME NEW doc, WellFormed(doc)
  PROVE  /\ DeserializeDocument(SerializeDocument(doc)) = doc
         /\ ~SnapshotRejected(SerializeDocument(doc))
         /\ SerializeDocument(doc).revision = doc.revision
<1> DEFINE named == {rc \in (DOMAIN doc.row) \X Column : CellKey(doc, rc[1], rc[2]) \in DOMAIN doc.cell}
           cells == [rc \in named |-> doc.cell[CellKey(doc, rc[1], rc[2])]]
           data == SerializeDocument(doc)
           back == DeserializeDocument(data)
           keyOf(rc) == <<data.row[rc[1]].slot, rc[2]>>
           read == [k \in {keyOf(rc) : rc \in DOMAIN data.cell} |->
                       data.cell[CHOOSE rc \in DOMAIN data.cell : keyOf(rc) = k]]
<1>1. /\ data.revision = doc.revision /\ data.rowOrder = doc.rowOrder
      /\ data.row = doc.row /\ data.cell = cells
  BY DEF SerializeDocument
<1>2. back = [revision |-> data.revision, rowOrder |-> data.rowOrder, row |-> data.row,
              cell |-> read, maxSlot |-> MaxSlotOf(data.row)]
  BY DEF DeserializeDocument
<1> HIDE DEF data, back
<1>3. /\ IsDocument(doc) /\ SlotsSound(doc) /\ CellsSound(doc)
  BY DEF WellFormed
<1>4. /\ \A r, q \in DOMAIN doc.row : r # q => doc.row[r].slot # doc.row[q].slot
      /\ \A r \in DOMAIN doc.row : doc.row[r].slot \in Nat
  BY <1>3 DEF SlotsSound, RowMeta
<1>5. DOMAIN data.cell = named
  BY <1>1
<1>6. \A rc \in named : keyOf(rc) = CellKey(doc, rc[1], rc[2])
  BY <1>1 DEF CellKey
<1>7. ASSUME NEW rc \in named, NEW other \in named, keyOf(rc) = keyOf(other)
      PROVE  rc = other
  <2>1. /\ rc[1] \in DOMAIN doc.row /\ other[1] \in DOMAIN doc.row
        /\ rc = <<rc[1], rc[2]>> /\ other = <<other[1], other[2]>>
    OBVIOUS
  <2>2. doc.row[rc[1]].slot = doc.row[other[1]].slot /\ rc[2] = other[2]
    BY <1>1, <1>7
  <2>3. rc[1] = other[1]
    BY <1>4, <2>1, <2>2
  <2> QED
    BY <2>1, <2>2, <2>3
<1>8. \A k \in DOMAIN doc.cell : \E rc \in named : keyOf(rc) = k
  <2> SUFFICES ASSUME NEW k \in DOMAIN doc.cell PROVE \E rc \in named : keyOf(rc) = k
    OBVIOUS
  <2>1. PICK r \in DOMAIN doc.row, c \in Column : k = CellKey(doc, r, c)
    BY <1>3 DEF CellsSound
  <2>2. <<r, c>> \in named
    BY <2>1
  <2> QED
    BY <1>6, <2>1, <2>2
<1>9. \A rc \in named : keyOf(rc) \in DOMAIN doc.cell /\ data.cell[rc] = doc.cell[keyOf(rc)]
  BY <1>1, <1>6
<1> HIDE DEF named, keyOf, cells
<1>10. read = doc.cell
  <2>1. DOMAIN read = DOMAIN doc.cell
    BY <1>5, <1>8, <1>9
  <2>2. \A k \in DOMAIN doc.cell : read[k] = doc.cell[k]
    <3> SUFFICES ASSUME NEW k \in DOMAIN doc.cell PROVE read[k] = doc.cell[k]
      OBVIOUS
    <3> DEFINE chosen == CHOOSE rc \in DOMAIN data.cell : keyOf(rc) = k
    <3>1. chosen \in named /\ keyOf(chosen) = k
      BY <1>5, <1>8
    <3>2. read[k] = data.cell[chosen]
      BY <2>1
    <3> HIDE DEF chosen, read
    <3> QED
      BY <1>9, <3>1, <3>2
  <2>3. read = [k \in DOMAIN read |-> read[k]] /\ doc.cell = [k \in DOMAIN doc.cell |-> doc.cell[k]]
    BY <1>3 DEF CellsSound
  <2> HIDE DEF read
  <2> QED
    BY <2>1, <2>2, <2>3
<1> HIDE DEF read
<1>11. MaxSlotOf(data.row) = doc.maxSlot
  BY <1>1, <1>3, MaxSlotFound
<1>12. /\ IsDocument(back) /\ back.revision = doc.revision /\ back.rowOrder = doc.rowOrder
       /\ back.row = doc.row /\ back.cell = doc.cell /\ back.maxSlot = doc.maxSlot
  <2>1. /\ IsDocument(back) /\ back.revision = data.revision /\ back.rowOrder = data.rowOrder
        /\ back.row = data.row /\ back.cell = read /\ back.maxSlot = MaxSlotOf(data.row)
    BY <1>2, Zenon DEF IsDocument
  <2> QED
    BY <1>1, <1>10, <1>11, <2>1
<1>13. back = doc
  BY <1>3, <1>12, SameDocument
<1>14. ~SnapshotRejected(data)
  <2>1. \A rc \in named : rc[1] \in DOMAIN doc.row /\ rc[2] \in Column
    BY DEF named
  <2> QED
    BY <1>1, <1>4, <1>5, <2>1 DEF SnapshotRejected
<1> QED
  BY <1>1, <1>13, <1>14 DEF data, back

-----------------------------------------------------------------------------
(* Verdicts.                                                                *)

(* The codes a rejection gives.                                             *)
RejectCodes ==
  {"unknown-row", "unknown-anchor", "duplicate-row",
   "target-row-deleted", "unknown-column", "stale-cell-revision"}

(* Every violation has a code, and one of them is given.                    *)
LEMMA RejectedWithCode ==
  ASSUME NEW doc, NEW op, IsOperation(op), Violations(doc, op) # {}
  PROVE  PrimaryRejectCode(Violations(doc, op)) \in RejectCodes
<1> DEFINE codes == Violations(doc, op)
           first(i) == /\ ViolationPriority[i] \in codes
                       /\ \A j \in 1..i-1 : ViolationPriority[j] \notin codes
           p == CHOOSE i \in DOMAIN ViolationPriority : first(i)
<1>1. codes \subseteq RejectCodes
  <2>1. CASE op.type = "setCells"
    <3>1. \A ch : ChangeViolation(doc, ch) \subseteq RejectCodes
      BY DEF ChangeViolation, RejectCodes
    <3> QED
      BY <2>1, <3>1 DEF Violations, SetCellsViolations
  <2>2. CASE op.type = "insertRows"
    BY <2>2 DEF Violations, InsertRowsViolations, RejectCodes
  <2>3. CASE op.type = "deleteRows"
    BY <2>3 DEF Violations
  <2> QED
    BY <2>1, <2>2, <2>3 DEF IsOperation
<1>2. /\ DOMAIN ViolationPriority = 1..6
      /\ ViolationPriority[1] = "unknown-row" /\ ViolationPriority[2] = "unknown-anchor"
      /\ ViolationPriority[3] = "duplicate-row" /\ ViolationPriority[4] = "target-row-deleted"
      /\ ViolationPriority[5] = "unknown-column" /\ ViolationPriority[6] = "stale-cell-revision"
  BY DEF ViolationPriority
<1>3. PrimaryRejectCode(codes) = ViolationPriority[p]
  BY DEF PrimaryRejectCode
<1> HIDE DEF codes
<1>4. \E i \in DOMAIN ViolationPriority : first(i)
  <2> DEFINE T == {i \in 1..6 : ViolationPriority[i] \in codes}
  <2>1. T # {} /\ T \subseteq Nat
    BY <1>1, <1>2 DEF RejectCodes, codes
  <2> HIDE DEF T
  <2>2. PICK t \in T : \A u \in T : t <= u
    BY <2>1, Smallest
  <2>3. t \in 1..6 /\ ViolationPriority[t] \in codes
    BY <2>2 DEF T
  <2>4. \A j \in 1..t-1 : ViolationPriority[j] \notin codes
    <3> SUFFICES ASSUME NEW j \in 1..t-1, ViolationPriority[j] \in codes PROVE FALSE
      OBVIOUS
    <3>1. j \in T
      BY <2>3 DEF T
    <3>2. t <= j
      BY <2>2, <3>1
    <3> QED
      BY <2>3, <3>2
  <2> QED
    BY <1>2, <2>3, <2>4
<1>5. p \in 1..6
  BY <1>2, <1>4
<1> HIDE DEF p
<1>6. ViolationPriority[p] \in RejectCodes
  BY <1>2, <1>5 DEF RejectCodes
<1> QED
  BY <1>3, <1>6 DEF codes

(* What is accepted is valid, and a no-op changes nothing.                  *)
LEMMA VerdictMeaning ==
  ASSUME NEW s, NEW e, IsOperation(e.operation), NEW a
  PROVE  /\ Verdict(s, e, a) = "accepted" => Violations(s.document, e.operation) = {}
         /\ Verdict(s, e, a) = "noop" => IsEmptyChangeSet(s.document, e.operation)
<1>1. Violations(s.document, e.operation) # {} =>
        PrimaryRejectCode(Violations(s.document, e.operation)) \in RejectCodes
  BY RejectedWithCode
<1> QED
  BY <1>1 DEF Verdict, RejectCodes

-----------------------------------------------------------------------------
(* The sequencer's state after a submit.                                    *)

(* What acceptance changes, field by field.                                 *)
LEMMA AcceptedFields ==
  ASSUME NEW s, DOMAIN s = SequencerFields, NEW e
  PROVE  /\ DOMAIN Accepted(s, e) = SequencerFields
         /\ Accepted(s, e).document = ApplyOperation(s.document, e.operation, s.currentRevision + 1)
         /\ Accepted(s, e).operationLog = Append(s.operationLog, LogEntry(e, s.currentRevision + 1))
         /\ Accepted(s, e).currentRevision = s.currentRevision + 1
  BY DEF Accepted, Consumed, SequencerFields

(* A no-op and a rejection leave document and log alone.                    *)
LEMMA OtherFields ==
  ASSUME NEW s, DOMAIN s = SequencerFields, NEW e, NEW t \in {Consumed(s, e), Noop(s, e)}
  PROVE  /\ DOMAIN t = SequencerFields
         /\ t.document = s.document /\ t.operationLog = s.operationLog
         /\ t.currentRevision = s.currentRevision
  BY DEF Noop, Consumed, SequencerFields

(* A stretch of a sequence grows at its end.                                *)
LEMMA StretchGrows ==
  ASSUME NEW S, NEW log \in Seq(S), NEW k \in 0..Len(log), NEW n \in 1..Len(log)
  PROVE  /\ n <= k => SubSeq(log, k + 1, n) = <<>> /\ SubSeq(log, k + 1, n - 1) = <<>>
         /\ n > k => SubSeq(log, k + 1, n) = Append(SubSeq(log, k + 1, n - 1), log[n])
<1>1. Len(log) \in Nat /\ DOMAIN log = 1..Len(log) /\ k \in Nat /\ n \in Nat /\ k <= Len(log)
  OBVIOUS
<1>2. ASSUME n <= k
      PROVE  SubSeq(log, k + 1, n) = <<>> /\ SubSeq(log, k + 1, n - 1) = <<>>
  BY <1>1, <1>2
<1>3. ASSUME n > k
      PROVE  SubSeq(log, k + 1, n) = Append(SubSeq(log, k + 1, n - 1), log[n])
  <2> DEFINE a == SubSeq(log, k + 1, n)
             b == SubSeq(log, k + 1, n - 1)
             c == Append(b, log[n])
  <2>1. a \in Seq(S) /\ Len(a) = n - k /\ \A i \in 1..n - k : a[i] = log[k + i]
    BY <1>1, <1>3, SubSeqProperties
  <2>2. b \in Seq(S) /\ Len(b) = n - 1 - k /\ \A i \in 1..n - 1 - k : b[i] = log[k + i]
    <3>1. CASE n - 1 > k
      BY <1>1, <1>3, <3>1, SubSeqProperties
    <3>2. CASE n - 1 = k
      BY <1>1, <3>2
    <3> QED
      BY <1>1, <1>3, <3>1, <3>2
  <2> HIDE DEF a, b
  <2>3. log[n] \in S
    OBVIOUS
  <2>4. c \in Seq(S) /\ Len(c) = n - k
    BY <1>1, <2>2, <2>3
  <2>5. \A i \in 1..n - k : c[i] = log[k + i]
    <3> SUFFICES ASSUME NEW i \in 1..n - k PROVE c[i] = log[k + i]
      OBVIOUS
    <3>1. CASE i = n - k
      BY <1>1, <2>2, <2>3, <3>1
    <3>2. CASE i # n - k
      BY <1>1, <2>2, <2>3, <3>2
    <3> QED
      BY <3>1, <3>2
  <2> HIDE DEF c
  <2>6. a = c
    BY <1>1, <1>3, <2>1, <2>4, <2>5
  <2> QED
    BY <2>6 DEF a, b, c
<1> QED
  BY <1>2, <1>3

(* The log behind a revision of a log whose revisions count up.             *)
LEMMA SinceIsTail ==
  ASSUME NEW s, NEW S, NEW log \in Seq(S), s.operationLog = log,
         \A i \in DOMAIN log : log[i].rev = i, NEW after \in 0..Len(log)
  PROVE  OperationsSince(s, after) = SubSeq(log, after + 1, Len(log))
<1> DEFINE later == {i \in DOMAIN log : log[i].rev > after}
<1>1. Len(log) \in Nat /\ DOMAIN log = 1..Len(log) /\ after \in Nat /\ after <= Len(log)
  OBVIOUS
<1>2. OperationsSince(s, after) = Filtered(log, later)
  BY DEF OperationsSince
<1>3. \A n \in 1..Len(log) : n \in later <=> n > after
  BY <1>1
<1> HIDE DEF later
<1>4. PICK f : /\ Filtered(log, later) = f[Len(log)]
               /\ f[0] = <<>>
               /\ \A n \in 1..Len(log) : f[n] = FilterStep(log, later, f[n - 1], n)
  BY FilterTrace
<1>5. \A n \in 0..Len(log) : f[n] = SubSeq(log, after + 1, n)
  <2> DEFINE T == {n \in 0..Len(log) : f[n] # SubSeq(log, after + 1, n)}
  <2> SUFFICES ASSUME T # {} PROVE FALSE
    OBVIOUS
  <2>1. PICK n \in T : \A u \in T : n <= u
    <3>1. T \subseteq Nat
      OBVIOUS
    <3> HIDE DEF T
    <3> QED
      BY <3>1, Smallest
  <2>2. n # 0
    <3>1. f[0] = SubSeq(log, after + 1, 0)
      BY <1>1, <1>4
    <3> QED
      BY <2>1, <3>1
  <2>3. n \in 1..Len(log) /\ n - 1 \in 0..Len(log) /\ n - 1 \notin T
    BY <1>1, <2>1, <2>2
  <2>4. f[n - 1] = SubSeq(log, after + 1, n - 1)
    BY <2>3
  <2>5. f[n] = FilterStep(log, later, f[n - 1], n)
    BY <1>4, <2>3
  <2>6. f[n] = SubSeq(log, after + 1, n)
    BY <1>1, <1>3, <2>3, <2>4, <2>5, StretchGrows, SMTT(30) DEF FilterStep
  <2> QED
    BY <2>1, <2>6
<1> QED
  BY <1>1, <1>2, <1>4, <1>5
-----------------------------------------------------------------------------
(* An operation enters.                                                     *)

(* A log that replays well still does with one more valid entry.            *)
LEMMA ReplayAppend ==
  ASSUME NEW base, NEW S, NEW log \in Seq(S), ReplaysSoundly(base, log),
         NEW x, NEW next,
         next = ApplyOperation(Replay(base, log), x.operation, x.rev),
         WellFormed(next), next.revision = Len(log) + 1
  PROVE  /\ ReplaysSoundly(base, Append(log, x))
         /\ Replay(base, Append(log, x)) = next
<1> DEFINE longer == Append(log, x)
           m == Len(log)
           T == S \cup {x}
<1>1. m \in Nat /\ log \in Seq(T) /\ longer \in Seq(T) /\ Len(longer) = m + 1 /\ longer[m + 1] = x
  OBVIOUS
<1>2. SubSeq(longer, 1, m + 1) = longer /\ SubSeq(log, 1, m) = log
  BY <1>1
<1>3. \A n \in 0..m : SubSeq(longer, 1, n) = SubSeq(log, 1, n)
  <2> SUFFICES ASSUME NEW n \in 0..m PROVE SubSeq(longer, 1, n) = SubSeq(log, 1, n)
    OBVIOUS
  <2>1. /\ SubSeq(longer, 1, n) \in Seq(T) /\ Len(SubSeq(longer, 1, n)) = n
        /\ \A i \in 1..n : SubSeq(longer, 1, n)[i] = longer[i]
    BY <1>1, SubSeqProperties
  <2>2. /\ SubSeq(log, 1, n) \in Seq(T) /\ Len(SubSeq(log, 1, n)) = n
        /\ \A i \in 1..n : SubSeq(log, 1, n)[i] = log[i]
    BY <1>1, SubSeqProperties
  <2>3. \A i \in 1..n : longer[i] = log[i]
    BY <1>1
  <2> QED
    BY <2>1, <2>2, <2>3
<1> HIDE DEF longer, m
<1>4. Replay(base, SubSeq(longer, 1, m + 1)) =
        ApplyOperation(Replay(base, SubSeq(longer, 1, m)), longer[m + 1].operation, longer[m + 1].rev)
  <2>1. m + 1 \in 1..Len(longer) /\ (m + 1) - 1 = m
    BY <1>1
  <2> QED
    BY <1>1, <2>1, ReplayStep
<1>5. Replay(base, longer) = next
  <2>1. SubSeq(longer, 1, m) = log
    BY <1>1, <1>2, <1>3
  <2> QED
    BY <1>1, <1>2, <1>4, <2>1
<1>6. ReplaysSoundly(base, longer)
  <2> SUFFICES ASSUME NEW n \in 0..m + 1
               PROVE  /\ WellFormed(Replay(base, SubSeq(longer, 1, n)))
                      /\ Replay(base, SubSeq(longer, 1, n)).revision = n
    BY <1>1 DEF ReplaysSoundly
  <2>1. CASE n = m + 1
    BY <1>2, <1>5, <2>1 DEF m
  <2>2. CASE n # m + 1
    <3>1. n \in 0..m
      BY <1>1, <2>2
    <3> QED
      BY <1>3, <3>1 DEF ReplaysSoundly, m
  <2> QED
    BY <2>1, <2>2
<1> QED
  BY <1>5, <1>6 DEF longer

(* A valid operation takes the next revision.                               *)
LEMMA SequencerAccepts ==
  ASSUME NEW s, StateSound(s), NEW e, IsOperation(e.operation),
         Violations(s.document, e.operation) = {}, NEW t, t = Accepted(s, e),
         NEW x, x = LogEntry(e, s.currentRevision + 1)
  PROVE  /\ StateSound(t)
         /\ t.operationLog = Append(s.operationLog, x)
         /\ t.document = ApplyOperation(s.document, x.operation, x.rev)
         /\ x.rev = Len(s.operationLog) + 1
         /\ t.operationLog[Len(t.operationLog)] = x
         /\ OperationsSince(t, s.currentRevision) = <<x>>
<1> DEFINE log == s.operationLog
           m == Len(log)
           T == ToSet(log) \cup {x}
<1>1. /\ log \in Seq(ToSet(log)) /\ s.currentRevision = m /\ m \in Nat
      /\ \A i \in DOMAIN log : log[i].rev = i
      /\ WellFormed(s.document) /\ DOMAIN s = SequencerFields
  BY DEF StateSound
<1>2. x.operation = e.operation /\ x.rev = m + 1
  BY <1>1 DEF LogEntry
<1>3. /\ DOMAIN t = SequencerFields /\ t.operationLog = Append(log, x)
      /\ t.document = ApplyOperation(s.document, x.operation, x.rev)
      /\ t.currentRevision = m + 1
  BY <1>1, <1>2, AcceptedFields
<1>4. WellFormed(t.document) /\ t.document.revision = m + 1
  <2>1. s.document.revision = m /\ m <= m + 1 /\ m + 1 \in Nat
    BY <1>1 DEF StateSound
  <2> HIDE DEF m
  <2> QED
    BY <1>1, <1>2, <1>3, <2>1, ApplyWellFormed
<1> HIDE DEF log
<1>5. /\ log \in Seq(T) /\ Append(log, x) \in Seq(T) /\ Len(Append(log, x)) = m + 1
      /\ Append(log, x)[m + 1] = x
      /\ \A i \in 1..m : Append(log, x)[i] = log[i]
      /\ DOMAIN Append(log, x) = 1..m + 1 /\ DOMAIN log = 1..m
  BY <1>1
<1>6. Append(log, x) \in Seq(ToSet(Append(log, x)))
  BY <1>1, AppendElements
<1>7. \A i \in 1..m + 1 : Append(log, x)[i].rev = i
  <2> SUFFICES ASSUME NEW i \in 1..m + 1 PROVE Append(log, x)[i].rev = i
    OBVIOUS
  <2>1. i = m + 1 \/ i \in 1..m
    BY <1>1
  <2> QED
    BY <1>1, <1>2, <1>5, <2>1
<1>8. StateSound(t)
  BY <1>3, <1>4, <1>5, <1>6, <1>7 DEF StateSound
<1>9. OperationsSince(t, m) = SubSeq(Append(log, x), m + 1, m + 1)
  <2> DEFINE longer == Append(log, x)
  <2>1. longer \in Seq(T) /\ t.operationLog = longer /\ Len(longer) = m + 1
    BY <1>3, <1>5
  <2>2. m \in 0..Len(longer) /\ \A i \in DOMAIN longer : longer[i].rev = i
    BY <1>1, <1>5, <1>7
  <2> HIDE DEF m, T, longer
  <2>3. OperationsSince(t, m) = SubSeq(longer, m + 1, Len(longer))
    BY <2>1, <2>2, SinceIsTail
  <2> QED
    BY <2>1, <2>3 DEF longer
<1>10. SubSeq(Append(log, x), m + 1, m + 1) = <<x>>
  <2> DEFINE longer == Append(log, x)
  <2> HIDE DEF m, T
  <2>1. longer \in Seq(T) /\ Len(longer) = m + 1 /\ longer[m + 1] = x
    BY <1>5
  <2>2. m \in 0..Len(longer) /\ m + 1 \in 1..Len(longer) /\ (m + 1) - 1 = m /\ m + 1 > m
    BY <1>1, <1>5
  <2>3. SubSeq(longer, m + 1, m) = <<>>
    BY <1>1, <2>1
  <2> HIDE DEF longer
  <2>4. SubSeq(longer, m + 1, m + 1) = Append(SubSeq(longer, m + 1, m), longer[m + 1])
    BY <2>1, <2>2, StretchGrows
  <2>5. Append(<<>>, x) = <<x>>
    OBVIOUS
  <2>6. SubSeq(longer, m + 1, m + 1) = <<x>>
    BY <2>1, <2>3, <2>4, <2>5
  <2> QED
    BY <2>6 DEF longer
<1> QED
  BY <1>1, <1>2, <1>3, <1>5, <1>8, <1>9, <1>10 DEF log

(* Anything else leaves document and log alone.                             *)
LEMMA SequencerKeeps ==
  ASSUME NEW s, StateSound(s), NEW e, NEW t \in {s, Consumed(s, e), Noop(s, e)}
  PROVE  /\ StateSound(t)
         /\ t.document = s.document /\ t.operationLog = s.operationLog
         /\ t.currentRevision = s.currentRevision
         /\ OperationsSince(t, s.currentRevision) = <<>>
<1>1. DOMAIN s = SequencerFields
  BY DEF StateSound
<1>2. /\ DOMAIN t = SequencerFields
      /\ t.document = s.document /\ t.operationLog = s.operationLog
      /\ t.currentRevision = s.currentRevision
  BY <1>1, OtherFields
<1>3. StateSound(t)
  BY <1>2 DEF StateSound
<1> DEFINE log == s.operationLog
           m == Len(log)
<1>4. /\ log \in Seq(ToSet(log)) /\ s.currentRevision = m /\ m \in Nat
      /\ \A i \in DOMAIN log : log[i].rev = i
  BY DEF StateSound
<1>5. OperationsSince(t, m) = SubSeq(log, m + 1, m)
  <2>1. m \in 0..m
    BY <1>4
  <2> HIDE DEF log
  <2> QED
    BY <1>2, <1>4, <2>1, SinceIsTail DEF log
<1>6. SubSeq(log, m + 1, m) = <<>>
  BY <1>4
<1> QED
  BY <1>2, <1>3, <1>4, <1>5, <1>6

(* A replay of any beginning of a log that replays well does.               *)
LEMMA BeginningReplays ==
  ASSUME NEW S, NEW log \in Seq(S), NEW base, ReplaysSoundly(base, log),
         NEW kept, kept \in Seq(ToSet(kept)), Len(kept) <= Len(log),
         \A i \in DOMAIN kept : kept[i] = log[i]
  PROVE  /\ ReplaysSoundly(base, kept)
         /\ WellFormed(Replay(base, kept)) /\ Replay(base, kept).revision = Len(kept)
<1> DEFINE c == Len(kept)
<1>1. /\ Len(log) \in Nat /\ DOMAIN log = 1..Len(log) /\ c \in Nat /\ DOMAIN kept = 1..c
      /\ c <= Len(log)
  OBVIOUS
<1>2. \A n \in 0..c : SubSeq(kept, 1, n) = SubSeq(log, 1, n)
  <2> SUFFICES ASSUME NEW n \in 0..c PROVE SubSeq(kept, 1, n) = SubSeq(log, 1, n)
    OBVIOUS
  <2>1. /\ SubSeq(kept, 1, n) \in Seq(ToSet(kept)) /\ Len(SubSeq(kept, 1, n)) = n
        /\ \A i \in 1..n : SubSeq(kept, 1, n)[i] = kept[i]
    BY <1>1, SubSeqProperties
  <2>2. /\ SubSeq(log, 1, n) \in Seq(S) /\ Len(SubSeq(log, 1, n)) = n
        /\ \A i \in 1..n : SubSeq(log, 1, n)[i] = log[i]
    BY <1>1, SubSeqProperties
  <2>3. \A i \in 1..n : i \in DOMAIN kept
    BY <1>1
  <2> QED
    BY <2>1, <2>2, <2>3
<1>3. SubSeq(kept, 1, c) = kept
  OBVIOUS
<1> HIDE DEF c
<1>4. \A n \in 0..c : WellFormed(Replay(base, SubSeq(kept, 1, n)))
                      /\ Replay(base, SubSeq(kept, 1, n)).revision = n
  <2> SUFFICES ASSUME NEW n \in 0..c
               PROVE  /\ WellFormed(Replay(base, SubSeq(kept, 1, n)))
                      /\ Replay(base, SubSeq(kept, 1, n)).revision = n
    OBVIOUS
  <2>1. n \in 0..Len(log)
    BY <1>1
  <2> QED
    BY <1>2, <2>1 DEF ReplaysSoundly
<1>5. WellFormed(Replay(base, kept)) /\ Replay(base, kept).revision = c
  <2>1. c \in 0..c
    BY <1>1
  <2>2. /\ WellFormed(Replay(base, SubSeq(kept, 1, c)))
        /\ Replay(base, SubSeq(kept, 1, c)).revision = c
    BY <1>4, <2>1
  <2> QED
    BY <1>3, <2>2
<1>6. ReplaysSoundly(base, kept)
  BY <1>4 DEF ReplaysSoundly, c
<1> QED
  BY <1>5, <1>6 DEF c
=============================================================================
