-------------------------- MODULE OrderedLogProofs --------------------------
(***************************************************************************)
(* What follows from the promise of a durable document, for every set of   *)
(* operations: whatever implements OrderedLog has these properties too.    *)
(***************************************************************************)
EXTENDS OrderedLog, SequenceTheorems, TLAPS

(* Operations keep their places when the order grows.                       *)
LEMMA AcceptedLog ==
  ASSUME TypeOK, NEW o \in Op, Accept(o)
  PROVE  /\ log' \in Seq(Op) /\ Len(log') = Len(log) + 1 /\ Len(log) \in Nat
         /\ DOMAIN log = 1..Len(log) /\ DOMAIN log' = 1..Len(log) + 1
         /\ \A i \in 1..Len(log) : log'[i] = log[i] /\ log[i] # o
         /\ log'[Len(log) + 1] = o
  BY AppendProperties DEF TypeOK, Accept

(* And when a restart cuts it.                                              *)
LEMMA RestartedLog ==
  ASSUME TypeOK, NEW n \in durable..Len(log), Restart(n)
  PROVE  /\ log' \in Seq(Op) /\ Len(log') = n
         /\ n \in Nat /\ n <= Len(log) /\ durable <= n /\ Len(log) \in Nat
         /\ DOMAIN log = 1..Len(log) /\ DOMAIN log' = 1..n
         /\ \A i \in 1..n : log'[i] = log[i]
  BY SubSeqProperties DEF TypeOK, Restart

OrderInv == TypeOK /\ ToldIsDurable /\ AtMostOnce

(* The three invariants together are inductive.                             *)
LEMMA OrderStep == OrderInv /\ [Next]_vars => OrderInv'
<1> SUFFICES ASSUME OrderInv, [Next]_vars PROVE OrderInv'
  OBVIOUS
<1>0. Len(log) \in Nat /\ DOMAIN log = 1..Len(log) /\ durable \in Nat /\ durable <= Len(log)
  BY DEF OrderInv, TypeOK
<1>1. ASSUME NEW o \in Op, Accept(o) PROVE OrderInv'
  <2>1. Places(durable)' = Places(durable)
    BY <1>0, <1>1, AcceptedLog DEF OrderInv, Accept, Places
  <2>2. TypeOK'
    BY <1>0, <1>1, AcceptedLog DEF OrderInv, TypeOK, Accept
  <2>3. AtMostOnce'
    BY <1>1, AcceptedLog DEF OrderInv, AtMostOnce
  <2> QED
    BY <1>1, <2>1, <2>2, <2>3 DEF OrderInv, ToldIsDurable, Accept
<1>2. CASE Harden
  <2>1. Places(durable) \subseteq Places(durable)'
    BY <1>0, <1>2 DEF Harden, Places
  <2> QED
    BY <1>0, <1>2, <2>1 DEF OrderInv, TypeOK, ToldIsDurable, AtMostOnce, Harden
<1>3. CASE Tell
  <2>1. Places(durable) \subseteq Op \X (Nat \ {0})
    BY <1>0 DEF Places, OrderInv, TypeOK
  <2>2. Places(durable)' = Places(durable)
    BY <1>3 DEF Tell, Places
  <2> QED
    BY <1>3, <2>1, <2>2 DEF OrderInv, TypeOK, ToldIsDurable, AtMostOnce, Tell
<1>4. ASSUME NEW n \in durable..Len(log), Restart(n) PROVE OrderInv'
  <2>1. Places(durable) \subseteq Places(durable)'
    BY <1>0, <1>4, RestartedLog DEF OrderInv, Restart, Places
  <2>2. TypeOK'
    BY <1>4, RestartedLog DEF OrderInv, TypeOK, Restart
  <2>3. AtMostOnce'
    BY <1>4, RestartedLog DEF OrderInv, AtMostOnce
  <2> QED
    BY <1>4, <2>1, <2>2, <2>3 DEF OrderInv, ToldIsDurable, Restart
<1>5. CASE UNCHANGED vars
  BY <1>5 DEF vars, OrderInv, TypeOK, ToldIsDurable, AtMostOnce, Places
<1> QED
  BY <1>1, <1>2, <1>3, <1>4, <1>5 DEF Next

LEMMA OrderInit == Init => OrderInv
  BY DEF Init, OrderInv, TypeOK, ToldIsDurable, AtMostOnce, Places

(* Whatever the outside was told stays true and durable.                    *)
THEOREM ToldStaysTrue == Spec => []ToldIsDurable
<1>1. OrderInv => ToldIsDurable
  BY DEF OrderInv
<1> QED
  BY <1>1, OrderInit, OrderStep, PTL DEF Spec

(* An operation has one place in the order.                                 *)
THEOREM OnePlaceEach == Spec => []AtMostOnce
<1>1. OrderInv => AtMostOnce
  BY DEF OrderInv
<1> QED
  BY <1>1, OrderInit, OrderStep, PTL DEF Spec
=============================================================================
