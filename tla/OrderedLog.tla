----------------------------- MODULE OrderedLog -----------------------------
(***************************************************************************)
(* What a durable document promises to the outside, with nothing said of   *)
(* frames, batches, queues or files: one total order of operations in which*)
(* an operation occurs at most once, a durable part of it that a restart   *)
(* never takes back, and an outside world that is told only of operations  *)
(* in the durable part, at their place in the order.                       *)
(***************************************************************************)
EXTENDS Integers, Sequences

CONSTANT Op

VARIABLES
  log,      \* the order: a sequence of operations
  durable,  \* how many of them survive a restart
  told      \* <<operation, place>> pairs the outside has been told

vars == <<log, durable, told>>

Places(k) == {<<log[i], i>> : i \in 1..k}

Init ==
  /\ log = <<>>
  /\ durable = 0
  /\ told = {}

(* An operation takes the next place.                                       *)
Accept(o) ==
  /\ \A i \in DOMAIN log : log[i] # o
  /\ log' = Append(log, o)
  /\ UNCHANGED <<durable, told>>

(* A longer part of the order becomes durable.                              *)
Harden ==
  /\ durable' \in durable..Len(log)
  /\ UNCHANGED <<log, told>>

(* The outside learns of operations in the durable part.                    *)
Tell ==
  /\ told \subseteq told'
  /\ told' \subseteq told \cup Places(durable)
  /\ UNCHANGED <<log, durable>>

(* A restart keeps the durable part and any further part that happened to   *)
(* reach the disk.                                                          *)
Restart(n) ==
  /\ log' = SubSeq(log, 1, n)
  /\ durable' = n
  /\ UNCHANGED told

Next ==
  \/ \E o \in Op : Accept(o)
  \/ Harden
  \/ Tell
  \/ \E n \in durable..Len(log) : Restart(n)

Spec == Init /\ [][Next]_vars
-----------------------------------------------------------------------------
TypeOK ==
  /\ log \in Seq(Op)
  /\ durable \in 0..Len(log)
  /\ told \subseteq Op \X (Nat \ {0})

(* Whatever the outside was told is still true: the operation is at that    *)
(* place of the durable part (oplog-store.ts:2-3).                          *)
ToldIsDurable == told \subseteq Places(durable)

(* No operation has two places.                                             *)
AtMostOnce == \A i, j \in DOMAIN log : log[i] = log[j] => i = j
=============================================================================
