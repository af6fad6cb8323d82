------------------------------ MODULE MCCollab ------------------------------
(***************************************************************************)
(* Small instances of Collab: two users on a sheet of one row and one      *)
(* column, to which rows may be added.                                     *)
(***************************************************************************)
EXTENDS CollabInvariant

CONSTANTS alice, bob, write1, write2, drop, drop2, insert1, insert2, r1, r2, r3, colA, v1, v2

MCSheet == ApplyOperation(EmptyDocument, InsertRows(Top, <<r1>>), 0)

Write(v) == [type |-> "write", row |-> r1, col |-> colA, value |-> v]

MCEdit ==
  [o \in OpId |-> CASE o = write1  -> Write(v1)
                    [] o = write2  -> Write(v2)
                    [] o \in {drop, drop2} -> DeleteRows(<<r1>>)
                    [] o = insert1 -> InsertRows(Top, <<r2>>)
                    [] o = insert2 -> InsertRows(Top, <<r3>>)]

(* bob, if he takes part, makes one deletion and one insertion; everything  *)
(* else is alice's.                                                         *)
MCAuthor ==
  [o \in OpId |-> IF o \in {drop, insert2} /\ bob \in Client THEN bob ELSE alice]

(* Bound: the two users race for the row, or alice edits alone, over edits  *)
(* that are refused, breaks and restarts, and bob stays away.  It stops     *)
(* users, restarts and bob's first connection only.  Where bob never        *)
(* connects Fairness does not hold, so what happens eventually is checked   *)
(* of the race.                                                             *)
Scenes ==
  \/ Issued \subseteq {drop, drop2} /\ spent.restarts = 0
  \/ ~session[bob].hasConnected /\ drop \notin Issued
=============================================================================
