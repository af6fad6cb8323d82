---------------------------- MODULE MCDurableRoom ----------------------------
(***************************************************************************)
(* Small instances of DurableRoom: a sheet of one row and one column; two  *)
(* clients whose operations race on the same cell and the same row.        *)
(***************************************************************************)
EXTENDS DurableRoomInvariant

CONSTANTS alice, bob, server, set1, set2, drop1, drop2, r1, colA, v1, v2

(* document@0 with the row r1, as the consumer's initialDocument builds it. *)
MCInitialDocument ==
  ApplyOperation(EmptyDocument, InsertRows(Top, <<r1>>), 0)

Write(before, v) == SetCells(<<[row |-> r1, col |-> colA, before |-> before, value |-> v]>>)

MCContent ==
  [o \in OpId |-> CASE o = set1 -> Write(NoBefore, v1)
                    [] o = set2 -> Write(0, v2)
                    [] OTHER    -> DeleteRows(<<r1>>)]

MCOwner ==
  [o \in OpId |-> IF o = drop2 THEN server ELSE alice]
=============================================================================
