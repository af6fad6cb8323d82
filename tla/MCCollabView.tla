---------------------------- MODULE MCCollabView ----------------------------
(***************************************************************************)
(* A small instance of CollabView: alice has a grid on a sheet of two rows *)
(* and one column; others insert a row on top and delete one of hers.      *)
(***************************************************************************)
EXTENDS CollabView

CONSTANTS alice, others, clear1, paste1, insert1, delete1, push, drop,
          r1, r2, r3, r4, colA, v1, v2

MCSheet ==
  ApplyOperation(ApplyOperation(EmptyDocument, InsertRows(Top, <<r1, r2>>), 0),
                 SetCells(<<[row |-> r2, col |-> colA, before |-> NoBefore, value |-> v1]>>), 0)

MCColumnOrder == <<colA>>

MCEdit ==
  [o \in OpId |-> CASE o = clear1  -> [type |-> "clear"]
                    [] o = paste1  -> [type |-> "paste", matrix |-> <<<<v2>>, <<v1>>>>]
                    [] o = insert1 -> [type |-> "insertAbove", rows |-> <<r3>>]
                    [] o = delete1 -> [type |-> "deleteSelected"]
                    [] o = push    -> InsertRows(Top, <<r4>>)
                    [] o = drop    -> DeleteRows(<<r2>>)]

MCAuthor == [o \in OpId |-> IF o \in {push, drop} THEN others ELSE alice]

(* Bound: two operations, or one and a broken connection.                   *)
FewAtOnce == Cardinality(Issued) + spent.breaks <= 2
=============================================================================
