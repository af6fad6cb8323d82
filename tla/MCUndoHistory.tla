--------------------------- MODULE MCUndoHistory ---------------------------
(***************************************************************************)
(* A small instance of UndoHistory: alice has a grid on a sheet of one     *)
(* cell, somebody else writes to it through the server.  The server        *)
(* refuses one of her writes.                                              *)
(***************************************************************************)
EXTENDS UndoHistory

CONSTANTS alice, host, refused, write1, write2, undo1, undo2, redo1, foreign, drop, r1, colA, v1, v2, v3

MCSheet == ApplyOperation(EmptyDocument, InsertRows(Top, <<r1>>), 0)

Write(v) == [type |-> "write", row |-> r1, col |-> colA, value |-> v]

MCEdit ==
  [o \in OpId |-> CASE o = write1  -> Write(v1)
                    [] o = write2  -> Write(v2)
                    [] o \in {foreign, refused} -> Write(v3)
                    [] o = drop    -> DeleteRows(<<r1>>)
                    [] o \in {undo1, undo2} -> [type |-> "undo"]
                    [] o = redo1   -> [type |-> "redo"]]

MCAuthor == [o \in OpId |-> IF o = foreign THEN host ELSE alice]

(* Bound: a refused write and a foreign one count twice.                    *)
FewTogether ==
  Cardinality(Issued) + Cardinality(Issued \cap {refused, foreign}) + spent.breaks <= 5
=============================================================================
