------------------------- MODULE MCHostedDocuments -------------------------
(***************************************************************************)
(* Three kinds of serve.  "any": one document in memory under every        *)
(* operation of one or two changes or rows.  "hooks": a document whose     *)
(* stores the consumer gives and one in memory, few operations, both hooks *)
(* set.  "opt1".."opt7": one document with any options that go together,   *)
(* restarted.  Injected stores with restoreFrom, which only a program      *)
(* inside the repository can ask for, are left out.                        *)
(***************************************************************************)
EXTENDS HostedDocuments, TLC

CONSTANTS keptDoc, memoryDoc, colA

MCOptions ==
  ("opt1" :> {}) @@ ("opt2" :> {"persistenceDir"}) @@ ("opt3" :> {"seedRows", "persistenceDir"})
  @@ ("opt4" :> {"initialDocument", "persistenceDir"}) @@ ("opt5" :> {"restoreFrom", "seedRows"})
  @@ ("opt6" :> Injected) @@ ("opt7" :> Injected \cup {"initialDocument"})
  @@ ("opt8" :> {"persistenceDir", "restoreFrom"})

MCScene == {"any", "hooks"} \cup DOMAIN MCOptions

MCServedWith ==
  [s \in MCScene |->
     CASE s = "any"   -> (memoryDoc :> {"seedRows"})
       [] s = "hooks" -> (keptDoc :> Injected \cup {"initialDocument"}) @@ (memoryDoc :> {"initialDocument"})
       [] OTHER       -> (keptDoc :> MCOptions[s])]

OneRow(rows) == {<<[row |-> r, cells |-> (colA :> v)]>> : r \in rows, v \in Value}

MCFirstRows ==
  [s \in MCScene |->
     CASE s = "any"   -> {<<>>}
       [] s = "hooks" -> OneRow({SeedRow})
       [] OTHER       -> OneRow(Row) \cup {<<>>}]

Changes == [row : Row, col : Column, before : {NoBefore} \cup 0..1, value : Value]

UpToTwo(S) == [1..1 -> S] \cup [1..2 -> S]

AnyOperation ==
  {SetCells(cs) : cs \in UpToTwo(Changes)}
  \cup {InsertRows(a, rs) : a \in Row \cup {Top}, rs \in {<<>>} \cup UpToTwo(Row)}
  \cup {DeleteRows(rs) : rs \in UpToTwo(Row)}

Change(r, b, v) == [row |-> r, col |-> colA, before |-> b, value |-> v]

MCClientOperation ==
  [s \in MCScene |->
     CASE s = "any"   -> AnyOperation
       [] s = "hooks" -> {SetCells(<<Change(SeedRow, b, v)>>) : b \in {NoBefore, 0}, v \in Value}
                         \cup {DeleteRows(<<SeedRow>>)}
       [] OTHER       -> {InsertRows(Top, <<r>>) : r \in Row}]

MCServerOperation ==
  [s \in MCScene |->
     CASE s = "any"   -> {}
       [] s = "hooks" -> {SetCells(<<Change(SeedRow, NoBefore, v), Change(SeedRow, NoBefore, w)>>) :
                            v, w \in Value}
       [] OTHER       -> {SetCells(<<Change(r, NoBefore, v)>>) : r \in Row, v \in Value \cup {Blank}}]

MCMaxSubmits == [s \in MCScene |-> IF s \in {"any", "hooks"} THEN 3 ELSE 2]

MCMaxRestarts == [s \in MCScene |-> IF s \in {"any", "hooks"} THEN 0 ELSE 1]

Symmetry == Permutations(Row) \cup Permutations(Value)
=============================================================================
