---------------------------- MODULE MCGridEditor ----------------------------
(***************************************************************************)
(* A small instance of GridTasks: two rows on display, a third that can be *)
(* inserted, texts of at most two characters.  Each scene takes the inputs *)
(* that bear on one another.                                               *)
(***************************************************************************)
EXTENDS GridTasks

CONSTANTS r1, r2, r3, colA, chA, chUpper, chSpace, chX, chY

Item(row, value, locked) == [row |-> row, value |-> value, locked |-> locked]

MCChar == <<chA>>
MCBlank == <<>>
MCLowerCase == [c \in {chUpper} |-> chA]
MCWhite == {chSpace}

(* Two candidates begin with the character typed, one of them in upper      *)
(* case and found by its middle.                                            *)
MCOptions == <<<<chY>>, <<chA, chA>>, <<chUpper, chSpace, chA>>>>

MCScene ==
  [typing  |-> {"Compose", "Type", "confirm", "finish", "leave", "Enter", "Escape", "F2",
                "Click", "DoubleClick", "insert", "delete"},
   cancel  |-> {"Compose", "Type", "cancel", "Enter", "Escape", "Up", "F2", "Backspace", "Blur", "Click"},
   locking |-> {"Compose", "Type", "confirm", "finish", "Enter", "readOnly", "editable", "flush",
                "Click", "undo"},
   cells   |-> {"Type", "Enter", "F2", "Delete", "Click", "DoubleClick", "lockRows", "flush"},
   history |-> {"Type", "Enter", "Up", "Down", "Delete", "undo", "redo", "setRows", "setData",
                "insert", "delete", "setActiveCell"},
   strict  |-> {"Type", "Enter", "Tab", "F2", "Down", "Up", "Backspace", "Compose", "confirm", "leave",
                "Click", "DoubleClick", "Choose", "setRows", "insert", "delete"},
   free    |-> {"Type", "Compose", "confirm", "Enter", "Escape", "AltDown",
                "Choose", "Click", "insert", "delete", "readOnly"},
   locked  |-> {"Type", "Enter", "F2", "Choose", "Hover", "Click", "lockRows", "setActiveCell", "flush"},
   search  |-> {"Type", "Search", "Hover", "Choose", "Click", "F2", "undo", "Blur"},
   date    |-> {"Type", "Enter", "AltDown", "Left", "Up", "PageUp", "PageDown", "Escape", "Day", "Month",
                "Icon", "DoubleClick", "insert", "setData", "readOnly"}]

Editing == DOMAIN MCScene \ {"strict", "free", "locked", "search", "date"}

MCColumnOf ==
  [s \in DOMAIN MCScene |->
     CASE s = "strict" -> SelectColumn(FALSE, FALSE)
       [] s \in {"free", "locked"} -> SelectColumn(TRUE, FALSE)
       [] s = "search" -> SelectColumn(FALSE, TRUE)
       [] s = "date"   -> DateColumn("dblclick")
       [] OTHER        -> TextColumn]

MCMaxInputs ==
  [typing |-> 5, cancel |-> 6, locking |-> 6, cells |-> 6, history |-> 5,
   strict |-> 4, free |-> 4, locked |-> 6, search |-> 7, date |-> 4]

MCStartRows ==
  [s \in DOMAIN MCScene |->
     IF s = "date" THEN <<Item(r1, <<<<2024, 2, 29>>>>, FALSE), Item(r2, <<>>, FALSE)>>
     ELSE <<Item(r1, <<chX>>, FALSE), Item(r2, <<>>, FALSE)>>]

MCRows ==
  [s \in DOMAIN MCScene |->
     IF s = "date"
     THEN {<<Item(r3, <<>>, FALSE), Item(r1, <<<<2023, 2, 29>>>>, FALSE)>>}
     ELSE {<<Item(r1, <<chY>>, FALSE)>>, <<Item(r3, <<>>, FALSE), Item(r1, <<chX>>, FALSE)>>}]

MCLockedRows ==
  [s \in DOMAIN MCScene |->
     {<<Item(r1, <<chX>>, TRUE)>>, <<Item(r1, <<chX>>, FALSE), Item(r2, <<>>, TRUE)>>}]

(* Ends of months, of leap and other years, of the era and of the calendar, *)
(* and the last day before the count of days begins.                        *)
MCToday ==
  [s \in DOMAIN MCScene |->
     IF s = "date"
     THEN {<<1, 2, 1>>, <<1900, 2, 28>>, <<1969, 12, 31>>, <<2000, 3, 31>>, <<9999, 11, 30>>}
     ELSE {<<1970, 1, 1>>}]
=============================================================================
