----------------------------- MODULE GridTasks ------------------------------
(***************************************************************************)
(* The tasks of the event loop around a grid: the inputs of a user, as the *)
(* browser delivers them, the calls of the consumer, timers and frames.    *)
(* An action is one task.  The grid starts after the first draw.           *)
(***************************************************************************)
EXTENDS GridPopups

CONSTANTS
  Row,         \* row ids
  Scene,       \* scene -> the inputs its users and its consumer make
  ColumnOf,    \* scene -> the type of its column
  StartRows,   \* scene -> initialData
  Rows,        \* scene -> what its consumer injects: sequences of [row, value, locked]
  LockedRows,  \* scene -> the same, with locked cells
  Today,       \* scene -> what the browser's clock may say
  MaxInputs,   \* scene -> bound on its inputs
  MaxText      \* bound on the length of a text

ASSUME TasksAssumption == MaxText \in Nat /\ \A s \in DOMAIN Scene : MaxInputs[s] \in Nat

VARIABLES
  g,       \* the grid
  queue,   \* the tasks the browser still runs for a composition it ends
  scene,
  left,    \* inputs left
  event,   \* history: what the last task was about
  asked,   \* history: the lock the consumer has asked for
  choice   \* history: what the last task chose in a popup

gvars == <<g, queue, scene, left, event, asked, choice>>

NoChoice == [made |-> FALSE, text |-> <<>>]

Init ==
  /\ scene \in DOMAIN Scene
  /\ \E today \in Today[scene] :
     g = [doc |-> BuildDocument(0, StartRows[scene]), locked |-> {}, undo |-> NewUndo,
          axis |-> [i \in DOMAIN StartRows[scene] |-> StartRows[scene][i].row], dirty |-> FALSE,
          column |-> ColumnOf[scene], popup |-> NoPopup, today |-> today,
          m |-> NewMachine(0), target |-> NoTarget, edits |-> 0, text |-> <<>>, ime |-> NoIme,
          readOnly |-> FALSE, editorReadOnly |-> FALSE, columnLocked |-> FALSE,
          attribute |-> FALSE, deferred |-> FALSE, lockEdit |-> 0, waiting |-> 0,
          flush |-> "none", settle |-> FALSE, check |-> FALSE, diverted |-> 0,
          idle |-> FALSE]
  /\ queue = <<>> /\ left = MaxInputs[scene] /\ event = "none"
  /\ asked = NoLock /\ choice = NoChoice

(* An input of the user or the consumer.                                    *)
MakesChoosing(name, h, chosen) ==
  /\ left > 0 /\ name \in Scene[scene]
  /\ left' = left - 1 /\ event' = name /\ g' = h
  /\ asked' = CASE name = "readOnly" -> IF asked.on THEN asked
                                        ELSE [on |-> TRUE, edit |-> g.target.edit]
                [] name = "editable" -> NoLock
                [] OTHER             -> asked
  /\ choice' = chosen
  /\ UNCHANGED <<queue, scene>>

Makes(name, h) == MakesChoosing(name, h, NoChoice)

Inserted(text, at) == IF at = "head" THEN Char \o text ELSE text \o Char

KeyPressed(h, key, domComposing) ==
  IF ~domComposing /\ KeyDecision(h, key) # "none" THEN Decided(h, key)
  ELSE Handle(h, Keydown(h.m, key, domComposing, TextAt(h, h.m.active), Len(h.axis)))

(* interceptKeydown: a locked cell is not edited from Navigation.           *)
Suppressed(h, key) ==
  /\ h.readOnly \/ ActiveLocked(h)
  /\ ~h.m.composing /\ h.m.phase = "Navigation"
  /\ key \in {"F2", "Delete", "Backspace"}

(* The choice a popup confirms, if it has one.                              *)
Choice(p) ==
  IF p.mode = "date" THEN [made |-> TRUE, text |-> <<p.day>>]
  ELSE IF p.at # 0 THEN [made |-> TRUE, text |-> p.options[p.at]] ELSE NoChoice

(* Keys that mean nothing to a grid of one column and no popup.             *)
PopupKeys == {"Left", "Right", "Tab", "PageUp", "PageDown", "AltDown"}

Presses(key) ==
  /\ g.ime = NoIme /\ ~Searching(g)
  /\ ~(key = "Backspace" /\ g.m.phase # "Navigation")
  /\ key \in PopupKeys => KeyDecision(g, key) # "none"
  /\ MakesChoosing(key, IF Suppressed(g, key) THEN g ELSE KeyPressed(g, key, FALSE),
                   IF KeyDecision(g, key) = "confirm" THEN Choice(g.popup) ELSE NoChoice)

(* A key that writes: keydown, then the browser changes the textarea.       *)
Types(at) ==
  LET pressed == KeyPressed(g, "Character", FALSE)
      text    == Inserted(pressed.text, at)
      taken   == KeyDecision(g, "Character") # "none"
  IN  /\ g.ime = NoIme /\ ~Searching(g) /\ Len(g.text \o g.popup.prefix) < MaxText
      /\ Makes("Type", IF taken \/ pressed.attribute THEN pressed
                       ELSE Listen([pressed EXCEPT !.text = text], Input(pressed.m, text, FALSE)))

(* A composition begins with its first update.                              *)
Composes(at) ==
  LET started == Listen([g EXCEPT !.ime = [base |-> g.text, at |-> at]], CompositionStart(g.m))
      updated == Listen(started, CompositionUpdate(started.m, Char))
      text    == Inserted(g.text, at)
  IN  /\ g.ime = NoIme /\ ~Searching(g) /\ Len(g.text) < MaxText /\ ~g.attribute
      /\ Makes("Compose", Listen([updated EXCEPT !.text = text], Input(updated.m, text, TRUE)))

(* How browsers end a composition: each element is a task, with its events. *)
Endings ==
  [confirm |-> {<<<<"imeEnter">>, <<"end">>, <<"keyup">>>>,
                <<<<"imeEnter">>, <<"end", "input">>, <<"keyup">>>>,
                <<<<"end", "enter">>, <<"keyup">>>>,
                <<<<"end", "input", "enter">>, <<"keyup">>>>},
   finish  |-> {<<<<"end">>>>, <<<<"end", "input">>>>},
   cancel  |-> {<<<<"imeEscape", "cancel", "end">>, <<"keyup">>>>},
   leave   |-> {<<<<"end", "blur">>>>, <<<<"end", "blur", "input">>>>}]

Ends(way) ==
  /\ g.ime # NoIme /\ left > 0 /\ queue = <<>> /\ way \in Scene[scene]
  /\ queue' \in Endings[way]
  /\ left' = left - 1 /\ event' = way /\ choice' = NoChoice
  /\ UNCHANGED <<g, scene, asked>>

Delivered(h, e) ==
  CASE e = "imeEnter"  -> KeyPressed(h, "Enter", TRUE)
    [] e = "enter"     -> KeyPressed(h, "Enter", FALSE)
    [] e = "imeEscape" -> KeyPressed(h, "Escape", TRUE)
    [] e = "keyup"     -> Handle(h, Keyup(h.m))
    [] e = "blur"      -> BlurGrid(h)
    [] e = "input"     -> Listen(h, Input(h.m, h.text, FALSE))
    [] e = "cancel"    -> Listen([h EXCEPT !.text = h.ime.base], Input(h.m, h.ime.base, TRUE))
    [] e = "end"       -> Listen([h EXCEPT !.ime = NoIme], CompositionEnd(h.m, Char))

Delivers ==
  /\ queue # <<>>
  /\ g' = FoldLeft(Delivered, g, Head(queue))
  /\ queue' = Tail(queue)
  /\ event' = IF ToSet(Head(queue)) \cap {"imeEnter", "enter"} # {} THEN "confirming"
              ELSE IF "cancel" \in ToSet(Head(queue)) THEN "cancelling" ELSE "browser"
  /\ choice' = NoChoice
  /\ UNCHANGED <<scene, left, asked>>

Clicks(cell) == Makes("Click", Clicked(g, cell))

(* The dblclick of the scroller follows two clicks, whose settling has run  *)
(* and which have closed any popup.                                         *)
DoubleClicks(cell) ==
  /\ cell < Len(g.axis) /\ ~Awaits(g.m)
  /\ Makes("DoubleClick", DoubleClicked(ClosePopup(g), cell))

(* The pointer on a list: the option under it is highlighted, pressing      *)
(* chooses it.                                                              *)
Points(at) ==
  LET on == [g EXCEPT !.popup = Highlight(@, at)]
  IN  /\ at \in DOMAIN g.popup.options /\ ~g.popup.composing
      /\ \/ Makes("Hover", on)
         \/ MakesChoosing("Choose", ConfirmSelect(on), Choice(on.popup))

(* The days of the calendar the pointer presses.                            *)
PressedDays(month) == {BuildMonthGrid(month)[i] : i \in {1, 20, 42}}

(* A day, today or clear; the next month; the icon of a date cell.          *)
PressesCalendar ==
  /\ g.column.type = "date"
  /\ \/ /\ IsOpen(g.popup)
        /\ \/ \E text \in {<<day>> : day \in PressedDays(g.popup.month) \cup {g.today}} \cup {<<>>} :
                MakesChoosing("Day", ConfirmDate(g, text), [made |-> TRUE, text |-> text])
           \/ \E turn \in {"previous month", "next month"} :
                Makes("Month", [g EXCEPT !.popup = MoveDay(@, turn)])
     \/ CanOpen(g) /\ Makes("Icon", OpenDate(g))

(* Keys and texts of the search field; a composition changes the list only  *)
(* at its end, and its keys are no commands.                                *)
Searches ==
  LET p == g.popup
  IN  /\ Searching(g)
      /\ \/ /\ ~p.composing
            /\ \/ \E step \in {-1, 1} : Makes("Search", [g EXCEPT !.popup = Highlight(p, p.at + step)])
               \/ Makes("Search", ClosePopup(g))
               \/ MakesChoosing("Search", ConfirmSelect(g), Choice(p))
               \/ /\ Len(p.query) < MaxText
                  /\ \/ Makes("Search", [g EXCEPT !.popup = FoldLeft(TypeCharacter, p, Char)])
                     \/ Makes("Search", [g EXCEPT !.popup.composing = TRUE])
               \/ p.query # <<>> /\ Makes("Search", [g EXCEPT !.popup = BackspaceList(p)])
         \/ /\ p.composing
            /\ Makes("Search", [g EXCEPT !.popup = FoldLeft(TypeCharacter, [p EXCEPT !.composing = FALSE], Char)])

Undoes(direction) ==
  /\ g.ime = NoIme /\ g.m.phase = "Navigation"
  /\ ~Searching(g) /\ KeyDecision(g, direction) = "none"
  /\ Makes(direction, PerformUndoRedo(g, direction))

Consumer ==
  \/ \E rows \in Rows[scene] : Makes("setData", SetData(g, rows)) \/ Makes("setRows", SetRows(g, rows))
  \/ \E row \in Row : Makes("insert", InsertRow(g, Top, row)) \/ Makes("delete", DeleteRow(g, row))
  \/ \E row \in Row : Makes("setActiveCell", SetActiveCell(g, row))
  \/ \E rows \in LockedRows[scene] : Makes("lockRows", SetRows(g, rows))
  \/ Makes("readOnly", SetReadOnly(g)) \/ Makes("editable", SetEditable(g))
  \/ g.flush # "waiting" /\ Makes("flush", FlushCalled(g))

Timer ==
  /\ \/ /\ g.settle /\ event' = "settle" /\ g' = SettleAwaiting([g EXCEPT !.settle = FALSE])
     \/ /\ g.check /\ event' = "check"
        /\ g' = EvaluateFlush(EvaluateDeferred([g EXCEPT !.check = FALSE]))
     \/ /\ g.flush = "waiting" /\ event' = "timeout"
        /\ g' = [g EXCEPT !.flush = "timeout", !.waiting = 0]
     \/ LET shown == RefreshPopups(IF g.dirty THEN FlushStructural(g) ELSE g)
        IN  shown # g /\ event' = "paint" /\ g' = shown
  /\ choice' = NoChoice
  /\ UNCHANGED <<queue, scene, left, asked>>

(* A user's next input waits for the events of the last one.                *)
User ==
  /\ queue = <<>>
  /\ \/ \E key \in {"Enter", "Escape", "Up", "Down", "F2", "Delete", "Backspace"} \cup PopupKeys :
          Presses(key)
     \/ \E at \in {"head", "tail"} : Types(at) \/ Composes(at)
     \/ \E way \in DOMAIN Endings : Ends(way)
     \/ \E cell \in 0..Len(g.axis)-1 : Clicks(cell) \/ DoubleClicks(cell)
     \/ \E at \in DOMAIN g.popup.options : Points(at)
     \/ PressesCalendar
     \/ Searches
     \/ Makes("Blur", BlurGrid(g))
     \/ \E direction \in {"undo", "redo"} : Undoes(direction)

Next == User \/ Delivers \/ Consumer \/ Timer

Spec == Init /\ [][Next]_gvars

-----------------------------------------------------------------------------
(* Properties.                                                              *)

EditEnds == g.target # NoTarget /\ g'.target # g.target

(* What the user sees typed is what the sheet gets.  When an edit ends in   *)
(* any way but Escape, the text on display is the value of the row on which *)
(* the edit began, wherever that row now is; or the row is gone, and the    *)
(* consumer is told (onCellCommit with a dead target); or it is locked; or  *)
(* the column does not allow the text.  Not where a suggestion is under the *)
(* pointer and an Enter delivered after the end of the composition takes it *)
(* for confirmed.                                                           *)
TypedTextReachesItsCell ==
  [][EditEnds /\ event' \notin {"Escape", "cancelling", "Choose"}
     /\ ~(event' = "confirming" /\ g.popup.at # 0) =>
       LET row == g.target.row
       IN  \/ /\ Live(g'.doc, row)
              /\ \/ TextOf(g', row) = g.text
                 \/ event' = "Type" /\ TextOf(g', row) \in {Inserted(g.text, at) : at \in {"head", "tail"}}
           \/ ~Live(g'.doc, row) /\ g'.diverted = g.diverted + 1
           \/ row \in g'.locked
           \/ ~Allows(g.column, g.text) /\ TextOf(g', row) = TextOf(g, row)]_gvars

(* What is chosen in a popup goes to the row over which it was opened, also *)
(* when rows have moved since, and to no other; an edit that was open under *)
(* a list of suggestions ends and does not write over the choice.  Unless   *)
(* the row is gone or locked, or the grid is locked, or the edit composes,  *)
(* or an edit has begun under another popup and the frame that closes the   *)
(* popup is still to come.                                                  *)
ChoiceReachesItsCell ==
  [][choice'.made /\ ~g.readOnly
     /\ (Quiet(g) \/ (g.popup.mode = "suggest" /\ ~IsComposing(g.m))) =>
       LET row == g.popup.row
       IN  /\ g'.target = NoTarget /\ g'.popup = NoPopup
           /\ Live(g.doc, row) /\ row \notin g.locked => TextOf(g', row) = choice'.text
           /\ \A other \in Row \ {row} :
                Live(g.doc, other) => TextOf(g', other) = TextOf(g, other)]_gvars

(* A strict column holds its candidates, blanks and what the consumer       *)
(* injects: nothing typed or composed, nor an undo, gets past the list.     *)
HoldsChoices ==
  g.column.free \/
  \A row \in Row : Live(g.doc, row) =>
    TextOf(g, row) \in ToSet(Options) \cup {<<>>}
      \cup {item.value : item \in UNION {ToSet(rows) : rows \in Rows[scene] \cup {StartRows[scene]}}}

StrictCellHoldsChoices == [][HoldsChoices']_gvars

(* What a user types or chooses reaches the cell it was meant for, and only *)
(* what the column allows reaches it.                                       *)
InputReachesItsCell ==
  TypedTextReachesItsCell /\ ChoiceReachesItsCell /\ StrictCellHoldsChoices

(* The Enter that confirms the composition of an edit does nothing else,    *)
(* whichever of keydown, compositionend and input the browser delivers      *)
(* first: unless a click or a blur already waits to commit, it writes       *)
(* nothing, moves nowhere and leaves the cell in editing.                   *)
ConfirmingEnterStays ==
  [][event' = "confirming" /\ g.target # NoTarget /\ g.m.nav = NoCell /\ ~g.m.blurred =>
       /\ g'.doc = g.doc
       /\ g'.m.active = g.m.active
       /\ g'.target = g.target]_gvars

(* Once the consumer has asked for read-only the user changes nothing more, *)
(* except that the edit then open is written, once.  A locked cell changes  *)
(* by an injection only, also when its edit began before the lock.          *)
LockHolds ==
  [][g'.doc # g.doc /\ event' \notin {"setData", "setRows", "lockRows"} =>
       /\ asked.on => /\ asked.edit # 0 /\ g.target.edit = asked.edit
                      /\ g'.target.edit # asked.edit
                      /\ g'.doc.revision = g.doc.revision + 1
       /\ \A row \in g.locked : TextOf(g', row) = TextOf(g, row)]_gvars

(* flush answers "flushed" only when the edit open at the call is over,     *)
(* also when it was composing.                                              *)
FlushSavesTheEdit ==
  [][event' \in {"flush", "check"} /\ g'.flush = "flushed" =>
       LET edit == IF event' = "flush" THEN g.target.edit ELSE g.waiting
       IN  edit = 0 \/ g'.target.edit # edit]_gvars

(* What the stacks say of a cell nobody wrote since is what the cell holds: *)
(* an undo takes back, and a redo brings back, the value on display.  A     *)
(* commit of the value already there is the exception: it gives the cell a  *)
(* revision and no entry, the next undo is refused for it and its entry     *)
(* dropped, and the entries below no longer fit.                            *)
HistoryFitsDocument ==
  ~g.idle => \A direction \in {"undo", "redo"} :
    StackOf(g.undo, direction) # <<>> =>
      \A p \in ToSet(Last(StackOf(g.undo, direction)).patches) :
        /\ Live(g.doc, p.row)
        /\ OwnedRevision(g.undo, p.row, p.col) = CellRevision(g.doc, p.row, p.col)
        => TextOf(g, p.row) = IF direction = "undo" THEN p.after ELSE p.before

-----------------------------------------------------------------------------
(* The calendar against one counted day by day, and against Sakamoto's rule *)
(* for the day of the week.                                                 *)
NextDay(day) ==
  IF day[3] < DaysInMonth(day[1], day[2]) THEN <<day[1], day[2], day[3] + 1>>
  ELSE IF day[2] < 12 THEN <<day[1], day[2] + 1, 1>> ELSE <<day[1] + 1, 1, 1>>

Weekday(day) ==
  LET y == IF day[2] < 3 THEN day[1] - 1 ELSE day[1]
  IN  (y + y \div 4 - y \div 100 + y \div 400
         + <<0, 3, 2, 5, 0, 3, 5, 1, 4, 6, 2, 4>>[day[2]] + day[3]) % 7

(* The calendar shows consecutive days from a Sunday on, among them the     *)
(* whole month and the highlighted day, which is a day that exists.  The    *)
(* first and the last month there are are cut off at their ends.            *)
CalendarIsRight ==
  g.popup.mode = "date" /\ g.popup.month \notin {<<1, 1>>, <<9999, 12>>} =>
    LET month == g.popup.month
        days  == BuildMonthGrid(month)
    IN  /\ IsLocalDate(<<g.popup.day>>)
        /\ Weekday(days[1]) = 0
        /\ \A i \in 1..41 : days[i + 1] = NextDay(days[i])
        /\ {<<month[1], month[2], 1>>, g.popup.day} \subseteq ToSet(days)
        /\ <<month[1], month[2], DaysInMonth(month[1], month[2])>> \in ToSet(days)
=============================================================================
