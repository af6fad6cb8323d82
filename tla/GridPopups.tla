----------------------------- MODULE GridPopups -----------------------------
(***************************************************************************)
(* The popups of a grid (mount-controller.ts): the list of candidates and  *)
(* the calendar, opened over the active cell by a key, a click or a double *)
(* click, and the suggestions shown while a cell is edited.  A popup keeps *)
(* the row and the revision it was opened over.  Every row is on screen.   *)
(***************************************************************************)
EXTENDS GridEditor

Quiet(h) == ~IsComposing(h.m) /\ h.m.phase = "Navigation"

CanOpen(h) ==
  /\ ~h.readOnly /\ ~ActiveLocked(h) /\ Quiet(h)
  /\ RowAt(h, h.m.active) # "none"

(* openSelect: char is the key that opened the list, if it writes.          *)
OpenSelect(h, char) ==
  LET row  == RowAt(h, h.m.active)
      list == OpenPicker(row, StartRevision(h.doc, row), TextOf(h, row), h.column.searchable)
  IN  IF ~CanOpen(h) THEN h
      ELSE [h EXCEPT !.popup = FoldLeft(TypeCharacter, list, char)]

OpenDate(h) ==
  LET row == RowAt(h, h.m.active)
  IN  IF ~CanOpen(h) THEN h
      ELSE [h EXCEPT !.popup = OpenCalendar(row, StartRevision(h.doc, row), TextOf(h, row), h.today)]

-----------------------------------------------------------------------------
(* Taking a choice to the document.                                         *)

(* Slip: the choice goes to the row now at the cursor.                      *)
WriteChoiceAtCursor(h, text) ==
  LET target == TargetAt(h, h.m.active, 0)
      closed == ClosePopup(h)
  IN  IF target = NoTarget THEN closed
      ELSE IF text = TextOf(h, target.row) \/ ~Live(h.doc, target.row) THEN closed
      ELSE Submit(closed, FALSE, target, text)

(* The second halves of confirmSelect and confirmDate: the target is that   *)
(* of the opening, what it holds is looked at now.                          *)
WriteChoice(h, text) ==
  LET target == h.popup
      closed == ClosePopup(h)
  IN  IF text = TextOf(h, target.row) \/ ~Live(h.doc, target.row) THEN closed
      ELSE Submit(closed, FALSE, target, text)

(* Slip: the edit under a list of suggestions goes on.                      *)
ConfirmSelectOverEdit(h) ==
  IF ~IsOpen(h.popup) THEN h
  ELSE IF h.readOnly THEN ClosePopup(h)
  ELSE IF h.popup.mode = "suggest" /\ IsComposing(h.m) THEN h
  ELSE IF h.popup.at = 0 THEN ClosePopup(h)
  ELSE WriteChoice(h, h.popup.options[h.popup.at])

(* confirmSelect: the edit under a list of suggestions is taken back first. *)
ConfirmSelect(h) ==
  LET over == h.popup.mode = "suggest" /\ h.m.phase # "Navigation"
      free == IF over THEN Handle(h, Keydown(h.m, "Escape", FALSE, <<>>, Len(h.axis))) ELSE h
  IN  IF ~IsOpen(h.popup) THEN h
      ELSE IF h.readOnly THEN ClosePopup(h)
      ELSE IF h.popup.mode = "suggest" /\ IsComposing(h.m) THEN h
      ELSE IF h.popup.at = 0 THEN ClosePopup(free)
      ELSE WriteChoice(free, h.popup.options[h.popup.at])

ConfirmDate(h, text) ==
  IF ~IsOpen(h.popup) THEN h
  ELSE IF h.readOnly THEN ClosePopup(h)
  ELSE WriteChoice(h, text)

-----------------------------------------------------------------------------
(* interceptKeydown: what a popup makes of a key before the editor sees it. *)

KeyDecision(h, key) ==
  LET open == IsOpen(h.popup)
  IN  IF ~Quiet(h) THEN "none"
      ELSE IF h.column.type = "date" /\ (open \/ ~(h.readOnly \/ ActiveLocked(h)))
      THEN DateKey(key, open, h.column.openOn)
      ELSE IF h.column.type = "select" /\ (open \/ ~ActiveLocked(h))
      THEN SelectKey(key, open, h.column.free)
      ELSE "none"

DecidedDate(h, decision) ==
  CASE decision = "open"    -> OpenDate(h)
    [] decision = "confirm" -> ConfirmDate(h, <<h.popup.day>>)
    [] decision = "cancel"  -> ClosePopup(h)
    [] decision = "consume" -> h
    [] OTHER                -> [h EXCEPT !.popup = MoveDay(@, decision)]

DecidedSelect(h, key, decision) ==
  CASE decision = "open"      -> OpenSelect(h, IF key = "Character" THEN Char ELSE <<>>)
    [] decision = "type"      -> [h EXCEPT !.popup = FoldLeft(TypeCharacter, @, Char)]
    [] decision = "backspace" -> [h EXCEPT !.popup = BackspaceList(@)]
    [] decision = "down"      -> [h EXCEPT !.popup = Highlight(@, @.at + 1)]
    [] decision = "up"        -> [h EXCEPT !.popup = Highlight(@, @.at - 1)]
    [] decision = "confirm"   -> ConfirmSelect(h)
    [] decision = "cancel"    -> ClosePopup(h)
    [] decision = "consume"   -> h

Decided(h, key) ==
  IF h.column.type = "date" THEN DecidedDate(h, KeyDecision(h, key))
  ELSE DecidedSelect(h, key, KeyDecision(h, key))

-----------------------------------------------------------------------------
(* The pointer and the focus.                                               *)

(* pointerdown and pointerup on a cell: any popup is closed; in a column    *)
(* with search a click that closed none opens the list.                     *)
Clicked(h, cell) ==
  LET moved == PointerdownCell(ClosePopup(h), cell)
  IN  IF h.column.searchable /\ ~IsOpen(h.popup) THEN OpenSelect(moved, <<>>) ELSE moved

(* dblclick of the scroller                                                 *)
DoubleClicked(h, cell) ==
  IF h.readOnly \/ RowAt(h, cell) \in h.locked THEN h
  ELSE IF h.column.type = "select" THEN OpenSelect(PointerdownCell(h, cell), <<>>)
  ELSE IF h.column.openOn = "dblclick" THEN OpenDate(PointerdownCell(h, cell))
  ELSE Handle(h, DoubleClick(h.m, cell, TextAt(h, cell)))

(* The search field has the focus while its list is open.                   *)
Searching(h) == h.popup.searchable

BlurGrid(h) == ClosePopup(IF Searching(h) THEN h ELSE BlurEditor(h))

-----------------------------------------------------------------------------
(* The frame.                                                               *)

(* syncSuggestList                                                          *)
SyncSuggestList(h) ==
  LET showing  == h.popup.mode = "suggest"
      eligible == /\ h.m.phase # "Navigation" /\ ~h.readOnly /\ ~ActiveLocked(h)
                  /\ h.column.type = "select" /\ h.column.free
      row      == RowAt(h, h.m.active)
      filtered == FilterByPrefix(h.m.draft)
  IN  IF ~eligible THEN IF showing THEN ClosePopup(h) ELSE h
      ELSE IF h.popup.mode = "picker" \/ row = "none" THEN h
      ELSE IF showing /\ h.popup.key = h.m.draft THEN h
      ELSE IF filtered = <<>> THEN ClosePopup(h)
      ELSE IF showing THEN [h EXCEPT !.popup = [SetOptions(@, filtered) EXCEPT !.key = h.m.draft]]
      ELSE [h EXCEPT !.popup =
              OpenSuggestions(row, StartRevision(h.doc, row), filtered, h.m.draft)]

CloseOverEdit(h) ==
  IF h.popup.mode \in {"picker", "date"} /\ ~Quiet(h) THEN ClosePopup(h) ELSE h

CloseOverNoRow(h) ==
  IF IsOpen(h.popup) /\ h.popup.row \notin ToSet(h.axis) THEN ClosePopup(h) ELSE h

(* refreshSelectPlacement, refreshDatePlacement                             *)
RefreshPopups(h) == CloseOverNoRow(SyncSuggestList(CloseOverEdit(h)))
=============================================================================
