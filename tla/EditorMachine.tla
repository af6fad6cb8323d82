--------------------------- MODULE EditorMachine ---------------------------
(***************************************************************************)
(* The editor state machine of packages/ime (editor-state-machine.ts): the *)
(* interpretation of keyboard, composition, input, pointer and focus       *)
(* events of the resident textarea, for every order in which browsers      *)
(* deliver them.                                                           *)
(*                                                                         *)
(* The operators are the handlers: they take a machine and return the      *)
(* machine it becomes with the effects to apply.  A cell is the index of a *)
(* displayed row, the grid having one column, so left, right and Tab are   *)
(* left out.  So are wrap columns (Alt+Enter), and remoteUpdate, which the *)
(* grid never dispatches: conflictCell is always null there.  Texts are    *)
(* sequences.                                                              *)
(***************************************************************************)
EXTENDS Integers, Sequences

NoCell == -1

Phases == {"Navigation", "EditingReplace", "EditingExisting", "Composing",
           "EditingAwaitFinalInput"}

NewMachine(cell) ==
  [phase |-> "Navigation", active |-> cell, draft |-> <<>>, composing |-> FALSE,
   suppress |-> FALSE, nav |-> NoCell, mode |-> "replace", base |-> <<>>,
   saw |-> FALSE, escape |-> FALSE, blurred |-> FALSE]

Outcome(m, effects) == [machine |-> m, effects |-> effects]

Becomes(m) == Outcome(m, <<>>)

(* The effects the grid tells apart.  Leave stands for Move, MoveTo and     *)
(* Cancel, Consume for those that only make the key count as consumed.      *)
BeginEdit(mode, cell, text) == [type |-> "BeginEdit", mode |-> mode, cell |-> cell, value |-> text]
Commit(cell, text)          == [type |-> "Commit", cell |-> cell, value |-> text]
Leave                       == [type |-> "Leave"]
Consume                     == [type |-> "Consume"]

IsComposing(m) == m.composing \/ m.phase = "Composing"

IsEditing(m) == m.phase \in {"EditingReplace", "EditingExisting"}

Awaits(m) == m.phase = "EditingAwaitFinalInput"

BasePhase(m) == IF m.mode = "existing" THEN "EditingExisting" ELSE "EditingReplace"

-----------------------------------------------------------------------------
EnterNavigation(m, cell) == [NewMachine(cell) EXCEPT !.mode = m.mode]

(* commitAndMove, commitAndMoveTo                                           *)
CommitAndMoveTo(m, cell) ==
  Outcome(EnterNavigation(m, cell), <<Commit(m.active, m.draft), Leave>>)

CancelEdit(m) == Outcome(EnterNavigation(m, m.active), <<Leave>>)

BeginReplace(m, phase, text) ==
  [m EXCEPT !.phase = phase, !.mode = "replace", !.draft = text, !.base = <<>>,
            !.nav = NoCell, !.suppress = FALSE]

BeginExisting(m, cell, text) ==
  [m EXCEPT !.active = cell, !.phase = "EditingExisting", !.mode = "existing",
            !.draft = text, !.composing = FALSE, !.suppress = FALSE, !.nav = NoCell, !.base = text]

Moved(cell, key, rows) ==
  IF key = "Up" THEN (IF cell > 0 THEN cell - 1 ELSE 0)
  ELSE IF cell + 1 < rows THEN cell + 1 ELSE IF rows > 0 THEN rows - 1 ELSE 0

-----------------------------------------------------------------------------
(* Keys: Enter, Escape, Up, Down, F2, Delete, Backspace, Character.         *)

KeydownComposing(m, key) ==
  IF key = "Escape" THEN Becomes([m EXCEPT !.escape = TRUE])
  ELSE Outcome(m, IF key \in {"Enter", "Up", "Down"} THEN <<Consume>> ELSE <<>>)

KeydownNavigation(m, key, text, rows) ==
  CASE key \in {"Enter", "Up", "Down"} ->
         Outcome([m EXCEPT !.active = Moved(@, key, rows)], <<Leave>>)
    [] key = "F2" ->
         Outcome(BeginExisting(m, m.active, text), <<BeginEdit("existing", m.active, text)>>)
    [] key = "Delete" -> Outcome(m, <<Commit(m.active, <<>>)>>)
    [] key = "Backspace" ->
         Outcome(BeginReplace(m, "EditingReplace", <<>>), <<BeginEdit("replace", m.active, <<>>)>>)
    [] OTHER -> Becomes(m)

KeydownEditing(m, key, rows) ==
  CASE key = "Enter"  -> CommitAndMoveTo(m, Moved(m.active, "Down", rows))
    [] key = "Escape" -> CancelEdit(m)
    [] OTHER          -> Becomes(m)

(* Slip: the Enter after compositionend is an ordinary Enter.               *)
KeydownWithoutSuppression(m, key, domComposing, text, rows) ==
  IF IsComposing(m) \/ domComposing THEN KeydownComposing(m, key)
  ELSE IF m.phase = "Navigation" THEN KeydownNavigation(m, key, text, rows)
  ELSE KeydownEditing(m, key, rows)

(* The text is that of the active cell, rows the number of rows on display. *)
Keydown(m, key, domComposing, text, rows) ==
  LET n == [m EXCEPT !.suppress = FALSE]
  IN  IF IsComposing(m) \/ domComposing THEN KeydownComposing(m, key)
      ELSE IF m.suppress /\ key = "Enter" THEN Outcome(n, <<Consume>>)
      ELSE IF m.phase = "Navigation" THEN KeydownNavigation(n, key, text, rows)
      ELSE KeydownEditing(n, key, rows)

(* keyup and focus close the suppression window.                            *)
Keyup(m) == Becomes([m EXCEPT !.suppress = FALSE])

-----------------------------------------------------------------------------
CompositionStart(m) ==
  LET n == [m EXCEPT !.escape = FALSE, !.saw = FALSE, !.composing = TRUE]
  IN  IF m.phase = "Navigation"
      THEN Outcome(BeginReplace(n, "Composing", <<>>), <<BeginEdit("replace", m.active, <<>>)>>)
      ELSE IF IsEditing(m)
      THEN Becomes([n EXCEPT !.mode = IF m.phase = "EditingExisting" THEN "existing" ELSE "replace",
                             !.base = m.draft, !.phase = "Composing"])
      ELSE Becomes(n)

CompositionUpdate(m, data) == Outcome([m EXCEPT !.draft = m.base \o data], <<Consume>>)

CompositionCancelled(m) ==
  LET n == [m EXCEPT !.composing = FALSE, !.escape = FALSE, !.suppress = FALSE, !.saw = FALSE]
  IN  IF m.blurred THEN EnterNavigation(n, m.active)
      ELSE [n EXCEPT !.draft = m.base, !.phase = BasePhase(m)]

CompositionEnd(m, data) ==
  IF m.escape THEN Becomes(CompositionCancelled(m))
  ELSE Becomes([m EXCEPT !.composing = FALSE, !.phase = "EditingAwaitFinalInput",
                         !.suppress = TRUE, !.saw = FALSE,
                         !.draft = IF m.saw THEN @ ELSE m.base \o data])

(* The input that ends a composition: it commits for a click or a blur that *)
(* came in between.                                                         *)
FinalInput(m, value) ==
  LET n == [m EXCEPT !.composing = FALSE, !.draft = value]
  IN  IF m.nav # NoCell THEN CommitAndMoveTo(n, m.nav)
      ELSE IF m.blurred
      THEN Outcome(EnterNavigation(n, m.active), <<Commit(m.active, value)>>)
      ELSE Outcome([n EXCEPT !.phase = BasePhase(m)], <<Consume>>)

Input(m, value, domComposing) ==
  IF domComposing THEN Outcome([m EXCEPT !.saw = TRUE, !.draft = value], <<Consume>>)
  ELSE IF m.phase = "Navigation"
  THEN Outcome(BeginReplace(m, "EditingReplace", value), <<BeginEdit("replace", m.active, <<>>)>>)
  ELSE IF m.phase = "Composing" \/ Awaits(m) THEN FinalInput(m, value)
  ELSE Outcome([m EXCEPT !.draft = value], <<Consume>>)

-----------------------------------------------------------------------------
(* A pointerdown outside of the cells selects nothing.                      *)
Pointerdown(m, cell) ==
  LET n == [m EXCEPT !.suppress = FALSE]
  IN  IF cell = NoCell THEN Becomes(n)
      ELSE IF IsComposing(m) \/ Awaits(m) THEN Outcome([n EXCEPT !.nav = cell], <<Consume>>)
      ELSE IF IsEditing(m) THEN CommitAndMoveTo(n, cell)
      ELSE Outcome([n EXCEPT !.active = cell], <<Leave>>)

DoubleClick(m, cell, text) ==
  LET begun == BeginEdit("existing", cell, text)
  IN  IF IsComposing(m) THEN Becomes(m)
      ELSE Outcome(BeginExisting(m, cell, text),
                   IF IsEditing(m) THEN <<Commit(m.active, m.draft), begun>> ELSE <<begun>>)

Blur(m) ==
  LET n == [m EXCEPT !.suppress = FALSE]
  IN  IF IsComposing(m) THEN Becomes(n)
      ELSE IF Awaits(m) THEN Becomes([n EXCEPT !.blurred = TRUE])
      ELSE IF IsEditing(m)
      THEN Outcome(EnterNavigation(m, m.active), <<Commit(m.active, m.draft)>>)
      ELSE Becomes(n)
=============================================================================
