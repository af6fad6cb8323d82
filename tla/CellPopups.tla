----------------------------- MODULE CellPopups -----------------------------
(***************************************************************************)
(* What a column asks of its editor: the column types of column-types.ts,  *)
(* the list of candidates of select-editor.ts with its search, and the     *)
(* calendar of date-editor.ts.  The operators take a popup and return the  *)
(* popup it becomes; GridPopups opens them over a cell and takes what they *)
(* choose to the document.                                                 *)
(*                                                                         *)
(* A text is a sequence of characters, a day <<year, month, day>>; the     *)
(* text of a day is the sequence of that day alone.                        *)
(***************************************************************************)
EXTENDS Integers, Sequences, SequencesExt

CONSTANTS
  Options,   \* the candidates of a select column
  LowerCase, \* what toLowerCase makes of a character, where it changes it
  White      \* characters that are white space

(* What createColumnTypeRegistry accepts; that a candidate is its own       *)
(* display text holds where texts are the values.                           *)
ValidOptions == Options # <<>> /\ \A i, j \in DOMAIN Options : Options[i] = Options[j] => i = j

ASSUME OptionsAssumption == ValidOptions

TextColumn == [type |-> "text", free |-> TRUE, searchable |-> FALSE, openOn |-> "none"]

SelectColumn(free, searchable) ==
  [TextColumn EXCEPT !.type = "select", !.free = free, !.searchable = searchable]

DateColumn(openOn) == [TextColumn EXCEPT !.type = "date", !.openOn = openOn]

(* Slip: the beginning of a candidate passes for one.                       *)
AllowsByPrefix(column, text) ==
  column.free \/ \E i \in DOMAIN Options : IsPrefix(text, Options[i])

(* validateEditorCommit: only what is typed into a strict column is held to *)
(* the candidates, and clearing is always allowed.                          *)
Allows(column, text) == column.free \/ text = <<>> \/ Contains(Options, text)

-----------------------------------------------------------------------------
(* The list of candidates.                                                  *)

Lower(text) == [i \in DOMAIN text |->
                  IF text[i] \in DOMAIN LowerCase THEN LowerCase[text[i]] ELSE text[i]]

Normal(text) == SelectSeq(Lower(text), LAMBDA c : c \notin White)

FilterByPrefix(prefix) == SelectSeq(Options, LAMBDA o : IsPrefix(Lower(prefix), Lower(o)))

FindByPrefix(options, prefix) ==
  IF prefix = <<>> THEN 0
  ELSE SelectInSeq(options, LAMBDA o : IsPrefix(Lower(prefix), Lower(o)))

FilterBySubstring(query) ==
  SelectSeq(Options, LAMBDA o : Normal(query) \in SubSeqs(Normal(o)) \cup {<<>>})

NoDay == <<>>

(* `at` is the place of the highlight, 0 for none; row and start are the    *)
(* cell the popup was opened over, key the draft a suggestion was last      *)
(* filtered by.                                                             *)
NoPopup ==
  [mode |-> "none", row |-> "none", start |-> 0, options |-> <<>>, at |-> 0, prefix |-> <<>>,
   key |-> <<>>, searchable |-> FALSE, query |-> <<>>, composing |-> FALSE,
   day |-> NoDay, month |-> NoDay]

IsOpen(p) == p.mode # "none"

Clamp(options, at) ==
  IF options = <<>> THEN 0 ELSE IF at < 1 THEN 1 ELSE IF at > Len(options) THEN Len(options) ELSE at

OpenPicker(row, start, current, searchable) ==
  [NoPopup EXCEPT !.mode = "picker", !.row = row, !.start = start, !.options = Options,
                  !.at = Clamp(Options, SelectInSeq(Options, LAMBDA o : o = current)),
                  !.searchable = searchable]

(* A list of suggestions highlights nothing: Enter writes what is typed.    *)
OpenSuggestions(row, start, options, draft) ==
  [NoPopup EXCEPT !.mode = "suggest", !.row = row, !.start = start, !.options = options, !.key = draft]

SetOptions(p, options) == [p EXCEPT !.options = options, !.prefix = <<>>, !.at = 0]

Highlight(p, at) == [p EXCEPT !.at = Clamp(p.options, at)]

UpdateSearch(p, query) ==
  Highlight([SetOptions(p, FilterBySubstring(query)) EXCEPT !.query = query], 1)

(* typeCharacter and backspace of a list without a search field.            *)
TypePrefix(p, prefix) == [p EXCEPT !.prefix = prefix, !.at = FindByPrefix(p.options, prefix)]

TypeCharacter(p, char) ==
  IF p.searchable THEN UpdateSearch(p, Append(p.query, char))
  ELSE TypePrefix(p, Append(p.prefix, char))

BackspaceList(p) ==
  IF p.searchable THEN UpdateSearch(p, IF p.query = <<>> THEN <<>> ELSE Front(p.query))
  ELSE IF p.prefix = <<>> THEN p ELSE TypePrefix(p, Front(p.prefix))

-----------------------------------------------------------------------------
(* Days, by the arithmetic of the code and not by a table.                  *)

DaysInMonth(year, month) ==
  LET leap == (year % 4 = 0 /\ year % 100 # 0) \/ year % 400 = 0
  IN  IF month = 2 THEN IF leap THEN 29 ELSE 28
      ELSE IF month \in {4, 6, 9, 11} THEN 30 ELSE 31

IsLocalDate(text) ==
  /\ Len(text) = 1 /\ text[1] \in Seq(Nat) /\ Len(text[1]) = 3
  /\ text[1][2] \in 1..12
  /\ text[1][3] \in 1..DaysInMonth(text[1][1], text[1][2])

(* Slip: every fourth year of an era is a leap year.                        *)
DaysFromCivilJulian(day) ==
  LET y   == IF day[2] <= 2 THEN day[1] - 1 ELSE day[1]
      era == y \div 400
      yoe == y - era * 400
      doy == (153 * ((day[2] + 9) % 12) + 2) \div 5 + day[3] - 1
  IN  era * 146097 + yoe * 365 + yoe \div 4 + doy - 719468

(* The number of a day, counted from 1970-01-01.                            *)
DaysFromCivil(day) ==
  LET y   == IF day[2] <= 2 THEN day[1] - 1 ELSE day[1]
      era == y \div 400
      yoe == y - era * 400
      doy == (153 * ((day[2] + 9) % 12) + 2) \div 5 + day[3] - 1
  IN  era * 146097 + yoe * 365 + yoe \div 4 - yoe \div 100 + doy - 719468

CivilFromDays(days) ==
  LET z   == days + 719468
      era == z \div 146097
      doe == z - era * 146097
      yoe == (doe - doe \div 1460 + doe \div 36524 - doe \div 146096) \div 365
      doy == doe - (365 * yoe + yoe \div 4 - yoe \div 100)
      mp  == (5 * doy + 2) \div 153
      m   == IF mp < 10 THEN mp + 3 ELSE mp - 9
  IN  <<yoe + era * 400 + (IF m <= 2 THEN 1 ELSE 0), m, doy - (153 * mp + 2) \div 5 + 1>>

MinYear == 1
MaxYear == 9999

AddDays(day, delta) ==
  LET moved == CivilFromDays(DaysFromCivil(day) + delta)
  IN  IF moved[1] \in MinYear..MaxYear THEN moved ELSE day

AddMonths(day, delta) ==
  LET total == day[1] * 12 + day[2] - 1 + delta
      y     == total \div 12
      m     == (total % 12) + 1
  IN  IF y \in MinYear..MaxYear
      THEN <<y, m, IF day[3] < DaysInMonth(y, m) THEN day[3] ELSE DaysInMonth(y, m)>> ELSE day

(* 0 is Sunday.                                                             *)
WeekdayOf(day) == (DaysFromCivil(day) + 4) % 7

(* Six weeks from the Sunday on or before the first of the month.           *)
BuildMonthGrid(month) ==
  LET first == <<month[1], month[2], 1>>
      start == AddDays(first, -WeekdayOf(first))
  IN  [i \in 1..42 |-> AddDays(start, i - 1)]

ShowDay(p, day) == [p EXCEPT !.day = day, !.month = <<day[1], day[2]>>]

OpenCalendar(row, start, current, today) ==
  ShowDay([NoPopup EXCEPT !.mode = "date", !.row = row, !.start = start],
          IF IsLocalDate(current) THEN current[1] ELSE today)

-----------------------------------------------------------------------------
(* What a key means to a popup, in Navigation and outside of compositions.  *)

(* decideDateKey                                                            *)
DateKey(key, open, openOn) ==
  IF open
  THEN CASE key = "Left"     -> "left"
         [] key = "Right"    -> "right"
         [] key = "Up"       -> "up"
         [] key = "Down"     -> "down"
         [] key = "PageUp"   -> "previous month"
         [] key = "PageDown" -> "next month"
         [] key = "Enter"    -> "confirm"
         [] key \in {"Escape", "Tab"} -> "cancel"
         [] OTHER            -> "consume"
  ELSE IF key = "AltDown" \/ (openOn = "dblclick" /\ key \in {"F2", "Enter"}) THEN "open"
  ELSE "none"

(* decideSelectKey                                                          *)
SelectKey(key, open, free) ==
  IF open
  THEN CASE key = "Character" /\ ~free -> "type"
         [] key = "Backspace" /\ ~free -> "backspace"
         [] key = "Down"               -> "down"
         [] key = "Up"                 -> "up"
         [] key = "Enter"              -> "confirm"
         [] key \in {"Escape", "Tab"}  -> "cancel"
         [] OTHER                      -> "consume"
  ELSE IF key \in {"F2", "Enter", "AltDown"} \/ (key = "Character" /\ ~free) THEN "open"
  ELSE "none"

MoveDay(p, decision) ==
  CASE decision = "left"           -> ShowDay(p, AddDays(p.day, -1))
    [] decision = "right"          -> ShowDay(p, AddDays(p.day, 1))
    [] decision = "up"             -> ShowDay(p, AddDays(p.day, -7))
    [] decision = "down"           -> ShowDay(p, AddDays(p.day, 7))
    [] decision = "previous month" -> ShowDay(p, AddMonths(p.day, -1))
    [] decision = "next month"     -> ShowDay(p, AddMonths(p.day, 1))
=============================================================================
