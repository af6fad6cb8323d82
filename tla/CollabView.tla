----------------------------- MODULE CollabView -----------------------------
(***************************************************************************)
(* The grid of a user beside a shared document: what session-sync.ts tells *)
(* it of the session's messages, the frames that bring its canvas up to    *)
(* date, the selection, and the operations made of the selection.          *)
(*                                                                         *)
(* Collab's session is that of the user; the other users are what their    *)
(* sessions send: an edit of the document at the durable frontier.  Edits  *)
(* typed into a cell are GridTasks's: here an editor opens and is closed   *)
(* without a change, and neither the pointer nor the API is used meanwhile.*)
(***************************************************************************)
EXTENDS Collab, SheetView

CONSTANTS
  User,       \* the clients with a grid
  MaxActs     \* bound on a user's steps of selecting

ASSUME ViewAssumption == User \subseteq Client /\ MaxActs \in Nat

VARIABLES
  view,     \* user -> the grid
  acts,     \* user -> steps of selecting made so far
  unmarked  \* user -> a message undid row operations without a mark, and no
            \*         frame has rebuilt the axis since (for the properties)

vvars == <<vars, view, acts, unmarked>>

VInit ==
  /\ Init
  /\ view = [c \in User |-> NewGrid]
  /\ acts = [c \in User |-> 0]
  /\ unmarked = [c \in User |-> FALSE]

Shows(c, g) == view' = [view EXCEPT ![c] = g]

-----------------------------------------------------------------------------
(* Selecting.                                                               *)

Positions(g) == (DOMAIN g.axis) \X (DOMAIN ColumnOrder)

(* A step of selecting: the grid becomes g.                                 *)
Acts(c, g) ==
  /\ acts[c] < MaxActs
  /\ acts' = [acts EXCEPT ![c] = @ + 1]
  /\ Shows(c, g)
  /\ UNCHANGED <<vars, unmarked>>

Selecting(c, s) == Acts(c, [view[c] EXCEPT !.selection = s])

(* The pointer goes down on a cell: it becomes the active one and a drag    *)
(* begins.                                                                  *)
Presses(c) ==
  LET g == view[c]
  IN  /\ ~g.pointer /\ ~g.editing
      /\ \E p \in Positions(g) :
           LET cell  == Cell(p[1], p[2])
               moved == Activate([g EXCEPT !.selection = NothingSelected], cell)
           IN  Acts(c, [moved EXCEPT !.pointer = TRUE, !.selection = BeginDrag(@, cell)])

ShiftPresses(c) ==
  LET g == view[c]
  IN  /\ ~g.pointer /\ ~g.editing
      /\ \E p \in Positions(g) : Selecting(c, SetRange(g.selection, g.active, Cell(p[1], p[2])))

Drags(c) ==
  LET g == view[c]
  IN  /\ g.pointer
      /\ \E p \in Positions(g) :
           Shows(c, [g EXCEPT !.selection = UpdateDrag(@, Cell(p[1], p[2]))])
      /\ UNCHANGED <<vars, acts, unmarked>>

(* finishSelectionDrag: the button is released, or the capture is lost.     *)
Releases(c, confirm) ==
  LET g == view[c]
  IN  /\ g.pointer
      /\ Shows(c, [g EXCEPT !.pointer = FALSE,
                            !.selection = IF confirm THEN EndDrag(@) ELSE CancelDrag(@)])
      /\ UNCHANGED <<vars, acts, unmarked>>

Arrow(c, direction) ==
  LET g == view[c]
  IN  /\ ~g.editing
      /\ Acts(c, Activate(g, Neighbour(g.active, direction, Len(g.axis), Len(ColumnOrder))))

ShiftArrow(c, direction) ==
  LET g == view[c]
  IN  /\ ~g.editing
      /\ Selecting(c, ExtendByArrow(g.selection, g.active, direction,
                                    Len(g.axis), Len(ColumnOrder)))

Escapes(c) ==
  /\ ~view[c].editing /\ view[c].selection.range # NoSpan
  /\ Selecting(c, NothingSelected)

OpensEditor(c) ==
  LET g == view[c]
  IN  /\ ~g.editing /\ g.active.row \in DOMAIN g.axis
      /\ Acts(c, [g EXCEPT !.editing = TRUE, !.selection = SyncWithEditor(@, g.active, TRUE)])

ClosesEditor(c) ==
  /\ view[c].editing
  /\ Shows(c, [view[c] EXCEPT !.editing = FALSE])
  /\ UNCHANGED <<vars, acts, unmarked>>

Draws(c) == Frame(view[c], View(session[c]))

(* setActiveCell of the API: a pending change of the axis is brought in     *)
(* first (runOrDefer, performSetActiveCell).                                *)
SetsActiveCell(c, r, col) ==
  LET g     == view[c]
      ready == IF Structure \in g.dirty THEN Draws(c) ELSE g
      row   == SelectInSeq(ready.axis, LAMBDA q : q = r)
  IN  /\ g.drawn /\ ~g.editing
      /\ acts[c] < MaxActs
      /\ acts' = [acts EXCEPT ![c] = @ + 1]
      /\ Shows(c, IF row = 0 THEN ready
                  ELSE Activate([ready EXCEPT !.selection = NothingSelected], Cell(row, col)))
      /\ unmarked' = [unmarked EXCEPT ![c] = @ /\ Structure \notin g.dirty]
      /\ UNCHANGED vars

-----------------------------------------------------------------------------
(* Operations made of the selection.                                        *)

Made(c, e) ==
  LET g    == view[c]
      s    == session[c]
      span == SelectedRange(g.selection, g.active)
  IN  CASE e.type = "clear" -> IF g.selection.range = NoSpan THEN NoOperation
                               ELSE RangeClear(g.axis, s.committed, View(s), span)
        [] e.type = "cut"   -> RangeClear(g.axis, s.committed, View(s), span)
        [] e.type = "paste" -> Paste(g.axis, s.committed, e.matrix, span)
        [] e.type = "insertAbove" -> InsertAbove(g.axis, View(s), g.active, e.rows)
        [] e.type = "deleteSelected" -> DeleteSelected(g.axis, View(s), span)

(* A paste selects what it is about to write.                               *)
Selected(g, e) ==
  IF e.type = "paste"
  THEN SelectRect(g, PasteRect(e.matrix, SelectedRange(g.selection, g.active)))
  ELSE g

Commands(op) ==
  LET c == Author[op]
      operation == Made(c, Edit[op])
  IN  /\ c \in User /\ op \notin Issued
      /\ ~session[c].stopped /\ ~view[c].editing
      /\ operation # NoOperation
      /\ Becomes(c, SubmitLocalOperation(session[c], op, operation))
      /\ issued' = [issued EXCEPT ![c] = Append(@, op)]
      /\ Shows(c, NoteOperation(Selected(view[c], Edit[op]), operation))
      /\ UNCHANGED <<down, late, joined, serverVars, spent, acts, unmarked>>

(* An edit of somebody else reaches the server.                             *)
Foreign == [committed |-> FrontierDocument, pending |-> <<>>]

OthersSubmit(op) ==
  LET c == Author[op]
  IN  /\ c \notin User /\ op \notin Issued
      /\ Editable(Foreign, Edit[op])
      /\ Submitting([op |-> op, client |-> c, seq |-> ExpectedSequence(server, c),
                     base |-> durable, operation |-> OperationOf(Foreign, Edit[op])], None)
      /\ issued' = [issued EXCEPT ![c] = Append(@, op)]
      /\ UNCHANGED <<session, up, late, joined, durable, spent, view, acts, unmarked>>

-----------------------------------------------------------------------------
(* What the session's messages and its connection tell the grid.            *)

(* Slip: a rejection is taken to change values only.                        *)
ToldRejectionAsValues(g, m) ==
  CASE m.type = "bootstrap" -> MarkFullRebuild(g)
    [] m.type = "operations" -> FoldLeft(LAMBDA h, e : NoteOperation(h, e.operation), g, m.entries)
    [] m.type = "operationRejected" -> Mark(g, {Values})
    [] OTHER -> g

(* onServerMessage of session-sync.                                         *)
Told(g, m) ==
  CASE m.type = "bootstrap" -> MarkFullRebuild(g)
    [] m.type = "operations" -> FoldLeft(LAMBDA h, e : NoteOperation(h, e.operation), g, m.entries)
    [] m.type = "operationRejected" -> MarkFullRebuild(g)
    [] OTHER -> g

(* Operations of s on rows that t has given up, or changes of values when   *)
(* nothing at all is marked.                                                *)
UndoneUnmarked(s, t, m, marks) ==
  \E p \in ToSet(s.pending) :
    /\ p.env.op \in {x.op : x \in t.conflicts}
    /\ m.type # "operationRejected"
    /\ DirtyKind(p.env.operation) \notin marks

Receives(c) ==
  /\ down[c] # <<>>
  /\ LET m == Head(down[c])
         s == session[c]
         g == Told(view[c], m)
     IN  /\ Shows(c, g)
         /\ unmarked' = [unmarked EXCEPT ![c] =
              @ \/ UndoneUnmarked(s, HandleServerMessage(s, m), m, g.dirty)]
  /\ Receive(c)
  /\ UNCHANGED acts

Connects(c) ==
  /\ Connect(c)
  /\ Shows(c, IF view[c].sawDisconnect
              THEN [MarkFullRebuild(view[c]) EXCEPT !.sawDisconnect = FALSE] ELSE view[c])
  /\ UNCHANGED <<acts, unmarked>>

Breaks(c, n) ==
  /\ Break(c, n)
  /\ Shows(c, [view[c] EXCEPT !.sawDisconnect = TRUE])
  /\ UNCHANGED <<acts, unmarked>>

(* masterLoop *)
Draw(c) ==
  /\ view[c].dirty # {}
  /\ Shows(c, Draws(c))
  /\ unmarked' = [unmarked EXCEPT ![c] = @ /\ Structure \notin view[c].dirty]
  /\ UNCHANGED <<vars, acts>>

-----------------------------------------------------------------------------
VNext ==
  \/ \E op \in OpId : Commands(op) \/ OthersSubmit(op)
  \/ \E c \in User :
       \/ Presses(c) \/ ShiftPresses(c) \/ Drags(c)
       \/ \E confirm \in BOOLEAN : Releases(c, confirm)
       \/ \E direction \in DOMAIN Step : Arrow(c, direction) \/ ShiftArrow(c, direction)
       \/ Escapes(c) \/ OpensEditor(c) \/ ClosesEditor(c)
       \/ \E r \in DOMAIN server.document.row, col \in DOMAIN ColumnOrder : SetsActiveCell(c, r, col)
       \/ Receives(c) \/ Connects(c) \/ Draw(c)
       \/ \E n \in 0..Len(up[c]) : Breaks(c, n)
  \/ /\ \/ \E c \in User : Resend(c) \/ Poll(c) \/ ServerReceives(c) \/ LateArrives(c)
        \/ Sync \/ Dispatch
     /\ UNCHANGED <<view, acts, unmarked>>

VSpec == VInit /\ [][VNext]_vvars

-----------------------------------------------------------------------------
(* Properties.                                                              *)

(* When no frame is due, the canvas shows the document as the session has   *)
(* it, and the axis its rows: every way the document changes leaves the     *)
(* mark it needs (session-sync.ts, document-view.ts:noteOperation).         *)
UpToDate(c) ==
  LET doc == View(session[c])
  IN  view[c].axis = DisplayRowOrder(doc) /\ view[c].canvas = Painted(view[c].axis, doc)

(* The exception: the reconcile lists of a welcome take a local operation   *)
(* back; the rows it inserted stay on display until the next mark.          *)
DisplayFollowsDocument ==
  \A c \in User : view[c].dirty = {} /\ ~unmarked[c] => UpToDate(c)

SameRow(g, h, a, b) == b.row \in DOMAIN h.axis /\ h.axis[b.row] = g.axis[a.row] /\ a.col = b.col

Keeps(g, h, a, b) == (a.row \in DOMAIN g.axis /\ g.axis[a.row] \in ToSet(h.axis)) => SameRow(g, h, a, b)

(* Whatever others do to the rows, and whenever it shows, the active cell   *)
(* and both ends of a range or a drag stay on the rows the user chose, as   *)
(* long as these exist (captureRebaseState, applyRebaseState, rebaseRows).  *)
SelectionFollowsItsRows ==
  [][\A c \in User :
       LET g == view[c]
           h == view'[c]
           kept(old, new) ==
             old # NoSpan /\ (\A k \in 1..2 : old[k].row \in DOMAIN g.axis
                                               /\ g.axis[old[k].row] \in ToSet(h.axis))
               => new # NoSpan /\ \A k \in 1..2 : SameRow(g, h, old[k], new[k])
       IN  g.axis # h.axis /\ g.drawn /\ UNCHANGED acts =>
             /\ g.editing \/ Keeps(g, h, g.active, h.active)
             /\ kept(g.selection.drag, h.selection.drag)
             /\ \/ g.selection.range # NoSpan /\ g.selection.range[1] # g.active
                \/ kept(g.selection.range, h.selection.range)]_vvars
=============================================================================
