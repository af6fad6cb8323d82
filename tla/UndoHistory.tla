---------------------------- MODULE UndoHistory ----------------------------
(***************************************************************************)
(* Undo and redo on a shared document: the clients of Collab with the undo *)
(* controller that mount-controller.ts puts beside each session, and the   *)
(* submits the server makes itself (ServerInstance.submit).                *)
(*                                                                         *)
(* An element of OpId whose edit is "undo" or "redo" is a press of Ctrl+Z  *)
(* or Ctrl+Y; the compensation it submits carries that id.                 *)
(***************************************************************************)
EXTENDS Collab, UndoStack

CONSTANT User    \* the clients with a grid; the others submit on the server

ASSUME UserAssumption == User \subseteq Client

VARIABLE undo    \* client -> its undo controller

uvars == <<vars, undo>>

Directions == {"undo", "redo"}

IsCompensation(op) == Edit[op].type \in Directions

UInit == Init /\ undo = [c \in User |-> NewUndo]

-----------------------------------------------------------------------------
(* What a session tells the controller.                                     *)

ConflictedOps(s) == {x.op : x \in s.conflicts}

(* The observer's "rejected" events of a step of the session.               *)
NewlyRejected(s, t) == SetToSeq(ConflictedOps(t) \ ConflictedOps(s))

ToldRejections(u, s, t) == FoldLeft(OnRejected, u, NewlyRejected(s, t))

OwnSetCells(c, entries) ==
  SelectSeq(entries, LAMBDA e : e.client = c /\ e.operation.type = "setCells")

(* session-sync: the session handles a message first, then every own write  *)
(* in an operations message is told to the controller.                      *)
Told(u, c, m, s, t) ==
  LET rejected == ToldRejections(u, s, t)
  IN  IF m.type = "operations"
      THEN FoldLeft(LAMBDA v, e : OnCommitted(v, e.op, e.rev), rejected, OwnSetCells(c, m.entries))
      ELSE rejected

-----------------------------------------------------------------------------
(* The user.                                                                *)

(* Slip: a write that was refused at once is recorded like any other.       *)
RecordedRegardless(u, s, t, op) ==
  LET operation == OperationOf(s, Edit[op])
      told      == ToldRejections(u, s, t)
  IN  IF operation.type = "setCells"
      THEN RecordUserOp(told, op, CapturedPatches(View(s), operation))
      ELSE told

(* submitSetCells: the patches are taken from the view before the submit,   *)
(* the entry is recorded after it, unless the submit was refused at once.   *)
RecordedEdit(u, s, t, op) ==
  LET operation == OperationOf(s, Edit[op])
      told      == ToldRejections(u, s, t)
  IN  IF operation.type = "setCells" /\ \E p \in ToSet(t.pending) : p.env.op = op
      THEN RecordUserOp(told, op, CapturedPatches(View(s), operation))
      ELSE told

Edits(op) ==
  LET c == Author[op]
      s == session[c]
  IN  /\ c \in User /\ ~IsCompensation(op)
      /\ EditLocally(op)
      /\ undo' = [undo EXCEPT ![c] =
                    RecordedEdit(@, s, SubmitLocalOperation(s, op, OperationOf(s, Edit[op])), op)]

(* Slip: the compensation carries no beforeRevision.                        *)
CompensationUnchecked(c, direction) ==
  [Compensation(undo[c], direction) EXCEPT
     !.changes = [i \in DOMAIN @ |-> [@[i] EXCEPT !.before = NoBefore]]]

CompensationOf(c, direction) == Compensation(undo[c], direction)

(* performUndo and performRedo, submitCompensation: a compensation that is  *)
(* already refused by committed is given up without a submit.               *)
UndoOrRedo(op) ==
  LET c         == Author[op]
      direction == Edit[op].type
      s         == session[c]
      operation == CompensationOf(c, direction)
  IN  /\ c \in User /\ IsCompensation(op) /\ op \notin Issued
      /\ ~s.stopped
      /\ Can(undo[c], direction, Len(s.pending))
      /\ IF Violations(s.committed, operation) # {}
         THEN /\ undo' = [undo EXCEPT ![c] = Block(Begin(@, direction, op))]
              /\ UNCHANGED <<session, up, issued>>
         ELSE /\ undo' = [undo EXCEPT ![c] = Begin(@, direction, op)]
              /\ Becomes(c, SubmitLocalOperation(s, op, operation))
              /\ issued' = [issued EXCEPT ![c] = Append(@, op)]
      /\ UNCHANGED <<down, late, joined, serverVars, spent>>

Receives(c) ==
  /\ down[c] # <<>>
  /\ undo' = [undo EXCEPT ![c] =
       Told(@, c, Head(down[c]), session[c], HandleServerMessage(session[c], Head(down[c])))]
  /\ Receive(c)

-----------------------------------------------------------------------------
(* submit of the server instance: a setCells, here without beforeRevision,  *)
(* numbered and submitted in one step.                                      *)
ServerWrite(e) ==
  SetCells(<<[row |-> e.row, col |-> e.col, before |-> NoBefore, value |-> e.value]>>)

ServerSubmits(op) ==
  LET c == Author[op]
  IN  /\ c \notin User /\ op \notin Issued /\ Edit[op].type = "write"
      /\ Submitting([op |-> op, client |-> c, seq |-> ExpectedSequence(server, c),
                     base |-> server.currentRevision,
                     operation |-> ServerWrite(Edit[op])], None)
      /\ issued' = [issued EXCEPT ![c] = Append(@, op)]
      /\ UNCHANGED <<session, up, late, joined, durable, spent, undo>>

UNext ==
  \/ \E op \in OpId : Edits(op) \/ UndoOrRedo(op) \/ ServerSubmits(op)
  \/ \E c \in User : Receives(c)
  \/ /\ \/ \E c \in User :
             \/ Resend(c) \/ Poll(c) \/ GiveUp(c) \/ Connect(c)
             \/ ServerReceives(c) \/ LateArrives(c)
             \/ \E n \in 0..Len(up[c]) : Break(c, n)
        \/ Sync \/ Dispatch
     /\ UNCHANGED undo

USpec == UInit /\ [][UNext]_uvars

-----------------------------------------------------------------------------
(* Properties.                                                              *)

(* The type invariant of the controllers.                                   *)
UndoTypeOK == \A c \in User : ControllerOK(undo[c])

Log == server.operationLog

Writes(i, r, c) ==
  /\ Log[i].operation.type = "setCells"
  /\ \E k \in DOMAIN Log[i].operation.changes :
       Log[i].operation.changes[k].row = r /\ Log[i].operation.changes[k].col = c

WrittenByOthers(c, i, r, col) == \E j \in 1..i : Writes(j, r, col) /\ Log[j].client # c

LastWrite(i, r, c) == Max({0} \cup {j \in 1..i : Writes(j, r, c)})

LoggedCompensations(type) == {i \in DOMAIN Log : Edit[Log[i].op].type \in type}

(* A compensation that reached the log covers nothing but a write of its    *)
(* own user: ownership, taken from acknowledgements that may come late, out *)
(* of a bootstrap or not at all, is never claimed for somebody else's write *)
(* (undo-stack.ts, markEntryAcked and buildCompensation).                   *)
UndoCoversOnlyOwnWrites ==
  \A i \in LoggedCompensations(Directions) :
    \A ch \in ToSet(Log[i].operation.changes) :
      LET j == LastWrite(i - 1, ch.row, ch.col)
      IN  j > 0 /\ Log[j].client = Log[i].client

(* The undo history of a cell that a single user writes, from the log      *)
(* alone: a write can be undone, an undone one redone until the next write. *)
EndOf(seq) == IF seq = <<>> THEN <<>> ELSE <<Last(seq)>>

Pop(seq) == IF seq = <<>> THEN <<>> ELSE Front(seq)

LoggedStep(h, i) ==
  IF ~IsCompensation(Log[i].op) THEN [undo |-> Append(h.undo, i), redo |-> <<>>]
  ELSE IF Edit[Log[i].op].type = "undo"
       THEN [undo |-> Pop(h.undo), redo |-> h.redo \o EndOf(h.undo)]
       ELSE [undo |-> h.undo \o EndOf(h.redo), redo |-> Pop(h.redo)]

HistoryOf(r, col, n) ==
  FoldLeft(LAMBDA h, i : IF Writes(i, r, col) THEN LoggedStep(h, i) ELSE h,
           [undo |-> <<>>, redo |-> <<>>], [i \in 1..n |-> i])

ValueAfter(i, r, c) == ValueOf(Replay(InitialDocument, SubSeq(Log, 1, i)), r, c)

(* Where nobody else wrote the cell, an undo in the log takes back exactly  *)
(* the last standing write, and a redo brings back exactly the one undone   *)
(* last.  captureUndoPatches reads `before` from the view, own writes under *)
(* way included, which may be refused later.  A write on top of one that is *)
(* under way does not pass the view's own validation, so it is not recorded *)
(* (recordUndoEntry); it is sent all the same, and may be the one that gets *)
(* into the log.                                                            *)
UndoTakesBackTheLastOwnWrite ==
  \A i \in LoggedCompensations(Directions) :
    \A ch \in ToSet(Log[i].operation.changes) :
      LET h == HistoryOf(ch.row, ch.col, i - 1)
      IN  WrittenByOthers(Log[i].client, i, ch.row, ch.col)
          \/ IF Edit[Log[i].op].type = "undo"
             THEN h.undo # <<>> /\ ch.value = ValueAfter(Last(h.undo) - 1, ch.row, ch.col)
             ELSE h.redo # <<>> /\ ch.value = ValueAfter(Last(h.redo), ch.row, ch.col)

(* An undo never erases a value that somebody else brought into the cell:   *)
(* undo-stack.ts:7-9 says that a later change of somebody else makes the    *)
(* server refuse the whole undo.                                            *)
UndoKeepsForeignValues ==
  \A i \in LoggedCompensations({"undo"}) :
    \A ch \in ToSet(Log[i].operation.changes) :
      LET present == ValueAfter(i - 1, ch.row, ch.col)
          covered == \E j \in 1..i-1 : /\ Log[j].client # Log[i].client
                                       /\ ValueAfter(j, ch.row, ch.col) = present
                                       /\ Writes(j, ch.row, ch.col)
      IN  covered => ch.value = present

(* A controller that waits for a compensation no longer on its way, so that *)
(* the user can neither undo nor redo.                                      *)
StaysBusy(c) == Busy(undo[c]) /\ ~IsPending(c, undo[c].limbo.op)

(* A compensation that leaves the queue frees its controller, whether it is *)
(* confirmed, refused or given up: undo and redo come back once the queue   *)
(* is empty.  The exception: one that is confirmed by a bootstrap, which    *)
(* tells the controller nothing (session-sync.ts, onServerMessage).         *)
ControllerComesBack ==
  [][\A c \in User :
       StaysBusy(c)' =>
         \/ StaysBusy(c)
         \/ /\ down[c] # <<>> /\ Head(down[c]).type = "bootstrap"
            /\ InDurableLog(undo[c].limbo.op)]_uvars
=============================================================================
