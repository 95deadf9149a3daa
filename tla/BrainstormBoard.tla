--------------------------- MODULE BrainstormBoard ---------------------------
(***************************************************************************)
(* One brainstorm board while it may be edited: notes, the lines between   *)
(* them, the change log, and undo and redo, which replay that log          *)
(* (apps/brainstorm/services.py and models.py).                            *)
(*                                                                         *)
(* Every request locks the PRD, checks that it is open and that the board  *)
(* is its latest one, and compares the version it carries with the row; a  *)
(* request that fails a check changes nothing.  The requests here are      *)
(* those that pass, so they see the current row; undo and redo compare the *)
(* row with the versions in the log, and that is modelled.  Two writers    *)
(* come by without the lock of the board and without an entry in the log:  *)
(* notes go back to their authors, and old rows are purged.                *)
(***************************************************************************)
EXTENDS Integers, Sequences, FiniteSets, SequencesExt

CONSTANTS Users,      (* the editors of the board                            *)
          Notes,      (* the notes that may be on it                         *)
          Lines,      (* the connections that may be drawn                   *)
          Sections, NoSection,
          Texts,      (* contents a note may have                            *)
          Window,     (* how many of a user's changes undo looks back at     *)
          MaxLog,     (* bound: the length of the log                        *)
          MaxReturned, (* bound: the version a note may be given back with   *)
          Room(_, _)  (* bound: whether after such a log comes such an entry *)

ASSUME NoSectionAssumption == NoSection \notin Sections
ASSUME WindowAssumption == Window \in Nat \ {0}
ASSUME MaxLogAssumption == MaxLog \in Nat
ASSUME MaxReturnedAssumption == MaxReturned \in Nat

VARIABLES board,   (* the rows of notes and of lines                         *)
          log      (* brainstorm_change_logs of this board, oldest first     *)

vars == <<board, log>>
-----------------------------------------------------------------------------
Places == Sections \cup {NoSection}
NoOne == "no one"
Assignees == Users \cup {NoOne}

(* Coordinates, colours and title cards are left out.  A row that was      *)
(* never written is absent, one removed for good is purged; in between it  *)
(* is deleted (deleted_at), and after 30 days that is expired.             *)
Ages == {"no", "recent", "expired"}
NoteRow == [status : {"absent", "default", "accepted", "held", "purged"},
            section : Places, held_from : Places, text : Texts,
            assignee : Assignees, deleted : Ages, version : Nat]
LineRow == [status : {"absent", "drawn", "purged"}, ends : SUBSET Notes,
            deleted : Ages, version : Nat]
Board == [note : [Notes -> NoteRow], line : [Lines -> LineRow]]

Exists(row) == row.status \notin {"absent", "purged"}
Live(row) == Exists(row) /\ row.deleted = "no"
LinesAt(b, n) == {l \in Lines : Live(b.line[l]) /\ n \in b.line[l].ends}

(* uniq_brain_connection_nodes.                                            *)
OneLinePerPair(b) == \A l, m \in Lines :
    Live(b.line[l]) /\ Live(b.line[m]) /\ b.line[l].ends = b.line[m].ends => l = m

(* What undo_last and redo_last accept (reversible): edits write fields of *)
(* notes that are there.  Markers are written by undo and redo.            *)
Edits == {"node_content_updated", "node_assignee_updated", "node_moved", "nodes_moved",
          "auto_layout_applied", "node_status_updated"}
Reversible == Edits \cup {"node_created", "node_deleted", "node_restored",
                          "connection_created", "connection_deleted"}
Markers == {"operation_undone", "operation_redone"}
(* Entries undo and redo pass over: of a board made, reordered or become   *)
(* the latest, and of answers taken over from it.                          *)
Others == {"canvas_changed"}
Actions == Reversible \cup Markers \cup Others

(* A log entry names the notes and lines of its operation.  The code keeps *)
(* the fields it wrote and the versions; the model keeps the board before  *)
(* and after, of which undo and redo read no more than those.              *)
Entry == [actor : Users, action : Actions, notes : SUBSET Notes, lines : SUBSET Lines,
          of : Nat, before : Board, after : Board]

(* Besides the types, the constraints of table brainstorm_nodes: status    *)
(* and section agree, a held note has no section, and only a held one      *)
(* remembers where it was; and those of brainstorm_connections.            *)
TypeOK ==
    /\ board \in Board
    /\ \A i \in DOMAIN log : log[i] \in Entry
    /\ \A n \in Notes : Exists(board.note[n]) =>
         LET row == board.note[n] IN
         /\ row.status = "accepted" <=> row.section # NoSection
         /\ row.held_from # NoSection => row.status = "held"
    /\ OneLinePerPair(board)
    /\ \A l \in Lines : Exists(board.line[l]) => Cardinality(board.line[l].ends) = 2
-----------------------------------------------------------------------------
(* RESTORE_WINDOW_DAYS.                                                    *)
Restorable(row) == Exists(row) /\ row.deleted = "recent"

StatusIn(section) == IF section = NoSection THEN "default" ELSE "accepted"

NoNote == [status |-> "absent", section |-> NoSection, held_from |-> NoSection,
           text |-> CHOOSE t \in Texts : TRUE, assignee |-> NoOne,
           deleted |-> "no", version |-> 0]
NoLine == [status |-> "absent", ends |-> {}, deleted |-> "no", version |-> 0]

NewNote(u, section, text) ==
    [status |-> StatusIn(section), section |-> section, held_from |-> NoSection,
     text |-> text, assignee |-> u, deleted |-> "no", version |-> 1]
NewLine(ends) == [status |-> "drawn", ends |-> ends, deleted |-> "no", version |-> 1]

SetDeleted(row, value) == [row EXCEPT !.deleted = value, !.version = @ + 1]
Moved(row, section) ==
    [row EXCEPT !.section = section, !.status = StatusIn(section), !.version = @ + 1]

(* A board starts as a clone of another one (create_version): notes in     *)
(* sections, unclassified or held, and lines between them.                 *)
Init ==
    /\ \E text \in Texts, line \in [Lines -> {NoLine} \cup {NewLine(e) : e \in kSubset(2, Notes)}] :
       \E note \in [Notes -> {NoNote} \cup {NewNote(NoOne, s, text) : s \in Places}
                               \cup {[NewNote(NoOne, NoSection, text) EXCEPT
                                        !.status = "held", !.held_from = s] : s \in Places}] :
          /\ board = [note |-> note, line |-> line]
          /\ OneLinePerPair(board)
          /\ \A l \in Lines : \A n \in line[l].ends : Exists(note[n])
    /\ log = <<>>
-----------------------------------------------------------------------------
(* What the operations make of a board.                                    *)

(* Deleting a note deletes the lines at it.                                *)
SoftDeleted(b, n) ==
    [note |-> [b.note EXCEPT ![n] = SetDeleted(@, "recent")],
     line |-> [l \in Lines |-> IF l \in LinesAt(b, n)
                               THEN SetDeleted(b.line[l], "recent") ELSE b.line[l]]]

(* Faulty variant: lines come back whatever became of their other end.     *)
RestoredAlone(b, n) ==
    LET comesBack(row) == Exists(row) /\ row.deleted # "no" /\ n \in row.ends
    IN  [note |-> [b.note EXCEPT ![n] = SetDeleted(@, "no")],
         line |-> [l \in Lines |-> IF comesBack(b.line[l])
                                   THEN SetDeleted(b.line[l], "no") ELSE b.line[l]]]

(* Faulty variant: a note comes back without its lines.                    *)
RestoredBare(b, n) == [b EXCEPT !.note[n] = SetDeleted(@, "no")]

(* Restoring a note restores every deleted line between it and a note that *)
(* is there, whether it went with the note or was deleted on its own.      *)
Restored(b, n) ==
    LET note == [b.note EXCEPT ![n] = SetDeleted(@, "no")]
        comesBack(row) == /\ Exists(row) /\ row.deleted # "no" /\ n \in row.ends
                          /\ \A end \in row.ends : Live(note[end])
    IN  [note |-> note,
         line |-> [l \in Lines |-> IF comesBack(b.line[l])
                                   THEN SetDeleted(b.line[l], "no") ELSE b.line[l]]]

(* Faulty variant: a held note stays in its section.                       *)
HeldInPlace(b, n) ==
    [note |-> [b.note EXCEPT ![n] = [@ EXCEPT !.status = "held", !.version = @ + 1]],
     line |-> [l \in Lines |-> IF l \in LinesAt(b, n)
                               THEN [NoLine EXCEPT !.status = "purged"] ELSE b.line[l]]]

(* Holding a note removes the lines at it for good, deleted ones too.      *)
Held(b, n) ==
    [note |-> [b.note EXCEPT ![n] =
                 [b.note[n] EXCEPT !.status = "held", !.held_from = b.note[n].section,
                                   !.section = NoSection, !.version = @ + 1]],
     line |-> [l \in Lines |-> IF Exists(b.line[l]) /\ n \in b.line[l].ends
                               THEN [NoLine EXCEPT !.status = "purged"] ELSE b.line[l]]]

(* Faulty variant: a released note keeps its version.                      *)
ReleasedQuietly(row) ==
    [row EXCEPT !.section = row.held_from, !.status = StatusIn(row.held_from),
                !.held_from = NoSection]

Released(row) ==
    [row EXCEPT !.section = row.held_from, !.status = StatusIn(row.held_from),
                !.held_from = NoSection, !.version = @ + 1]

WithNotes(b, notes, Change(_)) ==
    [b EXCEPT !.note = [n \in Notes |-> IF n \in notes THEN Change(b.note[n]) ELSE b.note[n]]]

MayAdd(action) == Len(log) < MaxLog /\ Room(log, action)

Record(u, action, notes, lines, of) ==
    log' = Append(log, [actor |-> u, action |-> action, notes |-> notes, lines |-> lines,
                        of |-> of, before |-> board, after |-> board'])

(* One request of a user: the new board, unless the table refuses it, and  *)
(* one entry of the log.                                                   *)
Commit(u, action, notes, lines, of, new) ==
    /\ MayAdd(action)
    /\ OneLinePerPair(new)
    /\ board' = new
    /\ Record(u, action, notes, lines, of)
-----------------------------------------------------------------------------
(* The requests.                                                           *)

CreateNote(u, n) == \E s \in Places, t \in Texts :
    /\ board.note[n].status = "absent"
    /\ Commit(u, "node_created", {n}, {}, 0, [board EXCEPT !.note[n] = NewNote(u, s, t)])

UpdateContent(u, n) == \E t \in Texts :
    /\ Live(board.note[n])
    /\ Commit(u, "node_content_updated", {n}, {}, 0,
              [board EXCEPT !.note[n] = [board.note[n] EXCEPT !.text = t, !.version = @ + 1]])

Assign(u, n) == \E a \in Assignees :
    /\ Live(board.note[n])
    /\ Commit(u, "node_assignee_updated", {n}, {}, 0,
              [board EXCEPT !.note[n] = [board.note[n] EXCEPT !.assignee = a, !.version = @ + 1]])

Movable(n) == Live(board.note[n]) /\ board.note[n].status # "held"

Move(u, n) == \E s \in Places :
    /\ Movable(n)
    /\ Commit(u, "node_moved", {n}, {}, 0, [board EXCEPT !.note[n] = Moved(@, s)])

(* move_many, all or nothing.                                              *)
MoveMany(u) == \E notes \in (SUBSET Notes) \ {{}}, s \in Places :
    LET change(row) == Moved(row, s) IN
    /\ \A n \in notes : Movable(n)
    /\ Commit(u, "nodes_moved", notes, {}, 0, WithNotes(board, notes, change))

(* auto_layout moves the coordinates of every note that is not held; their *)
(* sections stay.                                                          *)
AutoLayout(u) ==
    LET notes == {n \in Notes : Movable(n)}
        change(row) == [row EXCEPT !.version = @ + 1]
    IN  /\ notes # {}
        /\ Commit(u, "auto_layout_applied", notes, {}, 0, WithNotes(board, notes, change))

Hold(u, n) ==
    /\ Movable(n)
    /\ Commit(u, "node_status_updated", {n}, {}, 0, Held(board, n))

Release(u, n) ==
    /\ Live(board.note[n])
    /\ board.note[n].status = "held"
    /\ Commit(u, "node_status_updated", {n}, {}, 0, [board EXCEPT !.note[n] = Released(@)])

DeleteNote(u, n) ==
    /\ Live(board.note[n])
    /\ Commit(u, "node_deleted", {n}, {}, 0, SoftDeleted(board, n))

RestoreNote(u, n) ==
    /\ Restorable(board.note[n])
    /\ Commit(u, "node_restored", {n}, {}, 0, Restored(board, n))

CreateConnection(u, l) == \E ends \in kSubset(2, Notes) :
    /\ board.line[l].status = "absent"
    /\ \A n \in ends : Live(board.note[n])
    /\ \A m \in Lines : Live(board.line[m]) => board.line[m].ends # ends
    /\ Commit(u, "connection_created", {}, {l}, 0, [board EXCEPT !.line[l] = NewLine(ends)])

DeleteConnection(u, l) ==
    /\ Live(board.line[l])
    /\ Commit(u, "connection_deleted", {}, {l}, 0, [board EXCEPT !.line[l] = SetDeleted(@, "recent")])

(* Something is done to the board as a whole, and its log says so.         *)
LogOther(u) == \E action \in Others : Commit(u, action, {}, {}, 0, board)
-----------------------------------------------------------------------------
(* Undo and redo.  Both look at the user's own latest entries only.        *)

Recent(u) == {i \in DOMAIN log :
    /\ log[i].actor = u
    /\ Cardinality({k \in i..Len(log) : log[k].actor = u}) <= Window}

OperationsOf(u) == {i \in Recent(u) : log[i].action \in Reversible}
MarkersOf(u, i) == {k \in Recent(u) : log[k].of = i}
LastMark(u, i) == Max(MarkersOf(u, i))

(* An operation is undone while the last marker that names it says so.     *)
Undone(u, i) ==
    /\ MarkersOf(u, i) # {}
    /\ log[LastMark(u, i)].action = "operation_undone"

Undoable(u) == {i \in OperationsOf(u) : ~Undone(u, i)}

(* Faulty variant: what was undone before newer work can be redone.        *)
AnyUndone(u) == {i \in OperationsOf(u) : Undone(u, i)}

(* A new operation ends what can be redone.                                *)
Redoable(u) == {i \in OperationsOf(u) :
    /\ Undone(u, i)
    /\ LastMark(u, i) > Max(OperationsOf(u))}

(* The board as the operation, or its last redo, left it.                  *)
LeftBy(u, i) ==
    LET redone == {k \in MarkersOf(u, i) : log[k].action = "operation_redone"}
    IN  IF redone = {} THEN log[i].after ELSE log[Max(redone)].after

(* Faulty variant: a note that is there is taken for a note as it was.     *)
StillThere(e, left) ==
    /\ \A n \in e.notes : Exists(board.note[n])
    /\ \A l \in e.lines : Exists(board.line[l])

(* The rows of the operation are still as it left them.                    *)
StillCurrent(e, left) ==
    /\ \A n \in e.notes : /\ Exists(board.note[n])
                          /\ board.note[n].version = left.note[n].version
    /\ \A l \in e.lines : /\ Exists(board.line[l])
                          /\ board.line[l].version = left.line[l].version

(* Faulty variant: a field is missing from those saved.                    *)
FieldsWithoutAssignee(action) ==
    CASE action = "node_content_updated" -> {"text"}
      [] action \in {"node_moved", "nodes_moved"} -> {"section", "status"}
      [] action = "node_status_updated" -> {"section", "status", "held_from"}
      [] OTHER -> {}

(* The fields an operation on notes writes, and undo and redo put back.    *)
Fields(action) ==
    CASE action = "node_content_updated" -> {"text"}
      [] action = "node_assignee_updated" -> {"assignee"}
      [] action \in {"node_moved", "nodes_moved"} -> {"section", "status"}
      [] action = "node_status_updated" -> {"section", "status", "held_from"}
      [] OTHER -> {}

Rewritten(e, from) ==
    LET change(n) == [f \in DOMAIN board.note[n] |->
            CASE f = "version" -> board.note[n].version + 1
              [] f \in Fields(e.action) -> from.note[n][f]
              [] OTHER -> board.note[n][f]]
    IN  [board EXCEPT !.note = [n \in Notes |->
            IF n \in e.notes THEN change(n) ELSE board.note[n]]]

PutBack(e, from) ==
    /\ e.action \in Edits
    /\ \A n \in e.notes : Live(board.note[n])
    /\ board' = Rewritten(e, from)

TakeAway(n) == Live(board.note[n]) /\ board' = SoftDeleted(board, n)
BringBack(n) == Restorable(board.note[n]) /\ board' = Restored(board, n)

RemoveLine(l) ==
    /\ Live(board.line[l])
    /\ board' = [board EXCEPT !.line[l] = SetDeleted(@, "recent")]

(* A line comes back between notes that are there and not joined yet.      *)
RedrawLine(l) ==
    /\ board.line[l].deleted # "no"
    /\ \A n \in board.line[l].ends : Live(board.note[n])
    /\ \A m \in Lines : Live(board.line[m]) => board.line[m].ends # board.line[l].ends
    /\ board' = [board EXCEPT !.line[l] = SetDeleted(@, "no")]

HeldIn(rows, e) == \E n \in e.notes : rows.note[n].status = "held"
IsHolding(e) == e.action = "node_status_updated" /\ HeldIn(e.after, e)
IsReleasing(e) == e.action = "node_status_updated" /\ HeldIn(e.before, e)

(* A created note with lines is not taken away, and a released one with    *)
(* lines is not held again.                                                *)
Reverted(e) ==
    \/ /\ e.action = "node_created"
       /\ \A n \in e.notes : LinesAt(board, n) = {} /\ TakeAway(n)
    \/ e.action = "node_restored" /\ \A n \in e.notes : TakeAway(n)
    \/ e.action = "node_deleted" /\ \A n \in e.notes : BringBack(n)
    \/ /\ IsReleasing(e) => \A n \in e.notes : LinesAt(board, n) = {}
       /\ PutBack(e, e.before)
    \/ e.action = "connection_created" /\ \A l \in e.lines : RemoveLine(l)
    \/ e.action = "connection_deleted" /\ \A l \in e.lines : RedrawLine(l)

Reapplied(e) ==
    \/ e.action \in {"node_created", "node_restored"} /\ \A n \in e.notes : BringBack(n)
    \/ e.action = "node_deleted" /\ \A n \in e.notes : TakeAway(n)
    \/ /\ IsHolding(e)
       /\ \A n \in e.notes : Live(board.note[n]) /\ board' = Held(board, n)
    \/ ~IsHolding(e) /\ PutBack(e, e.after)
    \/ e.action = "connection_created" /\ \A l \in e.lines : RedrawLine(l)
    \/ e.action = "connection_deleted" /\ \A l \in e.lines : RemoveLine(l)

(* undo_last: the user's latest operation that is not undone, or nothing.  *)
UndoLast(u) ==
    /\ MayAdd("operation_undone")
    /\ Undoable(u) # {}
    /\ LET i == Max(Undoable(u)) IN
       /\ StillCurrent(log[i], LeftBy(u, i))
       /\ Reverted(log[i])
       /\ OneLinePerPair(board')
       /\ Record(u, "operation_undone", log[i].notes, log[i].lines, i)

(* redo_last: the operation undone last.                                   *)
RedoLast(u) ==
    /\ MayAdd("operation_redone")
    /\ \E i \in Redoable(u) :
       /\ \A k \in Redoable(u) : LastMark(u, k) <= LastMark(u, i)
       /\ StillCurrent(log[i], log[LastMark(u, i)].after)
       /\ Reapplied(log[i])
       /\ OneLinePerPair(board')
       /\ Record(u, "operation_redone", log[i].notes, log[i].lines, i)
-----------------------------------------------------------------------------
(* Notes of people who are no longer participants go back to whoever wrote *)
(* them (anyone here): when a participant is removed, and after a          *)
(* completion.  The log does not say so.                                   *)
ReturnNotes ==
    /\ \E notes \in (SUBSET {n \in Notes : Live(board.note[n])}) \ {{}},
          author \in [Notes -> Users] :
         LET returned(n) == [board.note[n] EXCEPT !.assignee = author[n], !.version = @ + 1] IN
         /\ \A n \in notes : /\ board.note[n].assignee # NoOne
                             /\ board.note[n].version < MaxReturned
         /\ board' = [board EXCEPT !.note = [n \in Notes |->
                          IF n \in notes THEN returned(n) ELSE board.note[n]]]
    /\ UNCHANGED log
-----------------------------------------------------------------------------
(* The retention of deleted rows.                                          *)

Expire ==
    /\ \/ \E n \in Notes : /\ Restorable(board.note[n])
                           /\ board' = [board EXCEPT !.note[n].deleted = "expired"]
       \/ \E l \in Lines : /\ Restorable(board.line[l])
                           /\ board' = [board EXCEPT !.line[l].deleted = "expired"]
    /\ UNCHANGED log

(* purge_deleted_brainstorm_data: a batch of expired notes with every line *)
(* at them, and of expired lines.                                          *)
Purge ==
    /\ \E notes \in SUBSET {n \in Notes : board.note[n].deleted = "expired"},
          lines \in SUBSET {l \in Lines : board.line[l].deleted = "expired"} :
         LET gone(l) == l \in lines \/ board.line[l].ends \cap notes # {} IN
         /\ notes # {} \/ lines # {}
         /\ board' = [note |-> [n \in Notes |-> IF n \in notes
                                  THEN [NoNote EXCEPT !.status = "purged"] ELSE board.note[n]],
                      line |-> [l \in Lines |-> IF gone(l)
                                  THEN [NoLine EXCEPT !.status = "purged"] ELSE board.line[l]]]
    /\ UNCHANGED log
-----------------------------------------------------------------------------
(* The requests of a page, one per route of the API.                       *)
OnNote(u, n) ==
    \/ CreateNote(u, n) \/ UpdateContent(u, n) \/ Assign(u, n) \/ Move(u, n)
    \/ Hold(u, n) \/ Release(u, n) \/ DeleteNote(u, n) \/ RestoreNote(u, n)
OnLine(u, l) == CreateConnection(u, l) \/ DeleteConnection(u, l)
OnCanvas(u) == MoveMany(u) \/ AutoLayout(u)
ReplayLast(u) == UndoLast(u) \/ RedoLast(u)

Next ==
    \/ \E u \in Users :
         \/ \E n \in Notes : OnNote(u, n)
         \/ \E l \in Lines : OnLine(u, l)
         \/ OnCanvas(u) \/ ReplayLast(u) \/ LogOther(u)
    \/ ReturnNotes \/ Expire \/ Purge

Spec == Init /\ [][Next]_vars
-----------------------------------------------------------------------------
(* A line that is there joins two notes that are there: deletion, purge,   *)
(* restoration, undo and redo never leave one dangling.                    *)
LiveLinesJoinLiveNotes == \A l \in Lines :
    Live(board.line[l]) => \A n \in board.line[l].ends : Live(board.note[n])

Values(row) == [f \in DOMAIN row \ {"version", "deleted"} |-> row[f]]
SameRow(r, s) == Values(r) = Values(s) /\ Live(r) = Live(s)

(* A row with the version an entry of the log remembers is the row as it   *)
(* was then: what undo, redo and every request that carries a version      *)
(* rely on.                                                                *)
VersionIdentifiesRow == \A i \in DOMAIN log :
    LET then == log[i].after IN
    /\ \A n \in Notes : Exists(board.note[n]) /\ board.note[n].version = then.note[n].version
                            => SameRow(board.note[n], then.note[n])
    /\ \A l \in Lines : Exists(board.line[l]) /\ board.line[l].version = then.line[l].version
                            => SameRow(board.line[l], then.line[l])

Replayed == IF Len(log') > Len(log) THEN log'[Len(log')].of ELSE 0
Replays(action) == Replayed # 0 /\ log'[Len(log')].action = action

(* Undo leaves every row of the operation as it was before it, and takes   *)
(* away what the operation created.                                        *)
UndoRestoresRows == [][ Replays("operation_undone") =>
    LET e == log[Replayed]
        back(now, before) == IF Exists(before) THEN SameRow(now, before) ELSE ~Live(now)
    IN  /\ \A n \in e.notes : back(board'.note[n], e.before.note[n])
        /\ \A l \in e.lines : back(board'.line[l], e.before.line[l]) ]_vars

(* Redo leaves every row of the operation as the operation did.            *)
RedoReappliesRows == [][ Replays("operation_redone") =>
    LET e == log[Replayed]
    IN  /\ \A n \in e.notes : SameRow(board'.note[n], e.after.note[n])
        /\ \A l \in e.lines : SameRow(board'.line[l], e.after.line[l]) ]_vars

(* Undo and redo put back the rows an entry names.                         *)
ReplayPutsRowsBack == UndoRestoresRows /\ RedoReappliesRows

(* Entries of operations on notes do not name the lines at them; undo and  *)
(* redo change those with the note.  A note that comes back brings every   *)
(* line that is left between it and notes that are there (one that was     *)
(* deleted on its own before, too), one that goes away takes its lines     *)
(* along, to be restored, and one that is held again removes them for      *)
(* good.  No other line changes: undoing a hold brings none back.          *)
LinesGoWithNotes == [][ Replayed # 0 =>
    LET e == log[Replayed]
        back == {n \in e.notes : ~Live(board.note[n]) /\ Live(board'.note[n])}
        gone == {n \in e.notes : Live(board.note[n]) /\ ~Live(board'.note[n])}
        held == IF Replays("operation_redone") /\ IsHolding(e) THEN e.notes ELSE {}
    IN  \A l \in Lines \ e.lines :
          LET old == board.line[l]
              new == board'.line[l]
              meets(S) == old.ends \cap S # {}
          IN  /\ Exists(old) /\ meets(back) =>
                   (Live(new) <=> \A n \in old.ends : Live(board'.note[n]))
              /\ Live(old) /\ meets(gone) => Restorable(new)
              /\ Exists(old) /\ meets(held) => new.status = "purged"
              /\ ~meets(back \cup gone \cup held) => new = old ]_vars

(* Of the lines there were at a note before it was deleted, undo brings    *)
(* back those that have not been removed for good and whose ends are both  *)
(* there; of those there were before it was held, undo brings back none.   *)
UndoBringsLinesBack == [][ Replays("operation_undone") =>
    LET e == log[Replayed]
    IN  \A n \in e.notes : \A l \in LinesAt(e.before, n) :
          /\ e.action = "node_deleted" =>
               (Live(board'.line[l]) <=>
                   /\ Exists(board.line[l])
                   /\ \A end \in e.before.line[l].ends : Live(board'.note[end]))
          /\ IsHolding(e) => ~Exists(board'.line[l]) ]_vars

(* What undo and redo do to the lines no entry names.                      *)
ReplayMindsLines == LinesGoWithNotes /\ UndoBringsLinesBack

(* Undo and redo overwrite nobody's work: since the operation, or its last *)
(* undo or redo, no entry is about its rows, and no one who leaves no      *)
(* entry changed them: they are as that one left them.                     *)
ReplayOverwritesNothing == [][ Replayed # 0 =>
    LET e == log[Replayed]
        marks == {k \in DOMAIN log : log[k].of = Replayed}
        since == IF marks = {} THEN Replayed ELSE Max(marks)
    IN  /\ \A k \in (since + 1)..Len(log) :
              log[k].notes \cap e.notes = {} /\ log[k].lines \cap e.lines = {}
        /\ \A n \in e.notes : SameRow(board.note[n], log[since].after.note[n])
        /\ \A l \in e.lines : SameRow(board.line[l], log[since].after.line[l]) ]_vars

(* The members of a finite set of numbers, the smallest first.             *)
Ascending(S) == CHOOSE s \in [1..Cardinality(S) -> S] :
    \A i, k \in DOMAIN s : i < k => s[i] < s[k]

(* The log scanned by undo_last and redo_last is a stack of each user.     *)
Stacks == INSTANCE UndoStack WITH
    Operations <- 1..MaxLog,
    done <- [u \in Users |-> Ascending(Undoable(u))],
    undone <- [u \in Users |-> Ascending(Redoable(u))]
UndoIsAStack == Stacks!Spec
-----------------------------------------------------------------------------
(* docs/specs/brainstorm-backend-scenario.md:806: a deleted note can be    *)
(* restored for 30 days.  The code does not keep this: see the README.     *)
DeletedNotesCanBeRestored == \A n \in Notes :
    Restorable(board.note[n]) => OneLinePerPair(Restored(board, n))
=============================================================================
