---------------------------- MODULE BoardPolling ----------------------------
(***************************************************************************)
(* One page that shows a board while other users change it.  The page      *)
(* loads the whole board (the canvas view) and then polls the change log   *)
(* after a cursor (the events view, static/brainstorm/js/app.js).  The two *)
(* views read in several queries, the board changes between them, and the  *)
(* requests of a page overlap.                                             *)
(*                                                                         *)
(* Two things the page can miss are kept apart.  Notes that are given back *)
(* to their authors (remove_participant of apps/prds/services.py,          *)
(* _restore_removed_assignees of apps/ai/contribution.py) are not logged.  *)
(* And a change that is logged may be passed by: skipped says which.       *)
(***************************************************************************)
EXTENDS Integers, Sequences, FiniteSets, FiniteSetsExt

CONSTANTS Notes,
          Own,         (* the notes that are also changed from this page     *)
          Limit,       (* events in one answer, 100 in the code              *)
          MaxLog,      (* bound: changes of the board                        *)
          MaxGiven,    (* bound: times a note is given back                  *)
          MaxTroubles  (* bound: reconnections and failed requests           *)

ASSUME OwnAssumption == Own \subseteq Notes
ASSUME LimitAssumption == Limit \in Nat \ {0}
ASSUME BoundAssumption == MaxLog \in Nat /\ MaxGiven \in Nat /\ MaxTroubles \in Nat

VARIABLES canvas,   (* the notes and the live lines of the board             *)
          log,      (* brainstorm_change_logs of the board                   *)
          page,     (* what the page shows                                   *)
          cursor,   (* how much of the log it has seen                       *)
          poll,     (* the poll under way, or the load that stands for it    *)
          sync,     (* the load under way, an older one being void           *)
          saved,    (* the answer to a change made here that is under way    *)
          troubles,
          seen,     (* history: the cursor the page last had                 *)
          skipped   (* history: changes up to there that it may not show     *)

server == <<canvas, log>>
history == <<seen, skipped>>
pollingVars == <<server, page, cursor, poll, sync, saved, troubles, history>>
-----------------------------------------------------------------------------
(* A note on the canvas is told by its last logged change and by how often *)
(* it was given back, a line by the notes it joins.  Deleted and held      *)
(* notes are off the canvas, and so are lines at them; the list of held    *)
(* notes beside it is left out.                                            *)
Gone == -1
Pairs == kSubset(2, Notes)
NoteStates == [Notes -> {Gone} \cup 0..MaxLog]
Givings == [Notes -> 0..MaxGiven]
View == [note : NoteStates, given : Givings, line : SUBSET Pairs]
Event == [target : {"node"}, note : Notes] \cup
         [target : {"connection"}, line : Pairs, deleted : BOOLEAN] \cup
         [target : {"canvas"}]

(* Which notes and lines an event may have changed.                        *)
ChangesNote(event, n) ==
    event.target = "canvas" \/ event = [target |-> "node", note |-> n]
ChangesLine(event, pair) ==
    \/ event.target = "canvas"
    \/ event.target = "connection" /\ event.line = pair
    \/ event.target = "node" /\ event.note \in pair

At(n) == {pair \in Pairs : n \in pair}
Among(notes) == {pair \in Pairs : \A n \in pair : notes[n] # Gone}
Latest == Len(log)
NoCursor == -1
Idle == [step |-> "idle"]
Blank == [note |-> [n \in Notes |-> Gone], given |-> [n \in Notes |-> 0], line |-> {}]

PollTypes == poll = Idle \/ poll \in
    [step : {"loading"}] \cup
    [step : {"asked"}, after : 0..Latest] \cup
    [step : {"rows"}, rows : Seq(Event), cursor : 0..Latest] \cup
    [step : {"notes"}, rows : Seq(Event), cursor : 0..Latest,
     note : NoteStates, given : Givings] \cup
    [step : {"answered"}, rows : Seq(Event), cursor : 0..Latest, view : View]
SyncTypes == sync = Idle \/ sync \in
    [step : {"asked"}] \cup
    [step : {"cursor"}, cursor : 0..Latest] \cup
    [step : {"notes"}, cursor : 0..Latest, note : NoteStates, given : Givings] \cup
    [step : {"answered"}, cursor : 0..Latest, view : View]
SavedTypes == saved = Idle \/ saved \in
    [note : Own, version : {Gone} \cup 0..MaxLog, given : 0..MaxGiven, at : 1..Latest]

PollingTypeOK ==
    /\ canvas \in View /\ canvas.line \subseteq Among(canvas.note)
    /\ log \in Seq(Event) /\ Latest <= MaxLog
    /\ page \in View
    /\ PollTypes /\ SyncTypes /\ SavedTypes
    /\ troubles \in 0..MaxTroubles
    /\ seen \in {NoCursor} \cup 0..Latest /\ cursor \in {NoCursor, seen}
    /\ skipped \in SUBSET (1..Latest)

PollingInit ==
    /\ \E there \in SUBSET Notes :
         canvas = [Blank EXCEPT !.note = [n \in Notes |-> IF n \in there THEN 0 ELSE Gone]]
    /\ log = <<>>
    /\ page = Blank
    /\ cursor = NoCursor
    /\ poll = [step |-> "loading"]
    /\ sync = [step |-> "asked"]
    /\ saved = Idle
    /\ troubles = 0
    /\ seen = NoCursor /\ skipped = {}
-----------------------------------------------------------------------------
(* Changes of the board, which BrainstormBoard has in detail.  An editor's *)
(* holds the lock on the board, so that the log is in the order of commits.*)

(* A change is told by its position in the log.                            *)
Changed(rows, event) ==
    /\ Latest < MaxLog
    /\ canvas' = rows
    /\ log' = Append(log, event)

(* A note is deleted or held, and the lines at it go; it is changed; or it *)
(* is created, restored or released, and lines at it may come back.        *)
NoteBecomes(n, version) ==
    \E back \in SUBSET (At(n) \cap Among([canvas.note EXCEPT ![n] = version])) :
        /\ canvas.note[n] = Gone => version # Gone
        /\ canvas.note[n] # Gone => back = {}
        /\ Changed([canvas EXCEPT !.note[n] = version,
                                   !.line = IF version = Gone THEN @ \ At(n) ELSE @ \cup back],
                   [target |-> "node", note |-> n])

ChangeNote(n) ==
    /\ \E version \in {Gone, Latest + 1} : NoteBecomes(n, version)
    /\ UNCHANGED <<page, cursor, poll, sync, saved, troubles, history>>

DrawLine(pair) ==
    /\ pair \in Among(canvas.note) \ canvas.line
    /\ Changed([canvas EXCEPT !.line = @ \cup {pair}],
               [target |-> "connection", line |-> pair, deleted |-> FALSE])
    /\ UNCHANGED <<page, cursor, poll, sync, saved, troubles, history>>

EraseLine(pair) ==
    /\ pair \in canvas.line
    /\ Changed([canvas EXCEPT !.line = @ \ {pair}],
               [target |-> "connection", line |-> pair, deleted |-> TRUE])
    /\ UNCHANGED <<page, cursor, poll, sync, saved, troubles, history>>

(* Several notes moved, the automatic layout, undo and redo.               *)
ChangeCanvas ==
    /\ \E notes \in (SUBSET {n \in Notes : canvas.note[n] # Gone}) \ {{}} :
         Changed([canvas EXCEPT !.note = [n \in Notes |->
                     IF n \in notes THEN Latest + 1 ELSE canvas.note[n]]],
                 [target |-> "canvas"])
    /\ UNCHANGED <<page, cursor, poll, sync, saved, troubles, history>>

(* Notes go back to their authors: no lock on the board, no entry of its   *)
(* log.                                                                    *)
ReturnNotes ==
    /\ \E notes \in (SUBSET {n \in Notes : canvas.note[n] # Gone}) \ {{}} :
         /\ \A n \in notes : canvas.given[n] < MaxGiven
         /\ canvas' = [canvas EXCEPT !.given = [n \in Notes |->
                           IF n \in notes THEN canvas.given[n] + 1 ELSE canvas.given[n]]]
    /\ UNCHANGED <<log, page, cursor, poll, sync, saved, troubles, history>>
-----------------------------------------------------------------------------
(* A load: the canvas view.                                                *)

SyncStep(from, to) ==
    /\ sync.step = from
    /\ sync' = to
    /\ UNCHANGED <<server, page, cursor, poll, saved, troubles, history>>

ReadCursor == SyncStep("asked", [step |-> "cursor", cursor |-> Latest])

LoadNotes == SyncStep("cursor",
    [step |-> "notes", cursor |-> sync.cursor, note |-> canvas.note, given |-> canvas.given])

(* Faulty variant: the cursor is the latest one when the answer is made.   *)
LoadLinesThenCursor == SyncStep("notes",
    [step |-> "answered", cursor |-> Latest,
     view |-> [note |-> sync.note, given |-> sync.given,
               line |-> canvas.line \cap Among(sync.note)]])

(* Only lines between notes that were read are taken.                      *)
LoadLines == SyncStep("notes",
    [step |-> "answered", cursor |-> sync.cursor,
     view |-> [note |-> sync.note, given |-> sync.given,
               line |-> canvas.line \cap Among(sync.note)]])

(* The poll that waits for this load is over, and the timer goes on.       *)
PollOver == poll' = IF poll.step = "loading" THEN Idle ELSE poll

ShowLoad ==
    /\ sync.step = "answered"
    /\ page' = sync.view
    /\ cursor' = sync.cursor
    /\ sync' = Idle
    /\ PollOver
    /\ seen' = cursor' /\ skipped' = {}
    /\ UNCHANGED <<server, saved, troubles>>

Trouble ==
    /\ troubles < MaxTroubles
    /\ troubles' = troubles + 1

(* The request fails, or a change of a status makes it void: the page goes *)
(* on with the cursor it has.                                              *)
LoadFails ==
    /\ Trouble
    /\ sync # Idle
    /\ sync' = Idle
    /\ PollOver
    /\ UNCHANGED <<server, page, cursor, saved, history>>

(* The browser is online again, a change was refused, or an undo or redo   *)
(* was done here.  A poll may be under way; what was loading is void.      *)
Reload ==
    /\ Trouble
    /\ cursor' = NoCursor
    /\ sync' = [step |-> "asked"]
    /\ PollOver
    /\ UNCHANGED <<server, page, saved, history>>
-----------------------------------------------------------------------------
(* A poll: the events view.                                                *)

PollStep(from, to) ==
    /\ poll.step = from
    /\ poll' = to
    /\ UNCHANGED <<server, page, cursor, sync, saved, troubles, history>>

(* A load that a poll turns into; another one under way is void.           *)
LoadInstead ==
    /\ sync' = [step |-> "asked"]
    /\ poll' = [step |-> "loading"]

(* The timer: without a cursor it loads.                                   *)
Tick ==
    /\ poll = Idle
    /\ IF cursor = NoCursor
       THEN LoadInstead
       ELSE poll' = [step |-> "asked", after |-> cursor] /\ UNCHANGED sync
    /\ UNCHANGED <<server, page, cursor, saved, troubles, history>>

(* Faulty variant: the cursor is counted on by the limit.                  *)
ReadRowsByTheLimit ==
    LET last == Min({Latest, poll.after + Limit}) IN
    PollStep("asked", [step |-> "rows", rows |-> SubSeq(log, poll.after + 1, last),
                       cursor |-> poll.after + Limit])

ReadRows ==
    LET last == Min({Latest, poll.after + Limit}) IN
    PollStep("asked", [step |-> "rows", rows |-> SubSeq(log, poll.after + 1, last),
                       cursor |-> last])

ReadNotes == PollStep("rows",
    [step |-> "notes", rows |-> poll.rows, cursor |-> poll.cursor,
     note |-> canvas.note, given |-> canvas.given])

ReadLines == PollStep("notes",
    [step |-> "answered", rows |-> poll.rows, cursor |-> poll.cursor,
     view |-> [note |-> poll.note, given |-> poll.given, line |-> canvas.line]])

(* Faulty variant: a changed note loses its lines and gets none back.      *)
ApplyWithoutLines(shown, event, read) ==
    CASE event.target = "node" ->
           [note |-> [shown.note EXCEPT ![event.note] = read.note[event.note]],
            given |-> [shown.given EXCEPT ![event.note] = read.given[event.note]],
            line |-> shown.line \ At(event.note)]
      [] event.target = "connection" ->
           [shown EXCEPT !.line = IF event.deleted THEN @ \ {event.line} ELSE @ \cup {event.line}]

(* applyEventBatch: a note is replaced by what was read, with the lines at *)
(* it; a line comes or goes as its event says.                             *)
Apply(shown, event, read) ==
    CASE event.target = "node" ->
           [note |-> [shown.note EXCEPT ![event.note] = read.note[event.note]],
            given |-> [shown.given EXCEPT ![event.note] = read.given[event.note]],
            line |-> (shown.line \ At(event.note)) \cup
                     (IF read.note[event.note] = Gone THEN {} ELSE read.line \cap At(event.note))]
      [] event.target = "connection" ->
           [shown EXCEPT !.line = IF event.deleted THEN @ \ {event.line} ELSE @ \cup {event.line}]

NeedsLoad(rows) == \E i \in DOMAIN rows : rows[i].target = "canvas"

(* One row after the other.                                                *)
Shown(rows, read) ==
    LET shown[i \in 0..Len(rows)] ==
          IF i = 0 THEN page ELSE Apply(shown[i - 1], rows[i], read)
    IN shown[Len(rows)]

(* The cursor the poll was asked with.                                     *)
After == IF poll.step = "asked" THEN poll.after ELSE poll.cursor - Len(poll.rows)

(* When there is more the page polls again at once, as the timer may.      *)
(* Changes that are not among the rows are passed by when an older load    *)
(* was shown since the poll was asked for; those that call for a load are  *)
(* until there is one.                                                     *)
ShowPoll ==
    /\ poll.step = "answered"
    /\ cursor' = poll.cursor
    /\ seen' = cursor'
    /\ IF NeedsLoad(poll.rows)
       THEN /\ LoadInstead
            /\ skipped' = skipped \cup (seen + 1)..poll.cursor
            /\ UNCHANGED page
       ELSE /\ page' = Shown(poll.rows, poll.view)
            /\ poll' = Idle
            /\ skipped' = (skipped \cup (seen + 1)..After) \ ((After + 1)..poll.cursor)
            /\ UNCHANGED sync
    /\ UNCHANGED <<server, saved, troubles>>

PollFails ==
    /\ Trouble
    /\ poll.step \in {"asked", "rows", "notes", "answered"}
    /\ poll' = Idle
    /\ UNCHANGED <<server, page, cursor, sync, saved, history>>
-----------------------------------------------------------------------------
(* Changes made here: the answer holds the note as the change left it, and *)
(* is shown without a look at the version or the cursor.                   *)

ChangeOwn(n) ==
    /\ saved = Idle
    /\ \E version \in {Gone, Latest + 1} :
         /\ NoteBecomes(n, version)
         /\ saved' = [note |-> n, version |-> version, given |-> canvas.given[n],
                      at |-> Latest + 1]
    /\ UNCHANGED <<page, cursor, poll, sync, troubles, history>>

(* Later changes of the note that were shown already are passed by.        *)
ShowOwn ==
    /\ saved # Idle
    /\ page' = [note |-> [page.note EXCEPT ![saved.note] = saved.version],
                given |-> [page.given EXCEPT ![saved.note] = saved.given],
                line |-> IF saved.version = Gone THEN page.line \ At(saved.note) ELSE page.line]
    /\ skipped' = skipped \cup {i \in (saved.at + 1)..seen : ChangesNote(log[i], saved.note)}
    /\ saved' = Idle
    /\ UNCHANGED <<server, cursor, poll, sync, troubles, seen>>

Browser ==
    \/ ReadCursor \/ LoadNotes \/ LoadLines \/ ShowLoad
    \/ Tick \/ ReadRows \/ ReadNotes \/ ReadLines \/ ShowPoll

PollingNext ==
    \/ \E n \in Notes : ChangeNote(n)
    \/ \E pair \in Pairs : DrawLine(pair) \/ EraseLine(pair)
    \/ ChangeCanvas
    \/ ReturnNotes
    \/ \E n \in Own : ChangeOwn(n)
    \/ ShowOwn
    \/ Browser
    \/ LoadFails \/ Reload \/ PollFails

(* Requests are answered or fail, and the timer goes on; nobody has to     *)
(* change anything.                                                        *)
Fairness ==
    /\ WF_pollingVars(Tick)
    /\ WF_pollingVars(ReadCursor) /\ WF_pollingVars(LoadNotes)
    /\ WF_pollingVars(LoadLines) /\ WF_pollingVars(ShowLoad)
    /\ WF_pollingVars(ReadRows) /\ WF_pollingVars(ReadNotes)
    /\ WF_pollingVars(ReadLines) /\ WF_pollingVars(ShowPoll)
    /\ WF_pollingVars(ShowOwn)

PollingSpec == PollingInit /\ [][PollingNext]_pollingVars
FairSpec == PollingSpec /\ Fairness
-----------------------------------------------------------------------------
(* The changes that the page need not show: those after the cursor it last *)
(* had, which it still has to poll, and those that were passed by.         *)
NotShown == (seen + 1)..Latest \cup skipped

(* A page that has loaded shows wrongly only what a change it has still to *)
(* poll, or one that was passed by, has changed: although both views mix   *)
(* rows from before and after a change, and the requests of the page       *)
(* overlap, no other change of a note or a line is missed.                 *)
NothingElseIsMissed == seen # NoCursor =>
    /\ \A n \in Notes : page.note[n] # canvas.note[n] =>
         \E i \in NotShown : ChangesNote(log[i], n)
    /\ \A pair \in Pairs : (pair \in page.line) # (pair \in canvas.line) =>
         \E i \in NotShown : ChangesLine(log[i], pair)

(* When the board comes to rest, the page comes to show all changes that   *)
(* were logged, unless one was passed by.                                  *)
PageCatchesUp == <>[](skipped = {} => page.note = canvas.note /\ page.line = canvas.line)

(* What docs/specs/brainstorm-backend-scenario.md says of polling: what    *)
(* others have saved is brought to the page, and a change of the canvas    *)
(* has the whole state loaded.  The code gives it up when that load fails. *)
LoggedChangesAreShown == <>[](page.note = canvas.note /\ page.line = canvas.line)

(* The same of all that others have saved.  The code does not log that     *)
(* notes are given back.                                                   *)
PageShowsBoard == <>[](page = canvas)
=============================================================================
