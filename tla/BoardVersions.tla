---------------------------- MODULE BoardVersions ----------------------------
(***************************************************************************)
(* The boards of one PRD: they are cloned, reordered and deleted, and only *)
(* the latest one, the first in the order, may be written                  *)
(* (BrainstormAccessService of apps/brainstorm/services.py).               *)
(*                                                                         *)
(* A request reads the PRD without a lock when it is admitted and takes    *)
(* the lock on the PRD when it runs; other requests, and the completion or *)
(* deletion of the PRD, come in between.                                   *)
(*                                                                         *)
(* Two parts of the program give the notes of somebody who was removed     *)
(* back to their authors without a look at the order of the boards:        *)
(* apps/prds/services.py with the removal, apps/ai/contribution.py when it *)
(* schedules the evaluation of a completion.                               *)
(***************************************************************************)
EXTENDS Integers, Sequences, FiniteSets, SequencesExt

CONSTANTS Users,      (* editors of the PRD                                  *)
          Keys,       (* idempotency keys of creation requests               *)
          MaxBoards,  (* bound: boards ever created                          *)
          MaxEdits,   (* bound: writes to one board                          *)
          MaxReturns, (* bound: times notes of one board are given back      *)
          MaxDue      (* bound: completions whose scheduling is under way    *)

ASSUME MaxBoardsAssumption == MaxBoards \in Nat \ {0}
ASSUME MaxEditsAssumption == MaxEdits \in Nat
ASSUME MaxReturnsAssumption == MaxReturns \in Nat /\ MaxDue \in Nat

VARIABLES prd,       (* its completion and deletion, and the completions     *)
                     (* whose snapshot is still due                          *)
          board,     (* brainstorm_canvases, by version_number               *)
          request    (* of each user, what was admitted and is to run        *)

vars == <<prd, board, request>>
-----------------------------------------------------------------------------
Boards == 1..MaxBoards
NoKey == "no key"

(* The content of a board is the number of writes that made it and of      *)
(* times notes on it were given back, those of the board it was cloned     *)
(* from included.                                                          *)
BoardRow == [status : {"absent", "active", "deleted"}, order : 0..MaxBoards,
             key : Keys \cup {NoKey}, edits : 0..MaxEdits, returns : 0..MaxReturns]
PrdRow == [completed : BOOLEAN, trashed : BOOLEAN, due : 0..MaxDue]

Request ==
    [op : {"none"}] \cup
    [op : {"first"}, key : Keys] \cup
    [op : {"create"}, source : Boards, key : Keys] \cup
    [op : {"reorder"}, order : BoundedSeq(Boards, MaxBoards)] \cup
    [op : {"delete"}, board : Boards] \cup
    [op : {"edit"}, board : Boards]

Active == {b \in Boards : board[b].status = "active"}
Existing == {b \in Boards : board[b].status # "absent"}
IsBefore(b, c) ==
    \/ board[b].order < board[c].order
    \/ board[b].order = board[c].order /\ b > c
IsLatest(b) == b \in Active /\ \A c \in Active \ {b} : IsBefore(b, c)

(* With uniq_brain_canvas_prd_version, numbers being given in a row, and   *)
(* uniq_brain_canvas_request.                                              *)
TypeOK ==
    /\ prd \in PrdRow
    /\ board \in [Boards -> BoardRow]
    /\ request \in [Users -> Request]
    /\ Existing = 1..Cardinality(Existing)
    /\ \A b, c \in Existing : board[b].key = board[c].key => b = c

NoBoard == [status |-> "absent", order |-> 0, key |-> NoKey, edits |-> 0, returns |-> 0]
Nothing == [op |-> "none"]

Init ==
    /\ prd = [completed |-> FALSE, trashed |-> FALSE, due |-> 0]
    /\ board = [b \in Boards |-> NoBoard]
    /\ request = [u \in Users |-> Nothing]
-----------------------------------------------------------------------------
Writable == ~prd.completed /\ ~prd.trashed

(* The PRD as PrdLifecycle has it; a completion is followed by the         *)
(* scheduling of an evaluation.                                            *)
PrdChanges ==
    /\ \/ /\ Writable /\ prd.due < MaxDue
          /\ prd' = [prd EXCEPT !.completed = TRUE, !.due = @ + 1]
       \/ ~prd.trashed /\ prd' = [prd EXCEPT !.completed = FALSE]
       \/ \E t \in BOOLEAN : prd' = [prd EXCEPT !.trashed = t]
    /\ UNCHANGED <<board, request>>

Admit(u, r) ==
    /\ request[u] = Nothing
    /\ Writable
    /\ request' = [request EXCEPT ![u] = r]
    /\ UNCHANGED <<prd, board>>

(* What a page offers: its boards are those that were active when it was   *)
(* loaded.  The first request finds no board and creates one.              *)
AdmitRequest(u) ==
    \/ Active = {} /\ \E k \in Keys : Admit(u, [op |-> "first", key |-> k])
    \/ \E b \in Active :
         \/ \E k \in Keys : Admit(u, [op |-> "create", source |-> b, key |-> k])
         \/ IsLatest(b) /\ Admit(u, [op |-> "delete", board |-> b])
         \/ IsLatest(b) /\ Admit(u, [op |-> "edit", board |-> b])
    \/ Active # {} /\ \E s \in SetToSeqs(Active) : Admit(u, [op |-> "reorder", order |-> s])

(* A refused request changes nothing.                                      *)
Refuse(u) ==
    /\ request[u] # Nothing
    /\ request' = [request EXCEPT ![u] = Nothing]
    /\ UNCHANGED <<prd, board>>

Runs(u, op, rows) ==
    /\ request[u].op = op
    /\ board' = rows
    /\ request' = [request EXCEPT ![u] = Nothing]
    /\ UNCHANGED prd

(* Faulty variant: the key of a deleted board is free.                     *)
KeyIsUnused(k) == \A b \in Active : board[b].key # k

(* uniq_brain_canvas_request holds for deleted boards too.                 *)
KeyIsFree(k) == \A b \in Existing : board[b].key # k

(* get_or_create_canvas: no lock, but one row has number 1.                *)
CreateFirst(u) ==
    /\ request[u].op = "first"
    /\ board[1].status = "absent"
    /\ Runs(u, "first", [board EXCEPT ![1] =
                [status |-> "active", order |-> 0, key |-> request[u].key,
                 edits |-> 0, returns |-> 0]])

(* create_version: a repeated key finds its board, the others move down.   *)
CreateVersion(u) ==
    LET r == request[u]
        new == Cardinality(Existing) + 1
    IN  /\ r.op = "create"
        /\ KeyIsFree(r.key)
        /\ r.source \in Active
        /\ new \in Boards
        /\ Runs(u, "create", [b \in Boards |->
                IF b = new
                THEN [status |-> "active", order |-> 0, key |-> r.key,
                      edits |-> board[r.source].edits, returns |-> board[r.source].returns]
                ELSE IF b \in Active THEN [board[b] EXCEPT !.order = @ + 1] ELSE board[b]])

Renumbered(s) == [b \in Boards |->
    IF b \in ToSet(s)
    THEN [board[b] EXCEPT !.order = (CHOOSE i \in DOMAIN s : s[i] = b) - 1]
    ELSE board[b]]

ReorderVersions(u) ==
    /\ request[u].op = "reorder"
    /\ ToSet(request[u].order) = Active
    /\ Runs(u, "reorder", Renumbered(request[u].order))

(* Faulty variant: nobody counts the boards that are left.                 *)
DeleteAnyLatest(u) ==
    /\ request[u].op = "delete"
    /\ IsLatest(request[u].board)
    /\ Runs(u, "delete", [board EXCEPT ![request[u].board].status = "deleted"])

(* delete_latest_version: not the last board; the next one is promoted.    *)
DeleteLatestVersion(u) ==
    LET b == request[u].board
        left == [c \in Boards |-> IF c \in Active \ {b}
                                  THEN [board[c] EXCEPT !.order =
                                          Cardinality({d \in Active \ {b, c} : IsBefore(d, c)})]
                                  ELSE board[c]]
    IN  /\ request[u].op = "delete"
        /\ IsLatest(b)
        /\ Active # {b}
        /\ Runs(u, "delete", [left EXCEPT ![b].status = "deleted"])

(* Faulty variant: what was checked when the request came is not checked   *)
(* again.                                                                  *)
EditAdmitted(u) ==
    LET b == request[u].board IN
    /\ request[u].op = "edit"
    /\ b \in Active
    /\ board[b].edits < MaxEdits
    /\ Runs(u, "edit", [board EXCEPT ![b].edits = @ + 1])

(* Any write of an editor (_lock_canvas): PRD and board are looked at      *)
(* again.                                                                  *)
Edit(u) ==
    LET b == request[u].board IN
    /\ request[u].op = "edit"
    /\ Writable
    /\ IsLatest(b)
    /\ board[b].edits < MaxEdits
    /\ Runs(u, "edit", [board EXCEPT ![b].edits = @ + 1])

ManageVersions(u) == CreateVersion(u) \/ ReorderVersions(u) \/ DeleteLatestVersion(u)

GiveBack(boards) ==
    /\ \A b \in boards : board[b].returns < MaxReturns
    /\ board' = [b \in Boards |->
                    IF b \in boards THEN [board[b] EXCEPT !.returns = @ + 1] ELSE board[b]]
    /\ UNCHANGED request

(* remove_participant: the PRD is locked and in progress.  Notes of any    *)
(* board may have been assigned to who is removed, of deleted ones too.    *)
RemoveParticipant ==
    /\ Writable
    /\ \E boards \in (SUBSET Existing) \ {{}} : GiveBack(boards)
    /\ UNCHANGED prd

(* _restore_removed_assignees: it locks the notes and nothing else, so     *)
(* that the PRD is completed still, reopened or in the trash.              *)
RestoreRemovedAssignees ==
    /\ prd.due > 0
    /\ \E boards \in SUBSET Active : GiveBack(boards)
    /\ prd' = [prd EXCEPT !.due = @ - 1]

Next ==
    \/ PrdChanges
    \/ RemoveParticipant \/ RestoreRemovedAssignees
    \/ \E u \in Users :
         \/ AdmitRequest(u) \/ Refuse(u)
         \/ CreateFirst(u) \/ ManageVersions(u) \/ Edit(u)

Spec == Init /\ [][Next]_vars
-----------------------------------------------------------------------------
(* The active boards are numbered 0, 1, ... in the order of the list, so   *)
(* that exactly one of them is the latest, whatever requests overlap.      *)
OrderIsExact == {board[b].order : b \in Active} = 0..(Cardinality(Active) - 1)

(* A PRD that has a board never loses its last one, not even to two        *)
(* deletions of different boards sent together.                            *)
ABoardRemains == [][Active # {} => Active' # {}]_vars

(* The list of boards stays in order and is never emptied.                 *)
BoardsStayInOrder == []OrderIsExact /\ ABoardRemains

(* What an editor writes reaches a board only while it is the latest one   *)
(* of a PRD in progress, whatever the request saw when it was admitted.    *)
(* All that comes to other boards is notes given back: to any board while  *)
(* the PRD is in progress, else to active ones by a scheduling.            *)
OnlyLatestIsEdited == [][ \A b \in Existing :
    /\ board'[b].edits # board[b].edits => IsLatest(b) /\ Writable
    /\ board'[b].returns # board[b].returns => Writable \/ (b \in Active /\ prd.due > 0) ]_vars

(* What docs/FUNCTIONAL_SPEC.md says: a board that is not the latest can   *)
(* only be read, its assignees too.  Giving notes back does not keep to it.*)
OnlyLatestIsWritten == [][ \A b \in Existing :
    \/ board'[b].edits # board[b].edits
    \/ board'[b].returns # board[b].returns
    => IsLatest(b) ]_vars
=============================================================================
