------------------------------- MODULE People -------------------------------
(***************************************************************************)
(* The people of one PRD: its participants, their comments, and the        *)
(* assignee of a note of its board (PrdCreationService,                    *)
(* PrdParticipantService, PrdCommentService, and assign, undo and redo of  *)
(* BrainstormMutationService; ContributionEvaluationService, which gives   *)
(* notes back after a completion).  A request reads the role of its sender *)
(* first; it locks the PRD, and sees the present status, only later.  A    *)
(* PRD in the trash refuses everything and is left out.                    *)
(***************************************************************************)
EXTENDS Integers, FiniteSets

CONSTANTS Users,       (* eligible users of the parent service               *)
          Creator,     (* the user who creates the PRD                       *)
          Admins,      (* users whom the parent service names administrators *)
          TeamShared,  (* whether the team may look at the PRD               *)
          Schedulers,  (* processes that complete the PRD                    *)
          MaxComments, (* bound: comments on the PRD                         *)
          MaxVersion,  (* bound: the last version of a row                   *)
          MaxNoteVersion (* bound: the last version of the note              *)

ASSUME CreatorAssumption == Creator \in Users
ASSUME AdminAssumption == Admins \subseteq Users
ASSUME SharedAssumption == TeamShared \in BOOLEAN
ASSUME BoundAssumption ==
    MaxComments \in Nat /\ MaxVersion \in Nat \ {0} /\ MaxNoteVersion \in Nat \ {0}

VARIABLES prd,       (* the status of the PRD                                *)
          member,    (* user -> row of the participant                       *)
          note,      (* a note of the latest board                           *)
          change,    (* the last assignment in the change log of the board   *)
          comments,  (* the comments, in the order of their creation         *)
          admitted,  (* user -> the role read for the request under way      *)
          scheduler  (* schedule_for_completion: where it is in each process *)

vars == <<prd, member, note, change, comments, admitted, scheduler>>
-----------------------------------------------------------------------------
Versions == 1..MaxVersion
NoteVersions == 1..MaxNoteVersion
GivenRoles == {"editor", "tutor", "viewer"}
Roles == GivenRoles \cup {"owner"}
Nothing == [kind |-> "none"]
Nobody == "nobody"
Review == "post_completion_review"

Participant == [role : Roles, version : Versions]
(* "restored" is no column: the note came back from a deletion with the    *)
(* assignee it had then.                                                   *)
Note == [author : Users, assignee : Users \cup {Nobody}, version : NoteVersions,
         deleted : BOOLEAN, restored : BOOLEAN]
Change == [by : Users, before : Users \cup {Nobody}, after : Users \cup {Nobody},
           version : NoteVersions, undone : BOOLEAN]
(* The participants are those it has read.                                 *)
Scheduler == [step : {"idle", "due", "read"}, participants : SUBSET Users]
At(step, participants) == [step |-> step, participants |-> participants]
Comment == [author : Users, role : Roles \ {"viewer"},
            type : {"general", "guidance", "review", Review},
            eligible : BOOLEAN, version : Versions, deleted : BOOLEAN]

TypeOK ==
    /\ prd \in {"absent", "in_progress", "completed"}
    /\ member \in [Users -> {Nothing} \cup Participant]
    /\ note = Nothing \/ note \in Note
    /\ change = Nothing \/ change \in Change
    /\ comments \in [1..MaxComments -> {Nothing} \cup Comment]
    /\ admitted \in [Users -> Roles \cup {"none", "idle"}]
    /\ scheduler \in [Schedulers -> Scheduler]

Init ==
    /\ prd = "absent"
    /\ member = [u \in Users |-> Nothing]
    /\ note = Nothing
    /\ change = Nothing
    /\ comments = [i \in 1..MaxComments |-> Nothing]
    /\ admitted = [u \in Users |-> "idle"]
    /\ scheduler = [s \in Schedulers |-> At("idle", {})]

IsMember(u) == member[u] # Nothing
InProgress == prd = "in_progress"

(* The policies of the roles.                                              *)
MayWrite(role) == InProgress /\ role \in {"owner", "editor"}
MayCreateNote(role) == InProgress /\ role \in {"owner", "editor", "tutor"}
MayManageAlways(u) == u \in Admins \/ admitted[u] = "owner"
MayManage(u) == InProgress /\ (u \in Admins \/ admitted[u] = "owner")

CommentTypesOfAnyone(role) ==
    IF role = "tutor" THEN {"guidance", "review", Review} ELSE {"general"}
CommentTypes(role) ==
    CASE role \in {"owner", "editor"} -> {"general"}
      [] role = "tutor" -> {"guidance", "review", Review}
      [] OTHER -> {}

(* What a completed PRD still takes, and only it.                          *)
MayCreate(role, type) ==
    IF InProgress THEN type # Review ELSE role = "tutor" /\ type = Review
MayModify(role, type) == InProgress \/ (role = "tutor" /\ type = Review)
-----------------------------------------------------------------------------
(* The PRD is created with its owner and editors in one transaction.  A    *)
(* second request with the same key finds the PRD and changes nothing.     *)
CreatePrd(editors) ==
    /\ prd = "absent"
    /\ prd' = "in_progress"
    /\ member' = [u \in Users |->
         IF u = Creator THEN [role |-> "owner", version |-> 1]
         ELSE IF u \in editors THEN [role |-> "editor", version |-> 1]
         ELSE Nothing]
    /\ UNCHANGED <<note, change, comments, admitted, scheduler>>

(* After the commit the process that completed the PRD goes on.            *)
Complete(s) ==
    /\ InProgress /\ scheduler[s].step = "idle"
    /\ prd' = "completed"
    /\ scheduler' = [scheduler EXCEPT ![s] = At("due", {})]
    /\ UNCHANGED <<member, note, change, comments, admitted>>

Reopen ==
    /\ prd = "completed"
    /\ prd' = "in_progress"
    /\ UNCHANGED <<member, note, change, comments, admitted, scheduler>>

(* PrdAccessService.get: the role is the row's; a creator without a row is *)
(* still the owner, and whoever may only look has no role.                 *)
RoleOf(u) ==
    IF IsMember(u) THEN member[u].role ELSE IF u = Creator THEN "owner" ELSE "none"

Admit(u) ==
    /\ prd # "absent" /\ admitted[u] = "idle"
    /\ RoleOf(u) # "none" \/ TeamShared \/ u \in Admins
    /\ admitted' = [admitted EXCEPT ![u] = RoleOf(u)]
    /\ UNCHANGED <<prd, member, note, change, comments, scheduler>>

(* Reading, a body that is refused, a version that is no longer current.   *)
Answered(u) == admitted' = [admitted EXCEPT ![u] = "idle"]
GiveUp(u) ==
    /\ admitted[u] # "idle" /\ Answered(u)
    /\ UNCHANGED <<prd, member, note, change, comments, scheduler>>
-----------------------------------------------------------------------------
(* Participants.  Only rows that are missing are added.                    *)
Add(chosen, role) ==
    member' = [w \in Users |->
        IF w \in chosen /\ ~IsMember(w) THEN [role |-> role, version |-> 1] ELSE member[w]]

AddParticipants(u, chosen, role) ==
    /\ admitted[u] # "idle" /\ MayManage(u) /\ Answered(u)
    /\ Add(chosen \ {Creator}, role)
    /\ UNCHANGED <<prd, note, change, comments, scheduler>>

AddParticipant(u, w, role) ==
    /\ admitted[u] # "idle" /\ MayManage(u) /\ Answered(u)
    /\ Add({w}, role)
    /\ UNCHANGED <<prd, note, change, comments, scheduler>>

Changeable(row) == row.version < MaxVersion

UpdateRole(u, w, role, version) ==
    /\ admitted[u] # "idle" /\ MayManage(u) /\ Answered(u)
    /\ IsMember(w) /\ Changeable(member[w])
    /\ member[w].version = version /\ member[w].role # "owner"
    /\ member' = IF member[w].role = role THEN member
                 ELSE [member EXCEPT ![w] = [role |-> role, version |-> @.version + 1]]
    /\ UNCHANGED <<prd, note, change, comments, scheduler>>

GivenBackNever(w) == note

(* Live notes of the participant go back to their author; no entry of the  *)
(* change log is written, but the note has a new version.                  *)
GivenBack(w) ==
    IF note # Nothing /\ ~note.deleted /\ note.assignee = w
    THEN [note EXCEPT !.assignee = note.author, !.version = @ + 1, !.restored = FALSE]
    ELSE note

RemoveParticipant(u, w, version) ==
    /\ admitted[u] # "idle" /\ MayManage(u) /\ Answered(u)
    /\ IsMember(w) /\ member[w].version = version /\ member[w].role # "owner"
    /\ note # Nothing => note.version < MaxNoteVersion
    /\ member' = [member EXCEPT ![w] = Nothing]
    /\ note' = GivenBack(w)
    /\ UNCHANGED <<prd, change, comments, scheduler>>
-----------------------------------------------------------------------------
(* What schedule_for_completion does to the note, without a lock on the    *)
(* PRD, which may be open again by then.  It can fail at each step.        *)
ReadParticipants(s) ==
    /\ scheduler[s].step = "due"
    /\ scheduler' = [scheduler EXCEPT ![s] = At("read", {u \in Users : IsMember(u)})]
    /\ UNCHANGED <<prd, member, note, change, comments, admitted>>

(* A live note of somebody who was no participant goes back to its author, *)
(* also if it has been his all the time.                                   *)
Restored(participants) ==
    IF note # Nothing /\ ~note.deleted /\ note.assignee \notin participants \cup {Nobody}
    THEN [note EXCEPT !.assignee = note.author, !.version = @ + 1, !.restored = FALSE]
    ELSE note

RestoreRemovedAssignees(s) ==
    /\ scheduler[s].step = "read"
    /\ note # Nothing => note.version < MaxNoteVersion
    /\ note' = Restored(scheduler[s].participants)
    /\ scheduler' = [scheduler EXCEPT ![s] = At("idle", {})]
    /\ UNCHANGED <<prd, member, change, comments, admitted>>

SchedulingFails(s) ==
    /\ scheduler[s].step # "idle"
    /\ scheduler' = [scheduler EXCEPT ![s] = At("idle", {})]
    /\ UNCHANGED <<prd, member, note, change, comments, admitted>>
-----------------------------------------------------------------------------
(* Comments.  The role is the one the request was admitted with.           *)
CreateComment(u, i, type) ==
    /\ comments[i] = Nothing /\ \A j \in 1..i-1 : comments[j] # Nothing
    /\ type \in CommentTypes(admitted[u]) /\ MayCreate(admitted[u], type)
    /\ comments' = [comments EXCEPT ![i] =
         [author |-> u, role |-> admitted[u], type |-> type,
          eligible |-> admitted[u] \in {"owner", "editor"} /\ type = "general",
          version |-> 1, deleted |-> FALSE]]
    /\ Answered(u)
    /\ UNCHANGED <<prd, member, note, change, scheduler>>

(* Only its author changes a comment, whatever has become of the role.     *)
ModifyComment(u, i, version, deleted) ==
    /\ admitted[u] # "idle" /\ comments[i] # Nothing
    /\ LET comment == comments[i] IN
        /\ ~comment.deleted /\ comment.author = u /\ Changeable(comment)
        /\ MayModify(admitted[u], comment.type) /\ comment.version = version
        /\ comments' = [comments EXCEPT ![i].version = @ + 1, ![i].deleted = deleted]
    /\ Answered(u)
    /\ UNCHANGED <<prd, member, note, change, scheduler>>

UpdateComment(u, i, version) == ModifyComment(u, i, version, FALSE)
DeleteComment(u, i, version) == ModifyComment(u, i, version, TRUE)
-----------------------------------------------------------------------------
(* The note.                                                               *)
CreateNote(u) ==
    /\ note = Nothing /\ MayCreateNote(admitted[u]) /\ IsMember(u) /\ Answered(u)
    /\ note' = [author |-> u, assignee |-> u, version |-> 1,
                deleted |-> FALSE, restored |-> FALSE]
    /\ UNCHANGED <<prd, member, change, comments, scheduler>>

(* The note a request with this version may change.                        *)
Meets(u, version, deleted) ==
    /\ MayWrite(admitted[u])
    /\ note # Nothing /\ note.version = version /\ note.deleted = deleted
    /\ note.version < MaxNoteVersion

Assignable(who) == who \in {Nobody} \cup {w \in Users : IsMember(w)}

(* A note goes to a person; BrainstormNode.clean asks once more.           *)
Reassign(who) ==
    /\ Assignable(who)
    /\ note' = [note EXCEPT !.assignee = who, !.version = @ + 1, !.restored = FALSE]
Assign(u, who, version) ==
    /\ Meets(u, version, FALSE)
    /\ Reassign(who) /\ Answered(u)
    /\ change' = [by |-> u, before |-> note.assignee, after |-> who,
                  version |-> note.version + 1, undone |-> FALSE]
    /\ UNCHANGED <<prd, member, comments, scheduler>>

(* Undo and redo of an assignment need the note as it was left.  An older  *)
(* assignment is never current again, so the last one is all there is.     *)
Replay(u, undone, who) ==
    /\ change.by = u /\ change.undone # undone
    /\ Meets(u, change.version, FALSE)
    /\ Reassign(who) /\ Answered(u)
    /\ change' = [change EXCEPT !.undone = undone, !.version = note.version + 1]
    /\ UNCHANGED <<prd, member, comments, scheduler>>
UndoAssign(u) == change # Nothing /\ Replay(u, TRUE, change.before)
RedoAssign(u) == change # Nothing /\ Replay(u, FALSE, change.after)

DeleteNote(u, version) ==
    /\ Meets(u, version, FALSE) /\ Answered(u)
    /\ note' = [note EXCEPT !.deleted = TRUE, !.version = @ + 1]
    /\ UNCHANGED <<prd, member, change, comments, scheduler>>

(* Within thirty days; the undo of a deletion does the same.               *)
RestoreNote(u, version) ==
    /\ Meets(u, version, TRUE) /\ Answered(u)
    /\ note' = [note EXCEPT !.deleted = FALSE, !.version = @ + 1, !.restored = TRUE]
    /\ UNCHANGED <<prd, member, change, comments, scheduler>>
-----------------------------------------------------------------------------
Manage(u) ==
    \/ \E chosen \in SUBSET Users \ {{}}, role \in GivenRoles : AddParticipants(u, chosen, role)
    \/ \E w \in Users, role \in GivenRoles : AddParticipant(u, w, role)
    \/ \E w \in Users, role \in GivenRoles, v \in Versions : UpdateRole(u, w, role, v)
    \/ \E w \in Users, v \in Versions : RemoveParticipant(u, w, v)

Talk(u) ==
    \/ \E i \in 1..MaxComments, type \in {"general", "guidance", "review", Review} :
         CreateComment(u, i, type)
    \/ \E i \in 1..MaxComments, v \in Versions : UpdateComment(u, i, v)
    \/ \E i \in 1..MaxComments, v \in Versions : DeleteComment(u, i, v)

WorkOnNote(u) ==
    \/ CreateNote(u)
    \/ \E who \in Users \cup {Nobody}, v \in NoteVersions : Assign(u, who, v)
    \/ UndoAssign(u)
    \/ RedoAssign(u)
    \/ \E v \in NoteVersions : DeleteNote(u, v)
    \/ \E v \in NoteVersions : RestoreNote(u, v)

Next ==
    \/ \E editors \in SUBSET Users : CreatePrd(editors)
    \/ Reopen
    \/ \E s \in Schedulers :
         Complete(s) \/ ReadParticipants(s) \/ RestoreRemovedAssignees(s) \/ SchedulingFails(s)
    \/ \E u \in Users :
         \/ Admit(u)
         \/ GiveUp(u)
         \/ Manage(u)
         \/ Talk(u)
         \/ WorkOnNote(u)

Spec == Init /\ [][Next]_vars
-----------------------------------------------------------------------------
(* The creator, and nobody else, is the owner.                             *)
CreatorIsOwner ==
    /\ \A u \in Users : IsMember(u) => (member[u].role = "owner" <=> u = Creator)
    /\ IsMember(Creator)

(* A live note is nobody's, a participant's or its author's; only one that *)
(* was in the bin when its assignee was removed comes back to a stranger.  *)
NoteIsInKnownHands ==
    note # Nothing /\ ~note.deleted /\ ~note.restored =>
        Assignable(note.assignee) \/ note.assignee = note.author

(* A created PRD has exactly one owner, its creator, through every change  *)
(* of role and every removal, and a live note is in known hands - also     *)
(* after removals, undos and redos that requests admitted earlier carry    *)
(* out.                                                                    *)
MembershipIsSound == prd # "absent" => CreatorIsOwner /\ NoteIsInKnownHands

(* A note goes back to its author, and nothing else about it changes.      *)
GoesBack ==
    /\ note # Nothing
    /\ note' = [note EXCEPT !.assignee = note.author, !.version = @ + 1, !.restored = FALSE]
    /\ \E s \in Schedulers : scheduler[s].step = "read"
                            /\ note.assignee \notin scheduler[s].participants

(* While the PRD is completed its participants stand still, the note at    *)
(* most goes back to its author from somebody who was no participant when  *)
(* a completion looked, and the comments that come or change are tutors'   *)
(* reviews, whenever the request behind the change was admitted.           *)
CompletedTakesReviewsAndReturns ==
    [][prd = "completed" =>
        /\ member' = member
        /\ note' = note \/ GoesBack
        /\ \A i \in 1..MaxComments : comments'[i] # comments[i] =>
             comments'[i].type = Review /\ comments'[i].role = "tutor"]_vars
-----------------------------------------------------------------------------
(* What the documents say, and the code does not do.                       *)

(* docs/FUNCTIONAL_SPEC.md:123: after the completion the assignees of      *)
(* notes are locked.  The scheduler of the completion changes them.        *)
CompletedLocksAssignees ==
    [][prd = "completed" /\ note # Nothing => note'.assignee = note.assignee]_vars
=============================================================================
