---------------------------- MODULE PrdLifecycle ----------------------------
(***************************************************************************)
(* The life of one PRD: metadata edits with optimistic versions, manual    *)
(* and automatic completion, reopening, the trash and the purge            *)
(* (apps/prds/status_services.py, detail_views.py, apps/jobs/cleanup.py).  *)
(*                                                                         *)
(* A web request is two steps: it reads the PRD to decide what the user    *)
(* may do (PrdAccessService.get), then it locks the row and writes.        *)
(* Everybody else's requests, the midnight maintenance and the clock come  *)
(* in between.                                                             *)
(***************************************************************************)
EXTENDS Integers, Sequences

CONSTANTS Actors,      (* the users at work on this PRD                    *)
          RoleOf,      (* "owner", "editor" or "admin" (a non-participant) *)
          Titles,      (* titles and descriptions the PRD may carry        *)
          LastDay,     (* bound: the last day the clock reaches            *)
          Retention,   (* PRD_TRASH_RETENTION_DAYS                         *)
          MaxVersion   (* bound: users stop writing at this version        *)

ASSUME RoleOfAssumption == RoleOf \in [Actors -> {"owner", "editor", "admin"}]
ASSUME TitlesAssumption == Titles # {}
ASSUME LastDayAssumption == LastDay \in Nat
ASSUME RetentionAssumption == Retention \in Nat \ {0}
ASSUME MaxVersionAssumption == MaxVersion \in Nat

VARIABLES prd,        (* the row of table prds                             *)
          today,      (* timezone.localdate()                              *)
          audit,      (* prd_status_audit_logs, oldest first               *)
          deletions,  (* prd_deletion_audit_logs, oldest first             *)
          page,       (* what each user has on the screen                  *)
          access      (* what the request of each user was admitted on     *)

vars == <<prd, today, audit, deletions, page, access>>
-----------------------------------------------------------------------------
Days == 0..LastDay
NoDay == -1
Deadlines == Days \cup {NoDay}

Open == {"in_progress", "held", "dropped"}
Statuses == Open \cup {"completed"}

(* deleted_on and completed_on stand for deleted_at and completed_at; gone *)
(* is a row that exists no longer.                                         *)
PrdRow == [gone : BOOLEAN, title : Titles, status : Statuses,
           deadline : Deadlines, completed_on : Deadlines, version : Nat,
           deleted_on : Deadlines, purge_requested : BOOLEAN]

Trashed(row) == row.deleted_on # NoDay
Live(row) == ~row.gone /\ ~Trashed(row)

(* A detail page, or a line of the trash list, shows the row as it was;    *)
(* version 0 stands for a page that was not loaded yet.                    *)
NoAccess == "no access"

(* The last conjunct is a constraint of the table: a deletion is confirmed *)
(* only of a PRD in the trash (prd_purge_request_consistent).              *)
TypeOK ==
    /\ prd \in PrdRow /\ prd.version > 0
    /\ today \in Days
    /\ audit \in Seq([action : {"completed", "reopened"}, auto : BOOLEAN])
    /\ deletions \in Seq([action : {"trashed", "restored", "delete_completed", "purged"},
                          day : Days])
    /\ page \in [Actors -> PrdRow]
    /\ access \in [Actors -> Statuses \cup {NoAccess}]
    /\ prd.purge_requested => Trashed(prd)

Init ==
    /\ \E t \in Titles, d \in Deadlines :
         prd = [gone |-> FALSE, title |-> t, status |-> "in_progress", deadline |-> d,
                completed_on |-> NoDay, version |-> 1,
                deleted_on |-> NoDay, purge_requested |-> FALSE]
    /\ today = 0
    /\ audit = <<>>
    /\ deletions = <<>>
    /\ page = [a \in Actors |-> [prd EXCEPT !.version = 0]]
    /\ access = [a \in Actors |-> NoAccess]
-----------------------------------------------------------------------------
Overdue(row) == row.deadline # NoDay /\ row.deadline < today

(* RolePermissionPolicy for a request admitted while the PRD was in the    *)
(* given status; an administrator without a role may not edit.             *)
CanEdit(a, status) == RoleOf[a] \in {"owner", "editor"} /\ status # "completed"
CanChangeStatus(a) == RoleOf[a] \in {"owner", "admin"}
CanEditDeadline(a, status) ==
    CanEdit(a, status) \/ (status = "completed" /\ CanChangeStatus(a))

(* The reason of the latest completion, as reopen looks it up.             *)
LastCompletionWasAutomatic ==
    \E i \in DOMAIN audit :
        /\ audit[i].action = "completed"
        /\ audit[i].auto
        /\ \A k \in (i + 1)..Len(audit) : audit[k].action # "completed"

Logged(action) == deletions' = Append(deletions, [action |-> action, day |-> today])
Done(a) == access' = [access EXCEPT ![a] = NoAccess]
SawCurrentVersion(a) == page[a].version = prd.version
CanWrite == ~prd.gone /\ prd.version < MaxVersion
-----------------------------------------------------------------------------
(* Reads.  Every access completes the PRD first if it is overdue, in a     *)
(* transaction of its own (CompleteOverdue below); midnight may pass       *)
(* between that and the read.                                              *)

Load(a) ==
    /\ access[a] = NoAccess
    /\ Live(prd) \/ (~prd.gone /\ RoleOf[a] \in {"owner", "admin"})
    /\ page' = [page EXCEPT ![a] = prd]
    /\ UNCHANGED <<prd, today, audit, deletions, access>>

(* PrdAccessService.get of a writing request.                              *)
Admit(a) ==
    /\ access[a] = NoAccess
    /\ Live(prd)
    /\ access' = [access EXCEPT ![a] = prd.status]
    /\ UNCHANGED <<prd, today, audit, deletions, page>>

(* A request that is refused, invalid or dies leaves everything alone.     *)
Abandon(a) ==
    /\ access[a] # NoAccess
    /\ Done(a)
    /\ UNCHANGED <<prd, today, audit, deletions, page>>
-----------------------------------------------------------------------------
(* The row with the fields the request supplies.                           *)
Edited(row, supplied, t, s, d) ==
    [row EXCEPT !.title = IF "title" \in supplied THEN t ELSE @,
                !.status = IF "status" \in supplied THEN s ELSE @,
                !.deadline = IF "deadline" \in supplied THEN d ELSE @]

(* prd_metadata: any combination of the fields, permissions from the       *)
(* admission, everything else from the locked row.  A request that changes *)
(* nothing keeps the version.                                              *)
UpdateMetadata(a) ==
    \E supplied \in (SUBSET {"title", "status", "deadline"}) \ {{}},
       t \in Titles, s \in Open, d \in Deadlines :
        /\ access[a] # NoAccess
        /\ "title" \in supplied => CanEdit(a, access[a])
        /\ "deadline" \in supplied => CanEditDeadline(a, access[a])
        /\ "status" \in supplied => CanChangeStatus(a)
        /\ CanWrite
        /\ Live(prd)
        /\ SawCurrentVersion(a)
        /\ prd.status = "completed" =>
             /\ supplied = {"deadline"}
             /\ d # NoDay
             /\ d >= today
        /\ LET new == Edited(prd, supplied, t, s, d)
           IN  prd' = IF new = prd THEN prd ELSE [new EXCEPT !.version = @ + 1]
        /\ Done(a)
        /\ UNCHANGED <<today, audit, deletions, page>>

(* Faulty variants: completing without moving the version, and completing  *)
(* with a save of all columns that takes the PRD out of the trash.         *)
CompletedSilently(row) ==
    [row EXCEPT !.status = "completed", !.completed_on = today]

CompletedAndRevived(row) ==
    [row EXCEPT !.status = "completed", !.completed_on = today, !.version = @ + 1,
                !.deleted_on = NoDay]

Completed(row) ==
    [row EXCEPT !.status = "completed", !.completed_on = today, !.version = @ + 1]

(* Faulty variant: completing without looking at the status.               *)
CompleteTwice(a) ==
    /\ access[a] # NoAccess
    /\ RoleOf[a] = "owner"
    /\ CanWrite
    /\ prd' = Completed(prd)
    /\ audit' = Append(audit, [action |-> "completed", auto |-> FALSE])
    /\ Done(a)
    /\ UNCHANGED <<today, deletions, page>>

(* PrdStatusService.complete: the admission gives the role, the locked row *)
(* the status; nothing looks at the trash again.  A completion the owner   *)
(* has to confirm because questions are open is refused like any other.    *)
Complete(a) ==
    /\ access[a] # NoAccess
    /\ RoleOf[a] = "owner"
    /\ CanWrite
    /\ prd.status = "in_progress"
    /\ prd' = Completed(prd)
    /\ audit' = Append(audit, [action |-> "completed", auto |-> FALSE])
    /\ Done(a)
    /\ UNCHANGED <<today, deletions, page>>

(* Faulty variant: reopening without moving the version.                   *)
ReopenSilently(a) ==
    /\ access[a] # NoAccess
    /\ CanChangeStatus(a)
    /\ CanWrite
    /\ prd.status = "completed"
    /\ prd' = [prd EXCEPT !.status = "in_progress", !.completed_on = NoDay]
    /\ audit' = Append(audit, [action |-> "reopened", auto |-> FALSE])
    /\ Done(a)
    /\ UNCHANGED <<today, deletions, page>>

Reopen(a) ==
    /\ access[a] # NoAccess
    /\ CanChangeStatus(a)
    /\ CanWrite
    /\ prd.status = "completed"
    /\ LastCompletionWasAutomatic => prd.deadline # NoDay /\ prd.deadline >= today
    /\ prd' = [prd EXCEPT !.status = "in_progress", !.completed_on = NoDay, !.version = @ + 1]
    /\ audit' = Append(audit, [action |-> "reopened", auto |-> FALSE])
    /\ Done(a)
    /\ UNCHANGED <<today, deletions, page>>
-----------------------------------------------------------------------------
(* The trash.                                                              *)

TrashPrd(a) ==
    /\ access[a] # NoAccess
    /\ CanChangeStatus(a)
    /\ CanWrite
    /\ Live(prd)
    /\ SawCurrentVersion(a)
    /\ prd' = [prd EXCEPT !.deleted_on = today, !.purge_requested = FALSE, !.version = @ + 1]
    /\ Logged("trashed")
    /\ Done(a)
    /\ UNCHANGED <<today, audit, page>>

(* Restoring and confirming take the row from the trash list, without an   *)
(* access to the PRD; the creator or an administrator may do both.         *)
FromTrash(a) ==
    /\ access[a] = NoAccess
    /\ CanChangeStatus(a)
    /\ CanWrite
    /\ Trashed(prd)
    /\ SawCurrentVersion(a)

(* Faulty variant: a restored PRD keeps the confirmation of its deletion.  *)
RestoreKeepingRequest(a) ==
    /\ FromTrash(a)
    /\ prd.purge_requested => RoleOf[a] = "admin"
    /\ prd' = [prd EXCEPT !.deleted_on = NoDay, !.version = @ + 1]
    /\ Logged("restored")
    /\ UNCHANGED <<today, audit, page, access>>

RestorePrd(a) ==
    /\ FromTrash(a)
    /\ prd.purge_requested => RoleOf[a] = "admin"
    /\ prd' = [prd EXCEPT !.deleted_on = NoDay, !.purge_requested = FALSE, !.version = @ + 1]
    /\ Logged("restored")
    /\ UNCHANGED <<today, audit, page, access>>

ConfirmDeletion(a) ==
    /\ FromTrash(a)
    /\ ~prd.purge_requested
    /\ prd' = [prd EXCEPT !.purge_requested = TRUE, !.version = @ + 1]
    /\ Logged("delete_completed")
    /\ UNCHANGED <<today, audit, page, access>>
-----------------------------------------------------------------------------
(* Midnight maintenance, and the access to a PRD nobody maintained yet.    *)

(* Faulty variant: held PRDs are left out.                                 *)
CompleteOverdueInProgress ==
    /\ Live(prd)
    /\ prd.status = "in_progress"
    /\ Overdue(prd)
    /\ prd' = Completed(prd)
    /\ audit' = Append(audit, [action |-> "completed", auto |-> TRUE])
    /\ UNCHANGED <<today, deletions, page, access>>

CompleteOverdue ==
    /\ Live(prd)
    /\ prd.status \in {"in_progress", "held"}
    /\ Overdue(prd)
    /\ prd' = Completed(prd)
    /\ audit' = Append(audit, [action |-> "completed", auto |-> TRUE])
    /\ UNCHANGED <<today, deletions, page, access>>

(* Faulty variant: a day too early.                                        *)
RetentionNearlyOver(row) == Trashed(row) /\ today - row.deleted_on >= Retention - 1

RetentionOver(row) == Trashed(row) /\ today - row.deleted_on >= Retention

PurgeDeleted ==
    /\ ~prd.gone
    /\ RetentionOver(prd)
    /\ prd' = [prd EXCEPT !.gone = TRUE]
    /\ Logged("purged")
    /\ UNCHANGED <<today, audit, page, access>>

NextDay ==
    /\ today < LastDay
    /\ today' = today + 1
    /\ UNCHANGED <<prd, audit, deletions, page, access>>
-----------------------------------------------------------------------------
ChangeStatus(a) == Complete(a) \/ Reopen(a)

Request(a) ==
    \/ Load(a) \/ Admit(a) \/ Abandon(a)
    \/ UpdateMetadata(a) \/ ChangeStatus(a)
    \/ TrashPrd(a) \/ RestorePrd(a) \/ ConfirmDeletion(a)

Maintenance == CompleteOverdue \/ PurgeDeleted

Next == (\E a \in Actors : Request(a)) \/ Maintenance \/ NextDay

(* The maintenance command runs every day; users promise nothing.          *)
Fairness == WF_vars(CompleteOverdue) /\ WF_vars(PurgeDeleted) /\ WF_vars(NextDay)

Spec == Init /\ [][Next]_vars
FairSpec == Spec /\ Fairness
-----------------------------------------------------------------------------
(* Safety.                                                                 *)

(* Metadata edits cannot leave or enter completed, so the audit log tells  *)
(* it all: completions and reopenings alternate, and the PRD is completed, *)
(* and has a completion time, exactly while the last entry says so.        *)
CompletionIsAudited ==
    /\ \A i \in DOMAIN audit : audit[i].action = "completed" <=> i % 2 = 1
    /\ prd.status = "completed" <=> Len(audit) % 2 = 1
    /\ prd.status = "completed" <=> prd.completed_on # NoDay

(* The optimistic version is worth something only if every write moves it: *)
(* whoever still holds the current version sees the PRD as it is, so a     *)
(* versioned edit, deletion or restore never overwrites an unseen change.  *)
VersionIdentifiesContent == \A a \in Actors :
    page[a].version = prd.version /\ ~prd.gone => page[a] = prd

(* Permissions are decided before the row is locked.  The version check    *)
(* makes up for it: an editor's request that was admitted while the PRD    *)
(* was open never moves the deadline of a completed one.                   *)
EditorLeavesCompletedAlone == [][\A a \in Actors :
    RoleOf[a] = "editor" /\ UpdateMetadata(a) => prd.status # "completed"]_vars

(* In the trash a PRD stands still: only a completion or a reopening that  *)
(* was admitted before still changes it.                                   *)
TrashIsQuiet == [][
    Trashed(prd) /\ Trashed(prd')
      => /\ prd'.title = prd.title /\ prd'.deadline = prd.deadline
         /\ \/ prd'.status = prd.status
            \/ \E a \in Actors : access[a] # NoAccess]_vars

(* A PRD is deleted for good only after it lay in the trash for the whole  *)
(* retention time without a break.                                         *)
RetentionIsKept == prd.gone =>
    \E i \in DOMAIN deletions :
        /\ deletions[i].action = "trashed"
        /\ deletions[Len(deletions)].day - deletions[i].day >= Retention
        /\ \A k \in i..Len(deletions) : deletions[k].action # "restored"

(* Refinement.                                                             *)
Contract == INSTANCE PrdContract
              WITH phase <- IF prd.gone THEN "gone"
                            ELSE IF prd.status = "completed" THEN "completed" ELSE "open",
                   trashed <- Trashed(prd),
                   cycle <- (Len(audit) + 1) \div 2

(* Edits, permissions, versions and days hidden, this is PrdContract.      *)
ImplementsContract == Contract!Spec
-----------------------------------------------------------------------------
(* Liveness, under Fairness.                                               *)

(* Nobody has to open an overdue PRD, held ones included, for it to be     *)
(* completed: it does not stay overdue and open.                           *)
OverduePrdsComplete ==
    Live(prd) /\ prd.status \in {"in_progress", "held"} /\ Overdue(prd)
      ~> prd.status \in {"completed", "dropped"} \/ ~Overdue(prd) \/ ~Live(prd)

(* What is in the trash leaves it, one way or the other, although nobody   *)
(* ever confirms the deletion (within the days the bound allows).          *)
TrashIsEmptied ==
    Trashed(prd) /\ prd.deleted_on + Retention <= LastDay ~> prd.gone \/ ~Trashed(prd)

(* Both, although nobody looks at the PRD.                                 *)
MaintenanceIsDone == OverduePrdsComplete /\ TrashIsEmptied
=============================================================================
