------------------------- MODULE PrdLifecycleProofs -------------------------
(***************************************************************************)
(* Proofs about the life of a PRD, for any users and roles, titles,        *)
(* retention, last day and last version.                                   *)
(*                                                                         *)
(* Optimistic versions work because of two facts that the requests keep    *)
(* together: no page is ahead of the row (PagesAreOld), and a request      *)
(* whose page is current was admitted on the row as it still is            *)
(* (AdmissionIsCurrent).  The retention is kept because the row and its    *)
(* log agree on when it was put in the trash (TrashIsLogged).              *)
(***************************************************************************)
EXTENDS PrdLifecycle, TLAPS

(* A user's page shows the present row or an earlier one.                  *)
PagesAreOld == \A a \in Actors : page[a].version <= prd.version

(* The page of a request was loaded before its admission: if nothing       *)
(* moved the version since, nothing moved the status either.               *)
AdmissionIsCurrent == \A a \in Actors :
    access[a] # NoAccess /\ page[a].version = prd.version /\ ~prd.gone
      => access[a] = prd.status

VersionInv == VersionIdentifiesContent /\ PagesAreOld /\ AdmissionIsCurrent

(* The day on the row is the day of a log entry that no restore follows.   *)
TrashIsLogged == Trashed(prd) =>
    \E i \in DOMAIN deletions :
        /\ deletions[i].action = "trashed"
        /\ deletions[i].day = prd.deleted_on
        /\ \A k \in i..Len(deletions) : deletions[k].action # "restored"

RetentionInv == TrashIsLogged /\ RetentionIsKept
-----------------------------------------------------------------------------
(* Types.                                                                  *)

LEMMA Constants ==
  /\ NoDay \in Deadlines /\ NoDay \notin Days
  /\ Days \subseteq Deadlines /\ Days \subseteq Int
  /\ Open \subseteq Statuses /\ "in_progress" \in Open
  /\ "completed" \in Statuses /\ "completed" \notin Open
  /\ NoAccess \notin Statuses
BY DEF NoDay, Deadlines, Days, Open, Statuses, NoAccess

LEMMA Appended ==
  ASSUME NEW S, NEW s \in Seq(S), NEW e \in S
  PROVE  /\ Append(s, e) \in Seq(S)
         /\ Len(s) \in Nat
         /\ DOMAIN s = 1..Len(s)
         /\ Len(Append(s, e)) = Len(s) + 1
         /\ DOMAIN Append(s, e) = 1..(Len(s) + 1)
         /\ Append(s, e)[Len(s) + 1] = e
         /\ \A i \in 1..Len(s) : Append(s, e)[i] = s[i]
OBVIOUS

LEMMA InitType == Init => TypeOK
<1> SUFFICES ASSUME Init PROVE TypeOK
  OBVIOUS
<1>1. prd \in PrdRow /\ prd.version > 0 /\ ~prd.purge_requested
  BY Constants DEF Init, PrdRow
<1>2. [prd EXCEPT !.version = 0] \in PrdRow
  BY <1>1 DEF PrdRow
<1>3. page \in [Actors -> PrdRow]
  BY <1>2 DEF Init
<1>4. today \in Days
  BY LastDayAssumption DEF Init, Days
<1>5. access \in [Actors -> Statuses \cup {NoAccess}]
  BY DEF Init
<1>6. audit = <<>> /\ deletions = <<>>
  BY DEF Init
<1> QED BY <1>1, <1>3, <1>4, <1>5, <1>6 DEF TypeOK

LEMMA NextVersion ==
  ASSUME NEW row \in PrdRow
  PROVE  row.version + 1 \in Nat /\ row.version + 1 > row.version /\ row.version + 1 > 0
BY DEF PrdRow

LEMMA CompletedType ==
  ASSUME NEW row \in PrdRow, today \in Days
  PROVE  Completed(row) \in PrdRow
BY NextVersion, Constants DEF Completed, PrdRow

(* An edit writes nothing or moves the version; it needs the PRD live and  *)
(* the user's page current, and leaves the trash and the times alone.      *)
LEMMA UpdateWrites ==
  ASSUME NEW a \in Actors, prd \in PrdRow, prd.version > 0, UpdateMetadata(a)
  PROVE  /\ prd' \in PrdRow
         /\ prd'.version > 0
         /\ prd' = prd \/ prd'.version > prd.version
         /\ prd'.gone = prd.gone
         /\ prd'.deleted_on = prd.deleted_on
         /\ prd'.purge_requested = prd.purge_requested
         /\ prd'.completed_on = prd.completed_on
         /\ prd'.status = "completed" <=> prd.status = "completed"
<1>1. PICK supplied \in (SUBSET {"title", "status", "deadline"}) \ {{}},
           t \in Titles, s \in Open, d \in Deadlines :
        /\ prd.status = "completed" => supplied = {"deadline"}
        /\ prd' = IF Edited(prd, supplied, t, s, d) = prd THEN prd
                  ELSE [Edited(prd, supplied, t, s, d) EXCEPT !.version = @ + 1]
  BY ZenonT(30) DEF UpdateMetadata
<1> DEFINE new == Edited(prd, supplied, t, s, d)
<1>2. new \in PrdRow
  BY Constants DEF Edited, PrdRow
<1>3. /\ new.version = prd.version /\ new.gone = prd.gone
      /\ new.deleted_on = prd.deleted_on /\ new.completed_on = prd.completed_on
      /\ new.purge_requested = prd.purge_requested
  BY DEF Edited, PrdRow
<1>4. new.status = "completed" <=> prd.status = "completed"
  <2>1. CASE prd.status = "completed"
    BY <1>1, <2>1 DEF Edited, PrdRow
  <2>2. CASE prd.status # "completed"
    BY <2>2, Constants DEF Edited, PrdRow
  <2> QED BY <2>1, <2>2
<1>5. prd' = IF new = prd THEN prd ELSE [new EXCEPT !.version = @ + 1]
  BY <1>1
<1> HIDE DEF new
<1>6. new.version + 1 \in Nat /\ new.version + 1 > prd.version
  BY <1>2, <1>3, NextVersion
<1>7. [new EXCEPT !.version = @ + 1] \in PrdRow
  BY <1>2, <1>6 DEF PrdRow
<1>8. CASE new # prd
  BY <1>2, <1>3, <1>4, <1>5, <1>6, <1>7, <1>8 DEF PrdRow
<1> QED BY <1>5, <1>8

LEMMA StepType == TypeOK /\ [Next]_vars => TypeOK'
<1> SUFFICES ASSUME TypeOK, [Next]_vars PROVE TypeOK'
  OBVIOUS
<1> USE DEF TypeOK
<1>1. ASSUME NEW a \in Actors, Load(a) PROVE TypeOK'
  BY <1>1 DEF Load, Trashed
<1>2. ASSUME NEW a \in Actors, Admit(a) PROVE TypeOK'
  BY <1>2 DEF Admit, PrdRow, Trashed
<1>3. ASSUME NEW a \in Actors, Abandon(a) PROVE TypeOK'
  BY <1>3 DEF Abandon, Done, Trashed
<1>4. ASSUME NEW a \in Actors, UpdateMetadata(a) PROVE TypeOK'
  <2>1. /\ prd' \in PrdRow /\ prd'.version > 0
        /\ prd'.purge_requested = prd.purge_requested /\ prd'.deleted_on = prd.deleted_on
    BY <1>4, UpdateWrites DEF Trashed
  <2>3. access' \in [Actors -> Statuses \cup {NoAccess}]
    BY <1>4 DEF UpdateMetadata, Done
  <2> QED BY <1>4, <2>1, <2>3 DEF UpdateMetadata, Trashed
<1>5. ASSUME NEW a \in Actors, Complete(a) PROVE TypeOK'
  <2>1. prd' \in PrdRow
    BY <1>5, CompletedType DEF Complete
  <2>2. /\ prd'.version > 0
        /\ prd'.purge_requested = prd.purge_requested /\ prd'.deleted_on = prd.deleted_on
    BY <1>5 DEF Complete, Completed, PrdRow
  <2> QED BY <1>5, <2>1, <2>2 DEF Complete, Done, Trashed
<1>6. ASSUME NEW a \in Actors, Reopen(a) PROVE TypeOK'
  <2>1. prd' \in PrdRow /\ prd'.version > 0
    BY <1>6, NextVersion, Constants DEF Reopen, PrdRow
  <2>2. prd'.purge_requested = prd.purge_requested /\ prd'.deleted_on = prd.deleted_on
    BY <1>6 DEF Reopen, PrdRow
  <2> QED BY <1>6, <2>1, <2>2 DEF Reopen, Done, Trashed
<1>7. ASSUME NEW a \in Actors, TrashPrd(a) PROVE TypeOK'
  <2>1. prd' \in PrdRow /\ prd'.version > 0 /\ ~prd'.purge_requested
    BY <1>7, NextVersion, Constants DEF TrashPrd, PrdRow
  <2> QED BY <1>7, <2>1 DEF TrashPrd, Done, Logged
<1>8. ASSUME NEW a \in Actors, RestorePrd(a) PROVE TypeOK'
  <2>1. prd' \in PrdRow /\ prd'.version > 0 /\ ~prd'.purge_requested
    BY <1>8, NextVersion, Constants DEF RestorePrd, PrdRow
  <2> QED BY <1>8, <2>1 DEF RestorePrd, Logged
<1>9. ASSUME NEW a \in Actors, ConfirmDeletion(a) PROVE TypeOK'
  <2>1. prd' \in PrdRow /\ prd'.version > 0 /\ prd'.deleted_on = prd.deleted_on
    BY <1>9, NextVersion DEF ConfirmDeletion, PrdRow
  <2> QED BY <1>9, <2>1 DEF ConfirmDeletion, FromTrash, Logged, Trashed
<1>10. CASE CompleteOverdue
  <2>1. prd' \in PrdRow
    BY <1>10, CompletedType DEF CompleteOverdue
  <2>2. /\ prd'.version > 0
        /\ prd'.purge_requested = prd.purge_requested /\ prd'.deleted_on = prd.deleted_on
    BY <1>10 DEF CompleteOverdue, Completed, PrdRow
  <2> QED BY <1>10, <2>1, <2>2 DEF CompleteOverdue, Trashed
<1>11. CASE PurgeDeleted
  <2>1. prd' \in PrdRow /\ prd'.version > 0 /\ prd'.deleted_on = prd.deleted_on
    BY <1>11 DEF PurgeDeleted, PrdRow
  <2> QED BY <1>11, <2>1 DEF PurgeDeleted, RetentionOver, Logged, Trashed
<1>12. CASE NextDay
  BY <1>12, LastDayAssumption DEF NextDay, Days, Trashed
<1>13. CASE UNCHANGED vars
  BY <1>13 DEF vars, Trashed
<1> QED
  BY <1>1, <1>2, <1>3, <1>4, <1>5, <1>6, <1>7, <1>8, <1>9, <1>10, <1>11, <1>12, <1>13
     DEF Next, Request, ChangeStatus, Maintenance

(* The row, the clock, the logs, the pages and the admissions keep their   *)
(* types, and a deletion is confirmed only of a PRD in the trash.          *)
THEOREM LifecycleTypes == Spec => []TypeOK
BY InitType, StepType, PTL DEF Spec
-----------------------------------------------------------------------------
(* Optimistic versions.                                                    *)

(* What every step but a load and an admission does: it loads no page,     *)
(* admits nobody, and moves the version if it leaves the row different.    *)
WritesVersioned ==
    /\ page' = page
    /\ \A a \in Actors : access'[a] \in {access[a], NoAccess}
    /\ \/ prd' = prd
       \/ prd'.gone /\ prd'.version = prd.version
       \/ prd'.version > prd.version

LEMMA WritersAreVersioned ==
  ASSUME TypeOK, Next
  PROVE  WritesVersioned \/ \E a \in Actors : Load(a) \/ Admit(a)
<1> USE DEF TypeOK, WritesVersioned
<1>1. ASSUME NEW a \in Actors, Abandon(a) PROVE WritesVersioned
  BY <1>1 DEF Abandon, Done
<1>2. ASSUME NEW a \in Actors, UpdateMetadata(a) PROVE WritesVersioned
  <2>1. prd' = prd \/ prd'.version > prd.version
    BY <1>2, UpdateWrites
  <2> QED BY <1>2, <2>1 DEF UpdateMetadata, Done
<1>3. ASSUME NEW a \in Actors, Complete(a) PROVE WritesVersioned
  BY <1>3, NextVersion DEF Complete, Completed, Done, PrdRow
<1>4. ASSUME NEW a \in Actors, Reopen(a) PROVE WritesVersioned
  BY <1>4, NextVersion DEF Reopen, Done, PrdRow
<1>5. ASSUME NEW a \in Actors, TrashPrd(a) PROVE WritesVersioned
  BY <1>5, NextVersion DEF TrashPrd, Done, PrdRow
<1>6. ASSUME NEW a \in Actors, RestorePrd(a) PROVE WritesVersioned
  BY <1>6, NextVersion DEF RestorePrd, PrdRow
<1>7. ASSUME NEW a \in Actors, ConfirmDeletion(a) PROVE WritesVersioned
  BY <1>7, NextVersion DEF ConfirmDeletion, PrdRow
<1>8. CASE CompleteOverdue
  BY <1>8, NextVersion DEF CompleteOverdue, Completed, PrdRow
<1>9. CASE PurgeDeleted
  BY <1>9 DEF PurgeDeleted, PrdRow
<1>10. CASE NextDay
  BY <1>10 DEF NextDay
<1> QED
  BY <1>1, <1>2, <1>3, <1>4, <1>5, <1>6, <1>7, <1>8, <1>9, <1>10
     DEF Next, Request, ChangeStatus, Maintenance

(* A load or an admission copies the row as it is; after any other step    *)
(* that changes the row every page is behind it.                           *)
LEMMA StepVersion == TypeOK /\ VersionInv /\ [Next]_vars => VersionInv'
<1> SUFFICES ASSUME TypeOK, VersionInv, [Next]_vars PROVE VersionInv'
  OBVIOUS
<1> USE DEF VersionInv, VersionIdentifiesContent, PagesAreOld, AdmissionIsCurrent
<1>1. /\ prd.version \in Nat
      /\ \A a \in Actors : page[a].version \in Nat
  BY DEF TypeOK, PrdRow
<1>2. prd'.version \in Nat
  BY StepType DEF TypeOK, PrdRow
<1>3. ASSUME NEW a \in Actors, Load(a) PROVE VersionInv'
  <2>1. /\ prd' = prd /\ access' = access /\ access[a] = NoAccess
        /\ \A b \in Actors : page'[b] = IF b = a THEN prd ELSE page[b]
    BY <1>3 DEF Load, TypeOK
  <2> QED BY <1>1, <2>1
<1>4. ASSUME NEW a \in Actors, Admit(a) PROVE VersionInv'
  <2>1. /\ prd' = prd /\ page' = page
        /\ \A b \in Actors : access'[b] = IF b = a THEN prd.status ELSE access[b]
    BY <1>4 DEF Admit, TypeOK
  <2> QED BY <1>1, <2>1
<1>5. CASE WritesVersioned
  BY <1>1, <1>2, <1>5 DEF WritesVersioned
<1>6. CASE UNCHANGED vars
  BY <1>6 DEF vars
<1> QED BY <1>3, <1>4, <1>5, <1>6, WritersAreVersioned

LEMMA InitVersion == Init => VersionInv
BY DEF Init, VersionInv, VersionIdentifiesContent, PagesAreOld, AdmissionIsCurrent

(* VersionInv is inductive: a stale page or admission is never taken for a  *)
(* current one.                                                            *)
THEOREM VersionsAreSound == Spec => []VersionInv
<1>1. TypeOK /\ VersionInv /\ [Next]_vars => VersionInv'
  BY StepVersion
<1> QED BY <1>1, InitVersion, LifecycleTypes, PTL DEF Spec

(* Whoever holds the current version sees the PRD as it is, however the    *)
(* requests, completions and deletions of all users interleave.            *)
THEOREM CurrentVersionShowsContent == Spec => []VersionIdentifiesContent
<1>1. VersionInv => VersionIdentifiesContent
  BY DEF VersionInv
<1> QED BY <1>1, VersionsAreSound, PTL

(* An editor whose request was admitted while the PRD was open cannot move *)
(* the deadline of a completed one: the page is then out of date.          *)
THEOREM EditorsCannotReachCompleted == Spec => EditorLeavesCompletedAlone
<1>1. ASSUME TypeOK, VersionInv, NEW a \in Actors,
             RoleOf[a] = "editor", UpdateMetadata(a), prd.status = "completed"
      PROVE  FALSE
  <2>1. /\ access[a] # NoAccess
        /\ page[a].version = prd.version
        /\ ~prd.gone
    BY <1>1 DEF UpdateMetadata, SawCurrentVersion, CanWrite
  <2>2. access[a] = "completed"
    BY <1>1, <2>1 DEF VersionInv, AdmissionIsCurrent
  <2>3. ~CanEditDeadline(a, access[a])
    BY <1>1, <2>2 DEF CanEditDeadline, CanEdit, CanChangeStatus
  <2>4. CanEditDeadline(a, access[a])
    BY <1>1 DEF UpdateMetadata
  <2> QED BY <2>3, <2>4
<1>2. TypeOK /\ VersionInv
        => [\A a \in Actors :
              RoleOf[a] = "editor" /\ UpdateMetadata(a) => prd.status # "completed"]_vars
  BY <1>1
<1> QED
  BY <1>2, LifecycleTypes, VersionsAreSound, PTL DEF Spec, EditorLeavesCompletedAlone
-----------------------------------------------------------------------------
(* Completions, reopenings and their log.                                  *)

AuditEntry == [action : {"completed", "reopened"}, auto : BOOLEAN]

Completes ==
    /\ ~prd.gone
    /\ prd.status # "completed"
    /\ prd' = Completed(prd)
    /\ \E auto \in BOOLEAN :
         audit' = Append(audit, [action |-> "completed", auto |-> auto])

Reopens ==
    /\ ~prd.gone
    /\ prd.status = "completed"
    /\ prd' = [prd EXCEPT !.status = "in_progress", !.completed_on = NoDay, !.version = @ + 1]
    /\ audit' = Append(audit, [action |-> "reopened", auto |-> FALSE])

KeepsStatus ==
    /\ audit' = audit
    /\ prd'.status = "completed" <=> prd.status = "completed"
    /\ prd'.completed_on = prd.completed_on

(* Only completions and reopenings touch the log, and nothing else enters  *)
(* or leaves completed.                                                    *)
LEMMA StatusSteps ==
  ASSUME TypeOK, [Next]_vars
  PROVE  Completes \/ Reopens \/ KeepsStatus
<1> USE DEF TypeOK
<1>1. ASSUME NEW a \in Actors, Load(a) \/ Admit(a) \/ Abandon(a) PROVE KeepsStatus
  BY <1>1 DEF Load, Admit, Abandon, KeepsStatus
<1>2. ASSUME NEW a \in Actors, UpdateMetadata(a) PROVE KeepsStatus
  <2>1. /\ prd'.status = "completed" <=> prd.status = "completed"
        /\ prd'.completed_on = prd.completed_on
    BY <1>2, UpdateWrites
  <2> QED BY <1>2, <2>1 DEF UpdateMetadata, KeepsStatus
<1>3. ASSUME NEW a \in Actors, Complete(a) PROVE Completes
  BY <1>3 DEF Complete, CanWrite, Completes
<1>4. ASSUME NEW a \in Actors, Reopen(a) PROVE Reopens
  BY <1>4 DEF Reopen, CanWrite, Reopens
<1>5. ASSUME NEW a \in Actors, TrashPrd(a) PROVE KeepsStatus
  BY <1>5 DEF TrashPrd, KeepsStatus, PrdRow
<1>6. ASSUME NEW a \in Actors, RestorePrd(a) PROVE KeepsStatus
  BY <1>6 DEF RestorePrd, KeepsStatus, PrdRow
<1>7. ASSUME NEW a \in Actors, ConfirmDeletion(a) PROVE KeepsStatus
  BY <1>7 DEF ConfirmDeletion, KeepsStatus, PrdRow
<1>8. CASE CompleteOverdue
  BY <1>8 DEF CompleteOverdue, Live, Completes
<1>9. CASE PurgeDeleted
  BY <1>9 DEF PurgeDeleted, KeepsStatus, PrdRow
<1>10. CASE NextDay \/ UNCHANGED vars
  BY <1>10 DEF NextDay, vars, KeepsStatus
<1> QED
  BY <1>1, <1>2, <1>3, <1>4, <1>5, <1>6, <1>7, <1>8, <1>9, <1>10
     DEF Next, Request, ChangeStatus, Maintenance

LEMMA StepAudit == TypeOK /\ CompletionIsAudited /\ [Next]_vars => CompletionIsAudited'
<1> SUFFICES ASSUME TypeOK, CompletionIsAudited, [Next]_vars PROVE CompletionIsAudited'
  OBVIOUS
<1>1. /\ audit \in Seq(AuditEntry)
      /\ Len(audit) \in Nat
      /\ today \in Days /\ today # NoDay
      /\ prd \in PrdRow
  BY Constants DEF TypeOK, AuditEntry
<1>2. CASE Completes
  <2>1. PICK auto \in BOOLEAN : audit' = Append(audit, [action |-> "completed", auto |-> auto])
    BY <1>2 DEF Completes
  <2>2. /\ Len(audit') = Len(audit) + 1
        /\ audit'[Len(audit) + 1].action = "completed"
        /\ \A i \in 1..Len(audit) : audit'[i] = audit[i]
    BY <1>1, <2>1, Appended DEF AuditEntry
  <2>3. Len(audit) % 2 = 0
    BY <1>1, <1>2 DEF CompletionIsAudited, Completes
  <2>4. (Len(audit) + 1) % 2 = 1
    BY <1>1, <2>3
  <2>5. DOMAIN audit' = 1..(Len(audit) + 1) /\ DOMAIN audit = 1..Len(audit)
    BY <1>1, <2>1, Appended DEF AuditEntry
  <2>6. \A i \in DOMAIN audit' : audit'[i].action = "completed" <=> i % 2 = 1
    <3> SUFFICES ASSUME NEW i \in 1..(Len(audit) + 1)
                 PROVE  audit'[i].action = "completed" <=> i % 2 = 1
      BY <2>5
    <3>1. CASE i = Len(audit) + 1
      BY <2>2, <2>4, <3>1
    <3>2. CASE i \in 1..Len(audit)
      BY <2>2, <2>5, <3>2 DEF CompletionIsAudited
    <3> QED BY <1>1, <3>1, <3>2
  <2>7. prd'.status = "completed" /\ prd'.completed_on # NoDay
    BY <1>1, <1>2 DEF Completes, Completed, PrdRow
  <2> QED BY <2>2, <2>4, <2>6, <2>7 DEF CompletionIsAudited
<1>3. CASE Reopens
  <2>1. audit' = Append(audit, [action |-> "reopened", auto |-> FALSE])
    BY <1>3 DEF Reopens
  <2>2. /\ Len(audit') = Len(audit) + 1
        /\ audit'[Len(audit) + 1].action = "reopened"
        /\ \A i \in 1..Len(audit) : audit'[i] = audit[i]
    BY <1>1, <2>1, Appended DEF AuditEntry
  <2>3. Len(audit) % 2 = 1
    BY <1>1, <1>3 DEF CompletionIsAudited, Reopens
  <2>4. (Len(audit) + 1) % 2 = 0
    BY <1>1, <2>3
  <2>5. DOMAIN audit' = 1..(Len(audit) + 1) /\ DOMAIN audit = 1..Len(audit)
    BY <1>1, <2>1, Appended DEF AuditEntry
  <2>6. \A i \in DOMAIN audit' : audit'[i].action = "completed" <=> i % 2 = 1
    <3> SUFFICES ASSUME NEW i \in 1..(Len(audit) + 1)
                 PROVE  audit'[i].action = "completed" <=> i % 2 = 1
      BY <2>5
    <3>1. CASE i = Len(audit) + 1
      BY <2>2, <2>4, <3>1
    <3>2. CASE i \in 1..Len(audit)
      BY <2>2, <2>5, <3>2 DEF CompletionIsAudited
    <3> QED BY <1>1, <3>1, <3>2
  <2>7. prd'.status # "completed" /\ prd'.completed_on = NoDay
    BY <1>1, <1>3 DEF Reopens, PrdRow
  <2> QED BY <2>2, <2>4, <2>6, <2>7 DEF CompletionIsAudited
<1>4. CASE KeepsStatus
  BY <1>4 DEF KeepsStatus, CompletionIsAudited
<1> QED BY <1>2, <1>3, <1>4, StatusSteps

LEMMA InitAudit == Init => CompletionIsAudited
<1> SUFFICES ASSUME Init PROVE CompletionIsAudited
  OBVIOUS
<1>1. audit = <<>> /\ prd.status # "completed" /\ prd.completed_on = NoDay
  BY DEF Init
<1> QED BY <1>1 DEF CompletionIsAudited

(* Completions and reopenings alternate in the log, and the PRD is         *)
(* completed exactly while the last entry says so.                         *)
THEOREM CompletionsAreAudited == Spec => []CompletionIsAudited
BY InitAudit, StepAudit, LifecycleTypes, PTL DEF Spec
-----------------------------------------------------------------------------
(* The trash and its retention.                                            *)

DeletionEntry ==
    [action : {"trashed", "restored", "delete_completed", "purged"}, day : Days]

Trashes ==
    /\ Live(prd) /\ ~prd'.gone
    /\ prd'.deleted_on = today
    /\ Logged("trashed")

Restores ==
    /\ ~prd.gone /\ ~prd'.gone
    /\ Trashed(prd) /\ ~Trashed(prd')
    /\ Logged("restored")

Confirms ==
    /\ ~prd.gone /\ ~prd'.gone
    /\ prd'.deleted_on = prd.deleted_on
    /\ Logged("delete_completed")

Purges ==
    /\ ~prd.gone /\ prd'.gone
    /\ RetentionOver(prd)
    /\ prd'.deleted_on = prd.deleted_on
    /\ Logged("purged")

KeepsTrash ==
    /\ prd'.gone = prd.gone
    /\ prd'.deleted_on = prd.deleted_on
    /\ deletions' = deletions

LEMMA TrashSteps ==
  ASSUME TypeOK, [Next]_vars
  PROVE  Trashes \/ Restores \/ Confirms \/ Purges \/ KeepsTrash
<1> USE DEF TypeOK
<1>1. ASSUME NEW a \in Actors, Load(a) \/ Admit(a) \/ Abandon(a) PROVE KeepsTrash
  BY <1>1 DEF Load, Admit, Abandon, KeepsTrash
<1>2. ASSUME NEW a \in Actors, UpdateMetadata(a) PROVE KeepsTrash
  <2>1. prd'.gone = prd.gone /\ prd'.deleted_on = prd.deleted_on
    BY <1>2, UpdateWrites
  <2> QED BY <1>2, <2>1 DEF UpdateMetadata, KeepsTrash
<1>3. ASSUME NEW a \in Actors, Complete(a) PROVE KeepsTrash
  BY <1>3 DEF Complete, Completed, KeepsTrash, PrdRow
<1>4. ASSUME NEW a \in Actors, Reopen(a) PROVE KeepsTrash
  BY <1>4 DEF Reopen, KeepsTrash, PrdRow
<1>5. ASSUME NEW a \in Actors, TrashPrd(a) PROVE Trashes
  BY <1>5 DEF TrashPrd, Live, Trashes, PrdRow
<1>6. ASSUME NEW a \in Actors, RestorePrd(a) PROVE Restores
  BY <1>6 DEF RestorePrd, FromTrash, CanWrite, Restores, Trashed, PrdRow
<1>7. ASSUME NEW a \in Actors, ConfirmDeletion(a) PROVE Confirms
  BY <1>7 DEF ConfirmDeletion, FromTrash, CanWrite, Confirms, PrdRow
<1>8. CASE CompleteOverdue
  BY <1>8 DEF CompleteOverdue, Completed, KeepsTrash, PrdRow
<1>9. CASE PurgeDeleted
  BY <1>9 DEF PurgeDeleted, Purges, PrdRow
<1>10. CASE NextDay \/ UNCHANGED vars
  BY <1>10 DEF NextDay, vars, KeepsTrash
<1> QED
  BY <1>1, <1>2, <1>3, <1>4, <1>5, <1>6, <1>7, <1>8, <1>9, <1>10
     DEF Next, Request, ChangeStatus, Maintenance

(* Any log entry but a restore leaves the evidence that the PRD was        *)
(* trashed on its day and not taken out since.                             *)
LEMMA EvidenceLasts ==
  ASSUME TypeOK, TrashIsLogged, Trashed(prd),
         NEW action \in {"delete_completed", "purged"}, Logged(action)
  PROVE  \E i \in DOMAIN deletions' :
           /\ deletions'[i].action = "trashed"
           /\ deletions'[i].day = prd.deleted_on
           /\ \A k \in i..Len(deletions') : deletions'[k].action # "restored"
<1>1. PICK i \in DOMAIN deletions :
        /\ deletions[i].action = "trashed"
        /\ deletions[i].day = prd.deleted_on
        /\ \A k \in i..Len(deletions) : deletions[k].action # "restored"
  BY DEF TrashIsLogged
<1> DEFINE e == [action |-> action, day |-> today]
<1>2. deletions \in Seq(DeletionEntry) /\ e \in DeletionEntry /\ deletions' = Append(deletions, e)
  BY DEF TypeOK, DeletionEntry, Logged
<1>3. e.action # "restored"
  OBVIOUS
<1> HIDE DEF e
<1>4. /\ Len(deletions) \in Nat
      /\ DOMAIN deletions = 1..Len(deletions)
      /\ Len(deletions') = Len(deletions) + 1
      /\ DOMAIN deletions' = 1..(Len(deletions) + 1)
      /\ deletions'[Len(deletions) + 1] = e
      /\ \A k \in 1..Len(deletions) : deletions'[k] = deletions[k]
  BY <1>2, Appended
<1>5. i \in DOMAIN deletions' /\ deletions'[i] = deletions[i]
  BY <1>4
<1>6. \A k \in i..Len(deletions') : deletions'[k].action # "restored"
  BY <1>1, <1>3, <1>4
<1> QED BY <1>1, <1>5, <1>6

LEMMA StepRetention == TypeOK /\ RetentionInv /\ [Next]_vars => RetentionInv'
<1> SUFFICES ASSUME TypeOK, RetentionInv, [Next]_vars PROVE RetentionInv'
  OBVIOUS
<1>1. /\ deletions \in Seq(DeletionEntry)
      /\ today \in Days /\ today # NoDay
      /\ TrashIsLogged /\ RetentionIsKept
  BY Constants DEF TypeOK, DeletionEntry, RetentionInv
<1>2. CASE Trashes
  <2> DEFINE e == [action |-> "trashed", day |-> today]
             n == Len(deletions) + 1
  <2>1. e \in DeletionEntry /\ deletions' = Append(deletions, e)
    BY <1>1, <1>2 DEF DeletionEntry, Trashes, Logged
  <2>2. /\ n \in DOMAIN deletions' /\ n \in Nat
        /\ Len(deletions') = n
        /\ deletions'[n] = e
    BY <1>1, <2>1, Appended
  <2>3. /\ deletions'[n].action = "trashed"
        /\ deletions'[n].day = prd'.deleted_on
        /\ \A k \in n..Len(deletions') : deletions'[k].action # "restored"
    BY <1>2, <2>2 DEF Trashes
  <2>4. TrashIsLogged'
    BY <2>2, <2>3 DEF TrashIsLogged
  <2>5. RetentionIsKept'
    BY <1>2 DEF Trashes, RetentionIsKept
  <2> QED BY <2>4, <2>5 DEF RetentionInv
<1>3. CASE Restores
  BY <1>3 DEF Restores, RetentionInv, TrashIsLogged, RetentionIsKept
<1>4. CASE Confirms
  <2>1. TrashIsLogged'
    BY <1>1, <1>4, EvidenceLasts DEF Confirms, TrashIsLogged, Trashed
  <2>2. RetentionIsKept'
    BY <1>4 DEF Confirms, RetentionIsKept
  <2> QED BY <2>1, <2>2 DEF RetentionInv
<1>5. CASE Purges
  <2>1. Trashed(prd) /\ today - prd.deleted_on >= Retention
    BY <1>5 DEF Purges, RetentionOver
  <2>2. TrashIsLogged'
    BY <1>1, <1>5, EvidenceLasts DEF Purges, TrashIsLogged, Trashed
  <2>3. Trashed(prd') /\ prd'.deleted_on = prd.deleted_on
    BY <1>5, <2>1 DEF Purges, Trashed
  <2>4. [action |-> "purged", day |-> today] \in DeletionEntry
    BY <1>1 DEF DeletionEntry
  <2>5. deletions'[Len(deletions')].day = today
    BY <1>1, <1>5, <2>4, Appended DEF Purges, Logged
  <2>6. RetentionIsKept'
    BY <2>1, <2>2, <2>3, <2>5 DEF TrashIsLogged, RetentionIsKept
  <2> QED BY <2>2, <2>6 DEF RetentionInv
<1>6. CASE KeepsTrash
  BY <1>1, <1>6 DEF KeepsTrash, RetentionInv, TrashIsLogged, RetentionIsKept, Trashed
<1> QED BY <1>2, <1>3, <1>4, <1>5, <1>6, TrashSteps

LEMMA InitRetention == Init => RetentionInv
BY DEF Init, RetentionInv, TrashIsLogged, RetentionIsKept, Trashed

(* RetentionInv is inductive: the row and the deletion log agree on when   *)
(* the PRD was put in the trash.                                           *)
THEOREM TrashIsSound == Spec => []RetentionInv
<1>1. TypeOK /\ RetentionInv /\ [Next]_vars => RetentionInv'
  BY StepRetention
<1> QED BY <1>1, InitRetention, LifecycleTypes, PTL DEF Spec

(* Nothing is deleted for good before it lay in the trash, unrestored, for *)
(* the whole retention time.                                               *)
THEOREM NothingIsPurgedEarly == Spec => []RetentionIsKept
<1>1. RetentionInv => RetentionIsKept
  BY DEF RetentionInv
<1> QED BY <1>1, TrashIsSound, PTL

(* In the trash only a completion or a reopening admitted before moves the *)
(* PRD, and its title and deadline do not change at all.                   *)
THEOREM TrashStandsStill == Spec => TrashIsQuiet
<1> DEFINE Quiet ==
      Trashed(prd) /\ Trashed(prd')
        => /\ prd'.title = prd.title /\ prd'.deadline = prd.deadline
           /\ \/ prd'.status = prd.status
              \/ \E a \in Actors : access[a] # NoAccess
<1>1. ASSUME TypeOK, Next PROVE Quiet
  <2> USE DEF TypeOK
  <2>1. ASSUME NEW a \in Actors, Load(a) \/ Admit(a) \/ Abandon(a) PROVE Quiet
    BY <2>1 DEF Load, Admit, Abandon
  <2>2. ASSUME NEW a \in Actors, UpdateMetadata(a) PROVE Quiet
    BY <2>2 DEF UpdateMetadata, Live
  <2>3. ASSUME NEW a \in Actors, Complete(a) PROVE Quiet
    BY <2>3 DEF Complete, Completed, PrdRow
  <2>4. ASSUME NEW a \in Actors, Reopen(a) PROVE Quiet
    BY <2>4 DEF Reopen, PrdRow
  <2>5. ASSUME NEW a \in Actors, TrashPrd(a) \/ RestorePrd(a) \/ ConfirmDeletion(a)
        PROVE  Quiet
    <3>1. CASE TrashPrd(a)
      BY <3>1 DEF TrashPrd, Live
    <3>2. CASE RestorePrd(a)
      BY <3>2 DEF RestorePrd, Trashed, PrdRow
    <3>3. CASE ConfirmDeletion(a)
      BY <3>3 DEF ConfirmDeletion, PrdRow
    <3> QED BY <2>5, <3>1, <3>2, <3>3
  <2>6. CASE CompleteOverdue
    BY <2>6 DEF CompleteOverdue, Live
  <2>7. CASE PurgeDeleted
    BY <2>7 DEF PurgeDeleted, PrdRow
  <2>8. CASE NextDay
    BY <2>8 DEF NextDay
  <2> QED
    BY <1>1, <2>1, <2>2, <2>3, <2>4, <2>5, <2>6, <2>7, <2>8 DEF Next, Request, ChangeStatus, Maintenance
<1>2. TypeOK /\ [Next]_vars => [Quiet]_vars
  BY <1>1
<1> QED
  BY <1>2, LifecycleTypes, PTL DEF Spec, TrashIsQuiet
-----------------------------------------------------------------------------
(* Refinement.                                                             *)

LEMMA InitKeepsContract == Init => Contract!Init
<1> SUFFICES ASSUME Init PROVE Contract!Init
  OBVIOUS
<1>1. /\ ~prd.gone /\ prd.status # "completed" /\ ~Trashed(prd)
      /\ Len(audit) = 0
  BY DEF Init, Trashed
<1>2. (Len(audit) + 1) \div 2 = 0
  BY <1>1
<1> QED BY <1>1, <1>2 DEF Contract!Init

(* A completion begins a cycle because it is the odd entry of the log; the *)
(* reopening that follows ends it without counting.                        *)
LEMMA CompletesIsComplete ==
  ASSUME TypeOK, CompletionIsAudited, Completes
  PROVE  Contract!Complete
<1>1. audit \in Seq(AuditEntry) /\ today \in Days
  BY DEF TypeOK, AuditEntry
<1>2. PICK auto \in BOOLEAN : audit' = Append(audit, [action |-> "completed", auto |-> auto])
  BY DEF Completes
<1>3. Len(audit') = Len(audit) + 1 /\ Len(audit) \in Nat
  BY <1>1, <1>2, Appended DEF AuditEntry
<1>4. Len(audit) % 2 = 0
  BY <1>3 DEF CompletionIsAudited, Completes
<1>5. (Len(audit') + 1) \div 2 = (Len(audit) + 1) \div 2 + 1
  BY <1>3, <1>4
<1>6. /\ prd'.gone = prd.gone /\ prd'.status = "completed"
      /\ Trashed(prd') = Trashed(prd)
  BY DEF TypeOK, Completes, Completed, Trashed, PrdRow
<1> QED BY <1>5, <1>6 DEF Contract!Complete, Completes

LEMMA ReopensIsReopen ==
  ASSUME TypeOK, CompletionIsAudited, Reopens
  PROVE  Contract!Reopen
<1>1. Len(audit') = Len(audit) + 1 /\ Len(audit) \in Nat
  BY Appended DEF TypeOK, Reopens
<1>2. Len(audit) % 2 = 1
  BY <1>1 DEF CompletionIsAudited, Reopens
<1>3. (Len(audit') + 1) \div 2 = (Len(audit) + 1) \div 2
  BY <1>1, <1>2
<1>4. /\ prd'.gone = prd.gone /\ prd'.status = "in_progress"
      /\ Trashed(prd') = Trashed(prd)
  BY DEF TypeOK, Reopens, Trashed, PrdRow
<1> QED BY <1>3, <1>4 DEF Contract!Reopen, Reopens

LEMMA StepKeepsContract ==
  TypeOK /\ CompletionIsAudited /\ [Next]_vars => [Contract!Next]_(Contract!vars)
<1> SUFFICES ASSUME TypeOK, CompletionIsAudited, [Next]_vars
             PROVE  Contract!Next \/ UNCHANGED Contract!vars
  OBVIOUS
<1>1. CASE Completes
  BY <1>1, CompletesIsComplete DEF Contract!Next
<1>2. CASE Reopens
  BY <1>2, ReopensIsReopen DEF Contract!Next
<1>3. CASE KeepsStatus
  <2> USE <1>3 DEF KeepsStatus
  <2>1. CASE Trashes
    <3>1. ~Trashed(prd) /\ Trashed(prd')
      BY <2>1, Constants DEF TypeOK, Trashes, Live, Trashed
    <3> QED BY <2>1, <3>1 DEF Trashes, Live, Contract!Trash, Contract!Next
  <2>2. CASE Restores
    BY <2>2 DEF Restores, Contract!Restore, Contract!Next
  <2>3. CASE Confirms \/ KeepsTrash
    BY <2>3 DEF Confirms, KeepsTrash, Trashed, Contract!vars
  <2>4. CASE Purges
    <3>1. Trashed(prd) /\ Trashed(prd')
      BY <2>4 DEF Purges, RetentionOver, Trashed
    <3> QED BY <2>4, <3>1 DEF Purges, Contract!Purge, Contract!Next
  <2> QED BY <2>1, <2>2, <2>3, <2>4, TrashSteps
<1> QED BY <1>1, <1>2, <1>3, StatusSteps

(* Whatever the users, the midnight maintenance and the clock do, the rest *)
(* of the system sees a PRD that keeps PrdContract.                        *)
THEOREM LifecycleKeepsContract == Spec => ImplementsContract
<1>1. Spec => Contract!Init
  BY InitKeepsContract DEF Spec
<1>2. Spec => [][Contract!Next]_(Contract!vars)
  BY StepKeepsContract, LifecycleTypes, CompletionsAreAudited, PTL DEF Spec
<1> QED BY <1>1, <1>2 DEF ImplementsContract, Contract!Spec
=============================================================================
