---------------------------- MODULE PeopleProofs ----------------------------
(***************************************************************************)
(* What is proved of People for any users, administrators and bounds: the  *)
(* types, the soundness of ownership and assignees, and that a completed   *)
(* PRD takes reviews of tutors, gives notes back, and nothing else.        *)
(***************************************************************************)
EXTENDS People, TLAPS

(* There is no note before there is a PRD.                                 *)
BoardStartsEmpty == prd = "absent" => note = Nothing

(* A review of a completed PRD is a tutor's.                               *)
ReviewsAreTutors == \A i \in 1..MaxComments :
    comments[i] # Nothing /\ comments[i].type = Review => comments[i].role = "tutor"
-----------------------------------------------------------------------------
(* Rows are not nothing.                                                   *)
LEMMA RowsAreSomething ==
    /\ \A r \in Participant : r # Nothing
    /\ \A r \in Note : r # Nothing
    /\ \A r \in Change : r # Nothing
    /\ \A r \in Comment : r # Nothing
<1>1. \A r \in Participant : r # Nothing
  BY DEF Participant, Nothing
<1>2. \A r \in Note : r # Nothing
  BY DEF Note, Nothing
<1>3. \A r \in Change : r # Nothing
  BY DEF Change, Nothing
<1>4. \A r \in Comment : r # Nothing
  BY DEF Comment, Nothing
<1> QED
  BY <1>1, <1>2, <1>3, <1>4

(* Every reachable row is a row of its table.                              *)
LEMMA TypesAtFirst == Init => TypeOK
  BY BoundAssumption DEF Init, TypeOK, At, Scheduler

LEMMA MembersStayTyped ==
  ASSUME TypeOK, NEW u \in Users, Manage(u)
  PROVE  TypeOK'
<1> USE RowsAreSomething
<1>1. ASSUME NEW chosen \in SUBSET Users, NEW role \in GivenRoles, Add(chosen, role)
      PROVE  member' \in [Users -> {Nothing} \cup Participant]
  <2>1. [role |-> role, version |-> 1] \in Participant
    BY BoundAssumption DEF Participant, Roles, Versions
  <2> QED
    BY <1>1, <2>1 DEF Add, TypeOK
<1>2. ASSUME Answered(u)
      PROVE  admitted' \in [Users -> Roles \cup {"none", "idle"}]
  BY <1>2 DEF Answered, TypeOK
<1>3. ASSUME NEW chosen \in SUBSET Users, NEW role \in GivenRoles, AddParticipants(u, chosen, role)
      PROVE  TypeOK'
  <2>1. chosen \ {Creator} \in SUBSET Users
    OBVIOUS
  <2> QED
    BY <1>1, <1>2, <1>3, <2>1 DEF AddParticipants, TypeOK
<1>4. ASSUME NEW w \in Users, NEW role \in GivenRoles, AddParticipant(u, w, role)
      PROVE  TypeOK'
  BY <1>1, <1>2, <1>4 DEF AddParticipant, TypeOK
<1>5. ASSUME NEW w \in Users, NEW role \in GivenRoles, NEW v \in Versions,
             UpdateRole(u, w, role, v)
      PROVE  TypeOK'
  <2>1. member[w] \in Participant /\ member[w].version + 1 \in Versions
    BY <1>5, BoundAssumption
    DEF UpdateRole, IsMember, TypeOK, Changeable, Participant, Versions
  <2>2. [role |-> role, version |-> member[w].version + 1] \in Participant
    BY <2>1 DEF Participant, Roles
  <2>3. member' \in [Users -> {Nothing} \cup Participant]
    BY <1>5, <2>2 DEF UpdateRole, TypeOK
  <2> QED
    BY <1>2, <1>5, <2>3 DEF UpdateRole, TypeOK
<1>6. ASSUME NEW w \in Users, NEW v \in Versions, RemoveParticipant(u, w, v)
      PROVE  TypeOK'
  <2>1. member' \in [Users -> {Nothing} \cup Participant]
    BY <1>6 DEF RemoveParticipant, TypeOK
  <2>2. note' = Nothing \/ note' \in Note
    <3>1. CASE note = Nothing
      BY <1>6, <3>1 DEF RemoveParticipant, GivenBack
    <3>2. CASE note # Nothing
      <4>1. note \in Note /\ note.version + 1 \in NoteVersions
        BY <1>6, <3>2, BoundAssumption DEF RemoveParticipant, TypeOK, Note, NoteVersions
      <4> QED
        BY <1>6, <4>1 DEF RemoveParticipant, GivenBack, Note
    <3> QED
      BY <3>1, <3>2
  <2> QED
    BY <1>2, <1>6, <2>1, <2>2 DEF RemoveParticipant, TypeOK
<1> QED
  BY <1>3, <1>4, <1>5, <1>6 DEF Manage

LEMMA CommentsStayTyped ==
  ASSUME TypeOK, NEW u \in Users, Talk(u)
  PROVE  TypeOK'
<1> USE RowsAreSomething
<1>1. ASSUME Answered(u)
      PROVE  admitted' \in [Users -> Roles \cup {"none", "idle"}]
  BY <1>1 DEF Answered, TypeOK
<1>2. ASSUME NEW i \in 1..MaxComments, NEW type \in {"general", "guidance", "review", Review},
             CreateComment(u, i, type)
      PROVE  TypeOK'
  <2>1. admitted[u] \in Roles \ {"viewer"}
    BY <1>2 DEF CreateComment, CommentTypes, TypeOK, Roles, GivenRoles
  <2>2. [author |-> u, role |-> admitted[u], type |-> type,
          eligible |-> admitted[u] \in {"owner", "editor"} /\ type = "general",
          version |-> 1, deleted |-> FALSE] \in Comment
    BY <2>1, BoundAssumption DEF Comment, Versions
  <2>3. comments' \in [1..MaxComments -> {Nothing} \cup Comment]
    BY <1>2, <2>2 DEF CreateComment, TypeOK
  <2> QED
    BY <1>1, <1>2, <2>3 DEF CreateComment, TypeOK
<1>3. ASSUME NEW i \in 1..MaxComments, NEW v \in Versions, NEW deleted \in BOOLEAN,
             ModifyComment(u, i, v, deleted)
      PROVE  TypeOK'
  <2>1. comments[i] \in Comment /\ comments[i].version + 1 \in Versions
    BY <1>3, BoundAssumption DEF ModifyComment, TypeOK, Comment, Changeable, Versions
  <2>2. [comments[i] EXCEPT !.version = @ + 1, !.deleted = deleted] \in Comment
    BY <2>1 DEF Comment
  <2>3. comments' = [comments EXCEPT ![i] =
                       [comments[i] EXCEPT !.version = @ + 1, !.deleted = deleted]]
    BY <1>3 DEF ModifyComment, TypeOK
  <2>4. comments' \in [1..MaxComments -> {Nothing} \cup Comment]
    BY <2>2, <2>3 DEF TypeOK
  <2> QED
    BY <1>1, <1>3, <2>4 DEF ModifyComment, TypeOK
<1> QED
  BY <1>2, <1>3 DEF Talk, UpdateComment, DeleteComment

LEMMA NoteStaysTyped ==
  ASSUME TypeOK, NEW u \in Users, WorkOnNote(u)
  PROVE  TypeOK'
<1> USE RowsAreSomething
<1>1. ASSUME Answered(u)
      PROVE  admitted' \in [Users -> Roles \cup {"none", "idle"}]
  BY <1>1 DEF Answered, TypeOK
<1>2. ASSUME NEW v, NEW deleted, Meets(u, v, deleted)
      PROVE  note \in Note /\ note.version + 1 \in NoteVersions
  BY <1>2, BoundAssumption DEF Meets, TypeOK, Note, NoteVersions
<1>3. ASSUME NEW who \in Users \cup {Nobody}, NEW v, Meets(u, v, FALSE), Reassign(who)
      PROVE  note' \in Note
  <2>1. note \in Note /\ note.version + 1 \in NoteVersions
    BY <1>2, <1>3
  <2>2. note' = [note EXCEPT !.assignee = who, !.version = note.version + 1, !.restored = FALSE]
    BY <1>3 DEF Reassign
  <2> QED
    BY <2>1, <2>2 DEF Note
<1>4. CASE CreateNote(u)
  <2>1. note' \in Note
    BY <1>4, BoundAssumption DEF CreateNote, Note, NoteVersions
  <2> QED
    BY <1>1, <1>4, <2>1 DEF CreateNote, TypeOK
<1>5. ASSUME NEW who \in Users \cup {Nobody}, NEW v \in NoteVersions, Assign(u, who, v)
      PROVE  TypeOK'
  <2>1. note' \in Note /\ note \in Note /\ note.version + 1 \in NoteVersions
    BY <1>2, <1>3, <1>5 DEF Assign
  <2>2. change' \in Change
    BY <1>5, <2>1 DEF Assign, Change, Note
  <2> QED
    BY <1>1, <1>5, <2>1, <2>2 DEF Assign, TypeOK
<1>6. ASSUME NEW undone \in BOOLEAN, NEW who \in Users \cup {Nobody},
             change # Nothing, Replay(u, undone, who)
      PROVE  TypeOK'
  <2>1. note' \in Note /\ note.version + 1 \in NoteVersions
    BY <1>2, <1>3, <1>6 DEF Replay
  <2>2. change' = [change EXCEPT !.undone = undone, !.version = note.version + 1]
    BY <1>6 DEF Replay
  <2>3. change' \in Change
    BY <1>6, <2>1, <2>2 DEF Change, TypeOK
  <2> QED
    BY <1>1, <1>6, <2>1, <2>3 DEF Replay, TypeOK
<1>7. CASE UndoAssign(u)
  BY <1>6, <1>7 DEF UndoAssign, TypeOK, Change
<1>8. CASE RedoAssign(u)
  BY <1>6, <1>8 DEF RedoAssign, TypeOK, Change
<1>9. ASSUME NEW v \in NoteVersions, DeleteNote(u, v)
      PROVE  TypeOK'
  <2>1. note \in Note /\ note.version + 1 \in NoteVersions
    BY <1>2, <1>9 DEF DeleteNote
  <2>2. note' = [note EXCEPT !.deleted = TRUE, !.version = note.version + 1]
    BY <1>9 DEF DeleteNote
  <2>3. note' \in Note
    BY <2>1, <2>2 DEF Note
  <2> QED
    BY <1>1, <1>9, <2>3 DEF DeleteNote, TypeOK
<1>10. ASSUME NEW v \in NoteVersions, RestoreNote(u, v)
       PROVE  TypeOK'
  <2>1. note \in Note /\ note.version + 1 \in NoteVersions
    BY <1>2, <1>10 DEF RestoreNote
  <2>2. note' = [note EXCEPT !.deleted = FALSE, !.version = note.version + 1, !.restored = TRUE]
    BY <1>10 DEF RestoreNote
  <2>3. note' \in Note
    BY <2>1, <2>2 DEF Note
  <2> QED
    BY <1>1, <1>10, <2>3 DEF RestoreNote, TypeOK
<1> QED
  BY <1>4, <1>5, <1>7, <1>8, <1>9, <1>10 DEF WorkOnNote

(* What a process does that completes the PRD.                             *)
Goes(s) == Complete(s) \/ ReadParticipants(s) \/ RestoreRemovedAssignees(s) \/ SchedulingFails(s)

LEMMA SchedulerIsTyped ==
  ASSUME TypeOK, NEW s \in Schedulers, NEW step \in {"idle", "due", "read"},
         NEW people \in SUBSET Users, scheduler' = [scheduler EXCEPT ![s] = At(step, people)]
  PROVE  scheduler' \in [Schedulers -> Scheduler]
<1>1. At(step, people) \in Scheduler
  BY DEF At, Scheduler
<1> QED
  BY <1>1 DEF TypeOK

LEMMA SchedulersStayTyped ==
  ASSUME TypeOK, NEW s \in Schedulers, Goes(s)
  PROVE  TypeOK'
<1> USE RowsAreSomething
<1>1. {} \in SUBSET Users /\ {u \in Users : IsMember(u)} \in SUBSET Users
  OBVIOUS
<1>2. CASE Complete(s)
  BY <1>1, <1>2, SchedulerIsTyped DEF Complete, TypeOK
<1>3. CASE ReadParticipants(s)
  BY <1>1, <1>3, SchedulerIsTyped DEF ReadParticipants, TypeOK
<1>4. CASE RestoreRemovedAssignees(s)
  <2>1. note' = Nothing \/ note' \in Note
    <3>1. CASE note = Nothing
      BY <1>4, <3>1 DEF RestoreRemovedAssignees, Restored
    <3>2. CASE note # Nothing
      <4>1. note \in Note /\ note.version + 1 \in NoteVersions
        BY <1>4, <3>2, BoundAssumption DEF RestoreRemovedAssignees, TypeOK, Note, NoteVersions
      <4> QED
        BY <1>4, <4>1 DEF RestoreRemovedAssignees, Restored, Note
    <3> QED
      BY <3>1, <3>2
  <2> QED
    BY <1>1, <1>4, <2>1, SchedulerIsTyped DEF RestoreRemovedAssignees, TypeOK
<1>5. CASE SchedulingFails(s)
  BY <1>1, <1>5, SchedulerIsTyped DEF SchedulingFails, TypeOK
<1> QED
  BY <1>2, <1>3, <1>4, <1>5 DEF Goes

LEMMA TypesStay ==
  ASSUME TypeOK, [Next]_vars
  PROVE  TypeOK'
<1>1. ASSUME NEW editors \in SUBSET Users, CreatePrd(editors)
      PROVE  TypeOK'
  <2>1. /\ [role |-> "owner", version |-> 1] \in Participant
        /\ [role |-> "editor", version |-> 1] \in Participant
    BY BoundAssumption DEF Participant, Roles, GivenRoles, Versions
  <2>2. member' \in [Users -> {Nothing} \cup Participant]
    BY <1>1, <2>1 DEF CreatePrd
  <2> QED
    BY <1>1, <2>2 DEF CreatePrd, TypeOK
<1>2. CASE Reopen
  BY <1>2 DEF Reopen, TypeOK
<1>3. ASSUME NEW u \in Users, Admit(u)
      PROVE  TypeOK'
  <2>1. RoleOf(u) \in Roles \cup {"none"}
    BY DEF RoleOf, IsMember, TypeOK, Participant, Roles
  <2> QED
    BY <1>3, <2>1 DEF Admit, TypeOK
<1>4. ASSUME NEW u \in Users, GiveUp(u)
      PROVE  TypeOK'
  BY <1>4 DEF GiveUp, Answered, TypeOK
<1>5. CASE UNCHANGED vars
  BY <1>5 DEF vars, TypeOK
<1> QED
  BY <1>1, <1>2, <1>3, <1>4, <1>5, MembersStayTyped, CommentsStayTyped, NoteStaysTyped,
     SchedulersStayTyped DEF Next, Goes

(* Types: every row is a row of its table, within the bounds.              *)
THEOREM PeopleTypes == Spec => []TypeOK
<1>1. Init => TypeOK
  BY TypesAtFirst
<1>2. TypeOK /\ [Next]_vars => TypeOK'
  BY TypesStay
<1> QED
  BY <1>1, <1>2, PTL DEF Spec
-----------------------------------------------------------------------------
(* Ownership and assignees.                                                *)

(* What a step of the participants' management does to the rows: nobody    *)
(* becomes owner, and the creator stays.                                   *)
LEMMA ManagingKeepsOwner ==
  ASSUME TypeOK, CreatorIsOwner, NEW u \in Users, Manage(u)
  PROVE  CreatorIsOwner'
<1> USE RowsAreSomething
<1>1. ASSUME NEW chosen \in SUBSET Users, NEW role \in GivenRoles, Add(chosen, role)
      PROVE  CreatorIsOwner'
  <2>1. [role |-> role, version |-> 1] \in Participant
    BY BoundAssumption DEF Participant, Roles, Versions
  <2> QED
    BY <1>1, <2>1, CreatorAssumption DEF Add, CreatorIsOwner, IsMember, GivenRoles
<1>2. ASSUME NEW chosen \in SUBSET Users, NEW role \in GivenRoles, AddParticipants(u, chosen, role)
      PROVE  CreatorIsOwner'
  <2>1. chosen \ {Creator} \in SUBSET Users
    OBVIOUS
  <2> QED
    BY <1>1, <1>2, <2>1 DEF AddParticipants
<1>3. ASSUME NEW w \in Users, NEW role \in GivenRoles, AddParticipant(u, w, role)
      PROVE  CreatorIsOwner'
  BY <1>1, <1>3 DEF AddParticipant
<1>4. ASSUME NEW w \in Users, NEW role \in GivenRoles, NEW v \in Versions,
             UpdateRole(u, w, role, v)
      PROVE  CreatorIsOwner'
  <2>1. w # Creator
    BY <1>4 DEF UpdateRole, CreatorIsOwner
  <2>2. [role |-> role, version |-> member[w].version + 1] # Nothing
    BY DEF Nothing
  <2>3. member' = member \/ member' = [member EXCEPT ![w] =
                              [role |-> role, version |-> member[w].version + 1]]
    BY <1>4 DEF UpdateRole
  <2> QED
    BY <2>1, <2>2, <2>3, CreatorAssumption DEF CreatorIsOwner, IsMember, GivenRoles, TypeOK
<1>5. ASSUME NEW w \in Users, NEW v \in Versions, RemoveParticipant(u, w, v)
      PROVE  CreatorIsOwner'
  <2>1. w # Creator
    BY <1>5 DEF RemoveParticipant, CreatorIsOwner
  <2> QED
    BY <1>5, <2>1, CreatorAssumption DEF RemoveParticipant, CreatorIsOwner, IsMember, TypeOK
<1> QED
  BY <1>2, <1>3, <1>4, <1>5 DEF Manage

(* Whoever leaves, leaves the live note to its author.                     *)
LEMMA ManagingKeepsHands ==
  ASSUME TypeOK, NoteIsInKnownHands, NEW u \in Users, Manage(u)
  PROVE  NoteIsInKnownHands'
<1> USE RowsAreSomething
<1>1. ASSUME NEW role, NEW chosen \in SUBSET Users, Add(chosen, role), UNCHANGED note
      PROVE  NoteIsInKnownHands'
  <2>1. [role |-> role, version |-> 1] # Nothing
    BY DEF Nothing
  <2> QED
    BY <1>1, <2>1 DEF Add, NoteIsInKnownHands, Assignable, IsMember
<1>2. ASSUME NEW chosen \in SUBSET Users, NEW role \in GivenRoles, AddParticipants(u, chosen, role)
      PROVE  NoteIsInKnownHands'
  <2>1. chosen \ {Creator} \in SUBSET Users
    OBVIOUS
  <2> QED
    BY <1>1, <1>2, <2>1 DEF AddParticipants
<1>3. ASSUME NEW w \in Users, NEW role \in GivenRoles, AddParticipant(u, w, role)
      PROVE  NoteIsInKnownHands'
  BY <1>1, <1>3 DEF AddParticipant
<1>4. ASSUME NEW w \in Users, NEW role \in GivenRoles, NEW v \in Versions,
             UpdateRole(u, w, role, v)
      PROVE  NoteIsInKnownHands'
  <2>1. [role |-> role, version |-> member[w].version + 1] # Nothing
    BY DEF Nothing
  <2>2. \A x \in Users : IsMember(x) => IsMember(x)'
    BY <1>4, <2>1 DEF UpdateRole, IsMember, TypeOK
  <2> QED
    BY <1>4, <2>2 DEF UpdateRole, NoteIsInKnownHands, Assignable
<1>5. ASSUME NEW w \in Users, NEW v \in Versions, RemoveParticipant(u, w, v)
      PROVE  NoteIsInKnownHands'
  <2>1. \A x \in Users \ {w} : IsMember(x) => IsMember(x)'
    BY <1>5 DEF RemoveParticipant, IsMember, TypeOK
  <2>2. CASE note # Nothing /\ ~note.deleted /\ note.assignee = w
    <3>1. note' = [note EXCEPT !.assignee = note.author, !.version = note.version + 1,
                               !.restored = FALSE]
      BY <1>5, <2>2 DEF RemoveParticipant, GivenBack
    <3>2. note'.assignee = note'.author
      BY <2>2, <3>1 DEF TypeOK, Note
    <3> QED
      BY <3>2 DEF NoteIsInKnownHands
  <2>3. CASE ~(note # Nothing /\ ~note.deleted /\ note.assignee = w)
    <3>1. note' = note
      BY <1>5, <2>3 DEF RemoveParticipant, GivenBack
    <3> QED
      BY <2>1, <2>3, <3>1 DEF NoteIsInKnownHands, Assignable
  <2> QED
    BY <2>2, <2>3
<1> QED
  BY <1>2, <1>3, <1>4, <1>5 DEF Manage

(* A request about the note gives it to a participant, or puts it into the *)
(* bin or back.                                                            *)
LEMMA WorkKeepsHands ==
  ASSUME TypeOK, NoteIsInKnownHands, NEW u \in Users, WorkOnNote(u)
  PROVE  NoteIsInKnownHands' /\ member' = member /\ prd' = prd
<1> USE RowsAreSomething
<1>1. ASSUME NEW who, NEW v, Meets(u, v, FALSE), Reassign(who), UNCHANGED member
      PROVE  NoteIsInKnownHands'
  <2>1. note' = [note EXCEPT !.assignee = who, !.version = note.version + 1, !.restored = FALSE]
    BY <1>1 DEF Reassign
  <2>2. note \in Note
    BY <1>1 DEF Meets, TypeOK
  <2>3. note'.assignee = who
    BY <2>1, <2>2 DEF Note
  <2> QED
    BY <1>1, <2>3 DEF NoteIsInKnownHands, Reassign, Assignable, IsMember
<1>2. CASE CreateNote(u)
  BY <1>2 DEF CreateNote, NoteIsInKnownHands
<1>3. ASSUME NEW who \in Users \cup {Nobody}, NEW v \in NoteVersions, Assign(u, who, v)
      PROVE  NoteIsInKnownHands' /\ member' = member /\ prd' = prd
  BY <1>1, <1>3 DEF Assign
<1>4. CASE UndoAssign(u)
  BY <1>1, <1>4 DEF UndoAssign, Replay
<1>5. CASE RedoAssign(u)
  BY <1>1, <1>5 DEF RedoAssign, Replay
<1>6. ASSUME NEW v \in NoteVersions, DeleteNote(u, v)
      PROVE  NoteIsInKnownHands' /\ member' = member /\ prd' = prd
  <2>1. note' = [note EXCEPT !.deleted = TRUE, !.version = note.version + 1]
    BY <1>6 DEF DeleteNote
  <2>2. note'.deleted
    BY <1>6, <2>1 DEF DeleteNote, Meets, TypeOK, Note
  <2> QED
    BY <1>6, <2>2 DEF DeleteNote, NoteIsInKnownHands
<1>7. ASSUME NEW v \in NoteVersions, RestoreNote(u, v)
      PROVE  NoteIsInKnownHands' /\ member' = member /\ prd' = prd
  <2>1. note' = [note EXCEPT !.deleted = FALSE, !.version = note.version + 1, !.restored = TRUE]
    BY <1>7 DEF RestoreNote
  <2>2. note'.restored
    BY <1>7, <2>1 DEF RestoreNote, Meets, TypeOK, Note
  <2> QED
    BY <1>7, <2>2 DEF RestoreNote, NoteIsInKnownHands
<1> QED
  BY <1>2, <1>3, <1>4, <1>5, <1>6, <1>7 DEF WorkOnNote, CreateNote

(* What a completion gives back, it gives to the author.                   *)
LEMMA GivingKeepsHands ==
  ASSUME TypeOK, NoteIsInKnownHands, NEW participants, note' = Restored(participants),
         member' = member
  PROVE  NoteIsInKnownHands' /\ (note = Nothing => note' = Nothing)
<1> USE RowsAreSomething
<1>1. CASE note # Nothing /\ ~note.deleted /\ note.assignee \notin participants \cup {Nobody}
  <2>1. note' = [note EXCEPT !.assignee = note.author, !.version = note.version + 1,
                             !.restored = FALSE]
    BY <1>1 DEF Restored
  <2>2. note'.assignee = note'.author
    BY <1>1, <2>1 DEF TypeOK, Note
  <2> QED
    BY <1>1, <2>2 DEF NoteIsInKnownHands
<1>2. CASE ~(note # Nothing /\ ~note.deleted /\ note.assignee \notin participants \cup {Nobody})
  <2>1. note' = note
    BY <1>2 DEF Restored
  <2> QED
    BY <2>1 DEF NoteIsInKnownHands, Assignable, IsMember
<1> QED
  BY <1>1, <1>2

LEMMA MembershipAtFirst == Init => MembershipIsSound /\ BoardStartsEmpty
  BY DEF Init, MembershipIsSound, BoardStartsEmpty

LEMMA MembershipStays ==
  ASSUME TypeOK, MembershipIsSound, BoardStartsEmpty, [Next]_vars
  PROVE  MembershipIsSound' /\ BoardStartsEmpty'
<1> USE RowsAreSomething
<1>1. ASSUME NEW editors \in SUBSET Users, CreatePrd(editors)
      PROVE  MembershipIsSound' /\ BoardStartsEmpty'
  <2>1. /\ [role |-> "owner", version |-> 1] # Nothing
        /\ [role |-> "editor", version |-> 1] # Nothing
    BY DEF Nothing
  <2>2. CreatorIsOwner'
    BY <1>1, <2>1, CreatorAssumption DEF CreatePrd, CreatorIsOwner, IsMember
  <2>3. note' = Nothing
    BY <1>1 DEF CreatePrd, BoardStartsEmpty
  <2> QED
    BY <2>2, <2>3 DEF MembershipIsSound, NoteIsInKnownHands, BoardStartsEmpty
<1>2. ASSUME member' = member, note' = note, prd = "absent" <=> prd' = "absent"
      PROVE  MembershipIsSound' /\ BoardStartsEmpty'
  BY <1>2 DEF MembershipIsSound, CreatorIsOwner, NoteIsInKnownHands, BoardStartsEmpty,
              Assignable, IsMember
<1>3. CASE Reopen
  BY <1>2, <1>3 DEF Reopen
<1>9. ASSUME NEW s \in Schedulers, Goes(s)
      PROVE  MembershipIsSound' /\ BoardStartsEmpty'
  <2>1. CASE Complete(s) \/ ReadParticipants(s) \/ SchedulingFails(s)
    BY <1>2, <2>1 DEF Complete, ReadParticipants, SchedulingFails, InProgress
  <2>2. CASE RestoreRemovedAssignees(s)
    <3>1. /\ note' = Restored(scheduler[s].participants)
          /\ prd' = prd /\ member' = member
      BY <2>2 DEF RestoreRemovedAssignees
    <3>2. CASE prd = "absent"
      <4>1. note' = Nothing
        BY <3>1, <3>2 DEF BoardStartsEmpty, Restored
      <4> QED
        BY <3>1, <3>2, <4>1 DEF MembershipIsSound, BoardStartsEmpty
    <3>3. CASE prd # "absent"
      <4>1. NoteIsInKnownHands'
        BY <3>1, <3>3, GivingKeepsHands DEF MembershipIsSound
      <4>2. CreatorIsOwner'
        BY <3>1, <3>3 DEF MembershipIsSound, CreatorIsOwner, IsMember
      <4> QED
        BY <3>1, <3>3, <4>1, <4>2 DEF MembershipIsSound, BoardStartsEmpty
    <3> QED
      BY <3>2, <3>3
  <2> QED
    BY <1>9, <2>1, <2>2 DEF Goes
<1>4. ASSUME NEW u \in Users, Admit(u) \/ GiveUp(u)
      PROVE  MembershipIsSound' /\ BoardStartsEmpty'
  BY <1>2, <1>4 DEF Admit, GiveUp
<1>5. ASSUME NEW u \in Users, Manage(u)
      PROVE  MembershipIsSound' /\ BoardStartsEmpty'
  <2>1. prd # "absent" /\ prd' = prd
    BY <1>5 DEF Manage, AddParticipants, AddParticipant, UpdateRole, RemoveParticipant,
                MayManage, InProgress
  <2>2. CreatorIsOwner' /\ NoteIsInKnownHands'
    BY <1>5, <2>1, ManagingKeepsOwner, ManagingKeepsHands DEF MembershipIsSound
  <2> QED
    BY <2>1, <2>2 DEF MembershipIsSound, BoardStartsEmpty
<1>6. ASSUME NEW u \in Users, Talk(u)
      PROVE  MembershipIsSound' /\ BoardStartsEmpty'
  BY <1>2, <1>6 DEF Talk, CreateComment, UpdateComment, DeleteComment, ModifyComment
<1>7. ASSUME NEW u \in Users, WorkOnNote(u)
      PROVE  MembershipIsSound' /\ BoardStartsEmpty'
  <2>1. prd # "absent"
    BY <1>7 DEF WorkOnNote, CreateNote, Assign, UndoAssign, RedoAssign, Replay, DeleteNote,
                RestoreNote, Meets, MayWrite, MayCreateNote, InProgress
  <2>2. NoteIsInKnownHands' /\ member' = member /\ prd' = prd
    BY <1>7, <2>1, WorkKeepsHands DEF MembershipIsSound
  <2>3. CreatorIsOwner'
    BY <2>1, <2>2 DEF MembershipIsSound, CreatorIsOwner, IsMember
  <2> QED
    BY <2>1, <2>2, <2>3 DEF MembershipIsSound, BoardStartsEmpty
<1>8. CASE UNCHANGED vars
  BY <1>2, <1>8 DEF vars
<1> QED
  BY <1>1, <1>3, <1>4, <1>5, <1>6, <1>7, <1>8, <1>9 DEF Next, Goes

(* A created PRD has one owner, its creator, and its note is in known      *)
(* hands, however many people come, leave and send requests that were      *)
(* admitted before.                                                        *)
THEOREM MembershipStaysSound == Spec => []MembershipIsSound
<1>1. Init => TypeOK /\ MembershipIsSound /\ BoardStartsEmpty
  BY TypesAtFirst, MembershipAtFirst
<1>2. TypeOK /\ MembershipIsSound /\ BoardStartsEmpty /\ [Next]_vars
        => (TypeOK /\ MembershipIsSound /\ BoardStartsEmpty)'
  BY TypesStay, MembershipStays
<1> QED
  BY <1>1, <1>2, PTL DEF Spec
-----------------------------------------------------------------------------
(* What a completed PRD takes.                                             *)

LEMMA ReviewsAtFirst == Init => ReviewsAreTutors
  BY DEF Init, ReviewsAreTutors

LEMMA TalkKeepsReviews ==
  ASSUME TypeOK, ReviewsAreTutors, NEW u \in Users, Talk(u)
  PROVE  ReviewsAreTutors'
<1> USE RowsAreSomething
<1>1. ASSUME NEW i \in 1..MaxComments, NEW type \in {"general", "guidance", "review", Review},
             CreateComment(u, i, type)
      PROVE  ReviewsAreTutors'
  <2>1. type = Review => admitted[u] = "tutor"
    BY <1>1 DEF CreateComment, CommentTypes, Review
  <2>2. comments' = [comments EXCEPT ![i] =
           [author |-> u, role |-> admitted[u], type |-> type,
            eligible |-> admitted[u] \in {"owner", "editor"} /\ type = "general",
            version |-> 1, deleted |-> FALSE]]
    BY <1>1 DEF CreateComment
  <2> QED
    BY <2>1, <2>2 DEF ReviewsAreTutors, TypeOK
<1>2. ASSUME NEW i \in 1..MaxComments, NEW v \in Versions, NEW deleted \in BOOLEAN,
             ModifyComment(u, i, v, deleted)
      PROVE  ReviewsAreTutors'
  <2>1. comments[i] \in Comment
    BY <1>2 DEF ModifyComment, TypeOK
  <2>2. comments' = [comments EXCEPT ![i] =
                       [comments[i] EXCEPT !.version = @ + 1, !.deleted = deleted]]
    BY <1>2 DEF ModifyComment, TypeOK
  <2>3. /\ [comments[i] EXCEPT !.version = @ + 1, !.deleted = deleted].type = comments[i].type
        /\ [comments[i] EXCEPT !.version = @ + 1, !.deleted = deleted].role = comments[i].role
    BY <2>1 DEF Comment
  <2> QED
    BY <2>1, <2>2, <2>3 DEF ReviewsAreTutors, TypeOK
<1> QED
  BY <1>1, <1>2 DEF Talk, UpdateComment, DeleteComment

LEMMA ReviewsStay ==
  ASSUME TypeOK, ReviewsAreTutors, [Next]_vars
  PROVE  ReviewsAreTutors'
<1>1. ASSUME comments' = comments
      PROVE  ReviewsAreTutors'
  BY <1>1 DEF ReviewsAreTutors
<1>2. ASSUME NEW u \in Users, Manage(u)
      PROVE  ReviewsAreTutors'
  BY <1>1, <1>2 DEF Manage, AddParticipants, AddParticipant, UpdateRole, RemoveParticipant
<1>3. ASSUME NEW u \in Users, WorkOnNote(u)
      PROVE  ReviewsAreTutors'
  BY <1>1, <1>3 DEF WorkOnNote, CreateNote, Assign, UndoAssign, RedoAssign, Replay,
                    DeleteNote, RestoreNote
<1>4. ASSUME NEW u \in Users, Admit(u) \/ GiveUp(u)
      PROVE  ReviewsAreTutors'
  BY <1>1, <1>4 DEF Admit, GiveUp
<1>5. CASE Reopen \/ (\E editors \in SUBSET Users : CreatePrd(editors)) \/ UNCHANGED vars
  BY <1>1, <1>5 DEF Reopen, CreatePrd, vars
<1>6. ASSUME NEW s \in Schedulers, Goes(s)
      PROVE  ReviewsAreTutors'
  BY <1>1, <1>6 DEF Goes, Complete, ReadParticipants, RestoreRemovedAssignees, SchedulingFails
<1> QED
  BY <1>2, <1>3, <1>4, <1>5, <1>6, TalkKeepsReviews DEF Next, Goes

(* A comment that a completed PRD gains, or that changes in it, is a       *)
(* tutor's review.                                                         *)
LEMMA CompletedTalkIsReview ==
  ASSUME TypeOK, ReviewsAreTutors, prd = "completed", NEW u \in Users, Talk(u)
  PROVE  \A i \in 1..MaxComments : comments'[i] # comments[i] =>
             comments'[i].type = Review /\ comments'[i].role = "tutor"
<1> USE RowsAreSomething
<1>1. ASSUME NEW i \in 1..MaxComments, NEW type \in {"general", "guidance", "review", Review},
             CreateComment(u, i, type)
      PROVE  \A k \in 1..MaxComments : comments'[k] # comments[k] =>
                 comments'[k].type = Review /\ comments'[k].role = "tutor"
  <2>1. type = Review /\ admitted[u] = "tutor"
    BY <1>1 DEF CreateComment, MayCreate, InProgress
  <2> QED
    BY <1>1, <2>1 DEF CreateComment, TypeOK
<1>2. ASSUME NEW i \in 1..MaxComments, NEW v \in Versions, NEW deleted \in BOOLEAN,
             ModifyComment(u, i, v, deleted)
      PROVE  \A k \in 1..MaxComments : comments'[k] # comments[k] =>
                 comments'[k].type = Review /\ comments'[k].role = "tutor"
  <2>1. comments[i] \in Comment /\ comments[i].type = Review
    BY <1>2 DEF ModifyComment, MayModify, InProgress, TypeOK
  <2>2. comments[i].role = "tutor"
    BY <2>1 DEF ReviewsAreTutors
  <2>3. comments' = [comments EXCEPT ![i] =
                       [comments[i] EXCEPT !.version = @ + 1, !.deleted = deleted]]
    BY <1>2 DEF ModifyComment, TypeOK
  <2>4. /\ [comments[i] EXCEPT !.version = @ + 1, !.deleted = deleted].type = comments[i].type
        /\ [comments[i] EXCEPT !.version = @ + 1, !.deleted = deleted].role = comments[i].role
    BY <2>1 DEF Comment
  <2> QED
    BY <2>1, <2>2, <2>3, <2>4 DEF TypeOK
<1> QED
  BY <1>1, <1>2 DEF Talk, UpdateComment, DeleteComment

(* What a process gives back of a note goes to its author, and it had the  *)
(* list of participants that says so.                                      *)
LEMMA CompletionGivesBack ==
  ASSUME TypeOK, NEW s \in Schedulers, Goes(s)
  PROVE  member' = member /\ comments' = comments /\ (note' = note \/ GoesBack)
<1>1. CASE Complete(s) \/ ReadParticipants(s) \/ SchedulingFails(s)
  BY <1>1 DEF Complete, ReadParticipants, SchedulingFails
<1>2. CASE RestoreRemovedAssignees(s)
  <2>1. CASE note' = note
    BY <1>2, <2>1 DEF RestoreRemovedAssignees
  <2>2. CASE note' # note
    <3>1. /\ note # Nothing /\ note \in Note
          /\ note.assignee \notin scheduler[s].participants
          /\ note' = [note EXCEPT !.assignee = note.author, !.version = note.version + 1,
                                  !.restored = FALSE]
      BY <1>2, <2>2 DEF RestoreRemovedAssignees, Restored, TypeOK
    <3>2. GoesBack
      BY <1>2, <3>1 DEF GoesBack, RestoreRemovedAssignees
    <3> QED
      BY <1>2, <3>2 DEF RestoreRemovedAssignees
  <2> QED
    BY <2>1, <2>2
<1> QED
  BY <1>1, <1>2 DEF Goes

(* While the PRD is completed, participants stand still, a note at most    *)
(* goes back to its author, and only reviews of tutors come or change,     *)
(* whenever a request was admitted and however late a scheduler is.        *)
THEOREM CompletedStandsStill == Spec => CompletedTakesReviewsAndReturns
<1>1. Init => TypeOK /\ ReviewsAreTutors
  BY TypesAtFirst, ReviewsAtFirst
<1>2. TypeOK /\ ReviewsAreTutors /\ [Next]_vars => (TypeOK /\ ReviewsAreTutors)'
  BY TypesStay, ReviewsStay
<1>3. TypeOK /\ ReviewsAreTutors /\ [Next]_vars =>
        [prd = "completed" =>
           /\ member' = member
           /\ note' = note \/ GoesBack
           /\ \A i \in 1..MaxComments : comments'[i] # comments[i] =>
                comments'[i].type = Review /\ comments'[i].role = "tutor"]_vars
  <2> SUFFICES ASSUME TypeOK, ReviewsAreTutors, Next, prd = "completed"
               PROVE  /\ member' = member
                      /\ note' = note \/ GoesBack
                      /\ \A i \in 1..MaxComments : comments'[i] # comments[i] =>
                           comments'[i].type = Review /\ comments'[i].role = "tutor"
    OBVIOUS
  <2>1. ASSUME NEW u \in Users, Manage(u) \/ WorkOnNote(u)
        PROVE  FALSE
    BY <2>1 DEF Manage, AddParticipants, AddParticipant, UpdateRole, RemoveParticipant, MayManage,
                WorkOnNote, CreateNote, Assign, UndoAssign, RedoAssign, Replay, DeleteNote,
                RestoreNote, Meets, MayWrite, MayCreateNote, InProgress
  <2>2. ASSUME NEW u \in Users, Talk(u)
        PROVE  member' = member /\ note' = note
    BY <2>2 DEF Talk, CreateComment, UpdateComment, DeleteComment, ModifyComment
  <2>3. ASSUME NEW u \in Users, Admit(u) \/ GiveUp(u)
        PROVE  member' = member /\ note' = note /\ comments' = comments
    BY <2>3 DEF Admit, GiveUp
  <2>4. CASE Reopen \/ (\E editors \in SUBSET Users : CreatePrd(editors))
    BY <2>4 DEF Reopen, CreatePrd
  <2>5. ASSUME NEW s \in Schedulers, Goes(s)
        PROVE  member' = member /\ comments' = comments /\ (note' = note \/ GoesBack)
    BY <2>5, CompletionGivesBack
  <2> QED
    BY <2>1, <2>2, <2>3, <2>4, <2>5, CompletedTalkIsReview DEF Next, Goes
<1> QED
  BY <1>1, <1>2, <1>3, PTL DEF Spec, CompletedTakesReviewsAndReturns
=============================================================================
