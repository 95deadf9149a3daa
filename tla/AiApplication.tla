--------------------------- MODULE AiApplication ---------------------------
(***************************************************************************)
(* What AI results do to one PRD and its latest board while people go on   *)
(* writing: drafts of answers, proposals of the coach, drafts of the whole *)
(* PRD, the preview that brings notes into answers, and the classification *)
(* of notes.  A result is asked for, stored by a worker, and applied when  *)
(* a person approves it.  Every request is admitted with the PRD as read   *)
(* before anything is locked, and its transaction comes later.             *)
(***************************************************************************)
EXTENDS QuestionRows, FiniteSets, Functions

CONSTANTS Questions,
          Notes,
          Sections,
          SectionOf,   (* the section of each question                       *)
          NoSection,
          Jobs,
          Clients      (* each with at most one request under way            *)

JobKinds == {"draft", "chat", "whole", "preview", "classification"}

ASSUME SectionAssumption ==
    NoSection \notin Sections /\ SectionOf \in [Questions -> Sections]
ASSUME RowAssumption == Questions \cap Notes = {}
ASSUME JobAssumption == Jobs \cap (Texts \cup {Blank}) = {}

VARIABLES prd,       (* whether it is completed, or in the trash             *)
          question,  (* the questions with their answers                     *)
          note,      (* the notes of the board                               *)
          latest,    (* whether that board still is the latest one           *)
          job,       (* the AI jobs and what was made of their results       *)
          request    (* requests that were admitted                          *)

vars == <<prd, question, note, latest, job, request>>
-----------------------------------------------------------------------------
(* What a job wrote is told by the job.                                    *)
Contents == Texts \cup {Blank} \cup Jobs
Nothing == [kind |-> "none"]
Some(S, T) == UNION {[part -> T] : part \in SUBSET S}

(* A note is accepted exactly when it has a section (constraint            *)
(* brain_note_state_section_valid), so its place also tells its status.    *)
NoteRow == [version : Versions, deleted : BOOLEAN,
            place : Sections \cup {NoSection, "held"}]

(* "seen" and "notes" are the rows the result was made from; their         *)
(* versions are checked when it is applied.  "advice" is the section the   *)
(* AI has for each note.  "used" counts how often a text of the job went   *)
(* into an answer, or a section of it into a note.                         *)
JobRow ==
    [kind : JobKinds, status : {"running", "succeeded"},
     seen : Some(Questions, QuestionRow(Contents)), notes : Some(Notes, NoteRow),
     advice : Some(Notes, Sections), decided : {"open", "applied", "declined"},
     used : [Questions \cup Notes -> 0..2]]

Request ==
    [kind : {"answer"}, of : Questions, version : Versions, content : Texts \cup {Blank}] \cup
    [kind : {"hold"}, of : Questions, version : Versions, held : BOOLEAN] \cup
    [kind : {"apply"}, job : Jobs, approved : Some(Questions, Versions)] \cup
    [kind : {"classify"}, job : Jobs, selected : SUBSET Notes]

TypeOK ==
    /\ prd \in [completed : BOOLEAN, deleted : BOOLEAN]
    /\ question \in [Questions -> QuestionRow(Contents)]
    /\ note \in [Notes -> NoteRow]
    /\ latest \in BOOLEAN
    /\ job \in [Jobs -> {Nothing} \cup JobRow]
    /\ request \in [Clients -> {Nothing} \cup Request]

Init ==
    /\ prd = [completed |-> FALSE, deleted |-> FALSE]
    /\ question = [q \in Questions |-> NewQuestion]
    /\ note \in [Notes -> [version : {1}, deleted : {FALSE},
                           place : Sections \cup {NoSection}]]
    /\ latest = TRUE
    /\ job = [j \in Jobs |-> Nothing]
    /\ request = [c \in Clients |-> Nothing]
-----------------------------------------------------------------------------
(* The life of the PRD, in PrdLifecycle, and of its boards, in             *)
(* BoardVersions and BrainstormBoard, as far as they meet the AI.          *)
Open == ~prd.completed /\ ~prd.deleted

CompleteOrReopen ==
    /\ ~prd.deleted
    /\ prd' = [prd EXCEPT !.completed = ~@]
    /\ UNCHANGED <<question, note, latest, job, request>>

TrashOrRestore ==
    /\ prd' = [prd EXCEPT !.deleted = ~@]
    /\ UNCHANGED <<question, note, latest, job, request>>

(* Another board is put first; here it does not come back.                 *)
SwitchBoard ==
    /\ latest
    /\ latest' = FALSE
    /\ UNCHANGED <<prd, question, note, job, request>>

(* A person writes, files, holds, deletes or restores a note, perhaps with *)
(* a request admitted before the PRD was completed.                        *)
ChangeNote(n) ==
    /\ latest
    /\ \E row \in NoteRow : /\ row.version = note[n].version + 1
                            /\ note' = [note EXCEPT ![n] = row]
    /\ UNCHANGED <<prd, question, latest, job, request>>
-----------------------------------------------------------------------------
(* Requests for a result.  They too are admitted while the PRD is open,    *)
(* and nothing looks at the PRD or at the board again before the job is    *)
(* made: one admitted at the start may come at any time, so that no guard  *)
(* is left.  What goes into the prompt is read at once: in the code the    *)
(* answers are read after the versions, which only makes the result        *)
(* conflict later on.                                                      *)
Unused == [x \in Questions \cup Notes |-> 0]
NewJob(kind, seen, notes) ==
    [kind |-> kind, status |-> "running", seen |-> seen, notes |-> notes,
     advice |-> <<>>, decided |-> "open", used |-> Unused]

Active == {q \in Questions : ~question[q].held}
Filed(scope) == {n \in Notes : ~note[n].deleted /\ note[n].place \in scope}
Unclassified == {n \in Notes : ~note[n].deleted /\ note[n].place = NoSection}

Ask(j, kind, questions, notes) ==
    /\ job[j] = Nothing
    /\ job' = [job EXCEPT ![j] =
         NewJob(kind, Restrict(question, questions), Restrict(note, notes))]
    /\ UNCHANGED <<prd, question, note, latest, request>>

RequestDraft(j, q) == q \in Active /\ Ask(j, "draft", {q}, {})
RequestChat(j) == Ask(j, "chat", {}, {})
RequestWholeDraft(j) == Active # {} /\ Ask(j, "whole", Active, {})

(* Of the whole PRD or of one section, which must have notes and active    *)
(* questions.                                                              *)
RequestPreview(j) ==
    \E scope \in {Sections} \cup {{s} : s \in Sections} :
        LET questions == {q \in Active : SectionOf[q] \in scope}
        IN  /\ Filed(scope) # {} /\ questions # {}
            /\ Ask(j, "preview", questions, Filed(scope))

RequestClassification(j) ==
    /\ Unclassified # {} /\ Sections # {}
    /\ Ask(j, "classification", {}, Unclassified)

(* The worker stores what the AI made, texts for all questions of the job. *)
Store(j, kinds, seen, advice) ==
    /\ job[j] # Nothing /\ job[j].status = "running" /\ job[j].kind \in kinds
    /\ job' = [job EXCEPT ![j].status = "succeeded", ![j].seen = seen,
                          ![j].advice = advice]
    /\ UNCHANGED <<prd, question, note, latest, request>>

StoreTexts(j) == Store(j, {"draft", "whole", "preview"}, job[j].seen, <<>>)

(* The coach may propose a new answer to one active question, whose        *)
(* version is taken now and not when the question was read for the prompt. *)
StoreProposal(j) == \E about \in SUBSET Active :
    Cardinality(about) <= 1 /\ Store(j, {"chat"}, Restrict(question, about), <<>>)

StoreAdvice(j) ==
    /\ job[j] # Nothing
    /\ \E advice \in Some(DOMAIN job[j].notes, Sections) :
         Store(j, {"classification"}, <<>>, advice)
-----------------------------------------------------------------------------
(* A request is admitted when the PRD read before any lock is open.  It    *)
(* carries the versions its page shows; older ones would only be refused.  *)
Admit(c, r) ==
    /\ Open /\ request[c] = Nothing
    /\ request' = [request EXCEPT ![c] = r]
    /\ UNCHANGED <<prd, question, note, latest, job>>

Finished(j) == job[j] # Nothing /\ job[j].status = "succeeded"

SendAnswer(c, q) == \E content \in Texts \cup {Blank} :
    Admit(c, [kind |-> "answer", of |-> q, version |-> question[q].version,
              content |-> content])

SendHold(c, q) == \E held \in BOOLEAN :
    Admit(c, [kind |-> "hold", of |-> q, version |-> question[q].version, held |-> held])

SendApplication(c, j) ==
    /\ Finished(j)
    /\ \E part \in SUBSET DOMAIN job[j].seen :
         /\ part # {}
         /\ Admit(c, [kind |-> "apply", job |-> j,
                      approved |-> [q \in part |-> question[q].version]])

SendClassification(c, j) ==
    /\ Finished(j)
    /\ \E part \in SUBSET DOMAIN job[j].advice :
         part # {} /\ Admit(c, [kind |-> "classify", job |-> j, selected |-> part])

(* A request is refused by a check under the locks, answered from the      *)
(* record of an earlier one with its key, or lost.                         *)
Closed(c) == request' = [request EXCEPT ![c] = Nothing]

GiveUp(c) ==
    /\ request[c] # Nothing
    /\ Closed(c)
    /\ UNCHANGED <<prd, question, note, latest, job>>
-----------------------------------------------------------------------------
(* A save and a hold lock the PRD first and look at it again.              *)
SaveAnswerAsAdmitted(c) ==
    LET r == request[c]
    IN  /\ r.kind = "answer"
        /\ Writable(question[r.of], r.version) /\ Changeable(question[r.of])
        /\ question' = [question EXCEPT ![r.of] = Answered(@, r.content)]
        /\ Closed(c)
        /\ UNCHANGED <<prd, note, latest, job>>

SaveAnswer(c) ==
    LET r == request[c]
    IN  /\ r.kind = "answer" /\ Open
        /\ Writable(question[r.of], r.version) /\ Changeable(question[r.of])
        /\ question' = [question EXCEPT ![r.of] = Answered(@, r.content)]
        /\ Closed(c)
        /\ UNCHANGED <<prd, note, latest, job>>

SetHold(c) ==
    LET r == request[c]
    IN  /\ r.kind = "hold" /\ Open
        /\ question[r.of].version = r.version /\ Changeable(question[r.of])
        /\ question' = [question EXCEPT ![r.of] = HeldAs(@, r.held)]
        /\ Closed(c)
        /\ UNCHANGED <<prd, note, latest, job>>

Decided(j, decision, rows) ==
    [job EXCEPT ![j].decided = decision,
                ![j].used = [x \in DOMAIN @ |-> IF x \in rows THEN @[x] + 1 ELSE @[x]]]

(* Drafts and proposals lock the job and the question, but not the PRD.    *)
(* Only a proposal is looked up whether it was decided on before.          *)
AsApproved(j, approved) == \A q \in DOMAIN approved :
    /\ q \in DOMAIN job[j].seen
    /\ Writable(question[q], approved[q]) /\ Changeable(question[q])

AsGenerated(j, approved) == \A q \in DOMAIN approved :
    /\ q \in DOMAIN job[j].seen
    /\ Writable(question[q], approved[q]) /\ Changeable(question[q])
    /\ approved[q] = job[j].seen[q].version

ApplyTexts(c, kind) ==
    LET r == request[c]
        approved == DOMAIN r.approved
    IN  /\ r.kind = "apply" /\ job[r.job].kind = kind
        /\ AsGenerated(r.job, r.approved)
        /\ question' = [q \in Questions |->
             IF q \in approved THEN Drafted(question[q], r.job) ELSE question[q]]
        /\ job' = Decided(r.job, "applied", approved)
        /\ Closed(c)
        /\ UNCHANGED <<prd, note, latest>>

ApplyDraft(c) == ApplyTexts(c, "draft")
ApplyProposal(c) == ApplyTexts(c, "chat") /\ job[request[c].job].decided = "open"
ApplyWholeDraft(c) == ApplyTexts(c, "whole")

(* A proposal can be declined, again and again, whatever became of the PRD *)
(* but for the trash.                                                      *)
DeclineProposal(j) ==
    /\ Finished(j) /\ job[j].kind = "chat" /\ job[j].seen # <<>>
    /\ ~prd.deleted /\ job[j].decided # "applied"
    /\ job' = Decided(j, "declined", {})
    /\ UNCHANGED <<prd, question, note, latest, request>>

(* The preview locks the PRD and the board as well, and wants the board to *)
(* be the latest, but does not ask whether the PRD still is open.  All of  *)
(* its notes and the approved questions must be as they were.              *)
AsPreviewed(j, approved) ==
    /\ \A n \in DOMAIN job[j].notes :
         ~note[n].deleted /\ note[n].version = job[j].notes[n].version
    /\ AsGenerated(j, approved)

ApplyPreview(c) ==
    LET r == request[c]
        approved == DOMAIN r.approved
    IN  /\ r.kind = "apply" /\ job[r.job].kind = "preview"
        /\ job[r.job].decided = "open" /\ latest
        /\ AsPreviewed(r.job, r.approved)
        /\ question' = [q \in Questions |->
             IF q \in approved THEN Integrated(question[q], r.job) ELSE question[q]]
        /\ job' = Decided(r.job, "applied", approved)
        /\ Closed(c)
        /\ UNCHANGED <<prd, note, latest>>

(* Selected notes go to the section recommended for them.                  *)
AsAnalysed(j, selected) == \A n \in selected :
    /\ n \in Unclassified
    /\ note[n].version = job[j].notes[n].version /\ note[n].version < MaxVersion

Classified(row, section) == [row EXCEPT !.version = @ + 1, !.place = section]

ApplyClassification(c) ==
    LET r == request[c]
    IN  /\ r.kind = "classify"
        /\ job[r.job].decided = "open" /\ latest
        /\ AsAnalysed(r.job, r.selected)
        /\ note' = [n \in Notes |-> IF n \in r.selected
                                    THEN Classified(note[n], job[r.job].advice[n]) ELSE note[n]]
        /\ job' = Decided(r.job, "applied", r.selected)
        /\ Closed(c)
        /\ UNCHANGED <<prd, question, latest>>
-----------------------------------------------------------------------------
Next ==
    \/ CompleteOrReopen \/ TrashOrRestore \/ SwitchBoard
    \/ \E n \in Notes : ChangeNote(n)
    \/ \E j \in Jobs :
         \/ \E q \in Questions : RequestDraft(j, q)
         \/ RequestChat(j) \/ RequestWholeDraft(j)
         \/ RequestPreview(j) \/ RequestClassification(j)
         \/ StoreTexts(j) \/ StoreProposal(j) \/ StoreAdvice(j) \/ DeclineProposal(j)
    \/ \E c \in Clients :
         \/ \E q \in Questions : SendAnswer(c, q) \/ SendHold(c, q)
         \/ \E j \in Jobs : SendApplication(c, j) \/ SendClassification(c, j)
         \/ SaveAnswer(c) \/ SetHold(c)
         \/ ApplyDraft(c) \/ ApplyProposal(c) \/ ApplyWholeDraft(c)
         \/ ApplyPreview(c) \/ ApplyClassification(c) \/ GiveUp(c)

Spec == Init /\ [][Next]_vars
-----------------------------------------------------------------------------
(* Using(j, x): the step puts a result of the job into question or note x. *)
Using(j, x) == job[j] # Nothing /\ job'[j].used[x] > job[j].used[x]

(* A result replaces nothing but what it was made from: when a text of a   *)
(* job goes into an answer, the whole question and its answer are as they  *)
(* were when they were read (for the coach, when the proposal was stored), *)
(* and so are all the notes of a preview; a note that is classified is as  *)
(* it was analysed.  Only versions are compared, so that every writer of a *)
(* question or a note has to give it a new one.                            *)
AppliedAsSeen == [][\A j \in Jobs :
    /\ \A q \in Questions : Using(j, q) =>
         /\ question[q] = job[j].seen[q]
         /\ \A n \in DOMAIN job[j].notes : note[n] = job[j].notes[n]
    /\ \A n \in Notes : Using(j, n) => note[n] = job[j].notes[n]]_vars

(* Whatever is sent twice, from two tabs or again after a lost answer, a   *)
(* result goes into an answer or a note at most once, a declined proposal  *)
(* never, and none without a trace of it in the job.                       *)
UsedAtMostOnce == \A j \in Jobs : job[j] # Nothing =>
    \A x \in Questions \cup Notes :
        /\ job[j].used[x] <= 1
        /\ job[j].used[x] = 1 => job[j].decided = "applied"

(* Once the PRD is completed or in the trash, no save and no hold changes  *)
(* it, however early it was sent; only AI results whose application was    *)
(* admitted before can still arrive.                                       *)
PeopleStopAtCompletion == [][
    ~Open /\ question' # question => \E j \in Jobs, q \in Questions : Using(j, q)]_vars

(* After the completion answers and AI applications are locked             *)
(* (docs/FUNCTIONAL_SPEC.md:123, "Completion lock"): not so.               *)
CompletedAnswersStand == [][~Open => question' = question]_vars
=============================================================================
