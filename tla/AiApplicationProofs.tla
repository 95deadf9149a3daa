------------------------ MODULE AiApplicationProofs ------------------------
(***************************************************************************)
(* What is proved of AiApplication for any questions, notes, jobs, clients *)
(* and versions: its types, that a result replaces nothing but what it was *)
(* made from, that it does so at most once, and that people's writes stop  *)
(* with the completion.                                                    *)
(***************************************************************************)
EXTENDS AiApplication, TLAPS

(* A row as it was read, and the row as it is: the same, or a newer one.   *)
Old(seen, row) == seen.version <= row.version /\ (seen.version = row.version => seen = row)

(* A write leaves a row alone or gives it the next version.                *)
Advanced(row, next) == next = row \/ next.version = row.version + 1

(* A result is made from old rows; what was used of it is no longer as it  *)
(* was read, and was applied.                                              *)
SourcesAreOld(j) ==
    /\ \A q \in DOMAIN job[j].seen : Old(job[j].seen[q], question[q])
    /\ \A n \in DOMAIN job[j].notes : Old(job[j].notes[n], note[n])

UseIsRecorded(j) ==
    /\ \A x \in Questions \cup Notes :
         /\ job[j].used[x] <= 1
         /\ job[j].used[x] = 1 => job[j].decided = "applied" /\ job[j].status = "succeeded"
    /\ \A q \in Questions : job[j].used[q] = 1 =>
         q \in DOMAIN job[j].seen /\ job[j].seen[q].version < question[q].version

JobOK(j) == job[j] # Nothing =>
    /\ SourcesAreOld(j)
    /\ UseIsRecorded(j)
    /\ DOMAIN job[j].advice \subseteq DOMAIN job[j].notes
    /\ job[j].kind \in {"draft", "chat", "whole"} => DOMAIN job[j].notes = {}

(* What a request applies is finished and stays as it is.                  *)
RequestOK(c) ==
    /\ request[c].kind \in {"apply", "classify"} => Finished(request[c].job)
    /\ request[c].kind = "classify" =>
         request[c].selected \subseteq DOMAIN job[request[c].job].advice

(* The inductive invariant.                                                *)
ApplicationInv ==
    /\ TypeOK
    /\ \A j \in Jobs : JobOK(j)
    /\ \A c \in Clients : RequestOK(c)
-----------------------------------------------------------------------------
(* The types.                                                              *)

LEMMA SomeMeans ==
  ASSUME NEW S, NEW T
  PROVE  /\ \A f \in Some(S, T) : /\ f \in [DOMAIN f -> T]
                                  /\ DOMAIN f \subseteq S
         /\ \A f, P : P \subseteq S /\ f \in [P -> T] => f \in Some(S, T)
  BY DEF Some

LEMMA NothingIsSome == ASSUME NEW S, NEW T PROVE <<>> \in Some(S, T) /\ DOMAIN <<>> = {}
<1>1. <<>> \in [{} -> T]
  OBVIOUS
<1> QED
  BY <1>1 DEF Some

LEMMA RowsAreSomething ==
    /\ \A r \in JobRow : r # Nothing
    /\ \A r \in Request : r # Nothing
<1>1. \A r \in JobRow : r.kind # "none"
  BY DEF JobRow, JobKinds
<1>2. \A r \in Request : r.kind # "none"
  BY DEF Request
<1>3. Nothing.kind = "none"
  BY DEF Nothing
<1> QED
  BY <1>1, <1>2, <1>3

LEMMA WrittenRows ==
  ASSUME NEW row \in QuestionRow(Contents), Changeable(row), NEW content \in Contents,
         NEW held \in BOOLEAN
  PROVE  /\ Answered(row, content) \in QuestionRow(Contents)
         /\ Drafted(row, content) \in QuestionRow(Contents)
         /\ Integrated(row, content) \in QuestionRow(Contents)
         /\ HeldAs(row, held) \in QuestionRow(Contents)
         /\ Advanced(row, Answered(row, content))
         /\ Advanced(row, Drafted(row, content))
         /\ Advanced(row, Integrated(row, content))
         /\ Advanced(row, HeldAs(row, held))
<1>1. row.version + 1 \in Versions
  BY VersionAssumption DEF Changeable, QuestionRow, Versions
<1> QED
  BY <1>1 DEF QuestionRow, Answered, Drafted, Integrated, HeldAs, Advanced

LEMMA RequestParts ==
  ASSUME NEW r \in Request
  PROVE  /\ r.kind = "answer" => /\ r.of \in Questions /\ r.version \in Versions
                                 /\ r.content \in Texts \cup {Blank}
         /\ r.kind = "hold" => r.of \in Questions /\ r.version \in Versions /\ r.held \in BOOLEAN
         /\ r.kind = "apply" => r.job \in Jobs /\ r.approved \in Some(Questions, Versions)
         /\ r.kind = "classify" => r.job \in Jobs /\ r.selected \in SUBSET Notes
  BY DEF Request

LEMMA JobParts ==
  ASSUME TypeOK, NEW j \in Jobs, job[j] # Nothing
  PROVE  /\ job[j] \in JobRow
         /\ DOMAIN job[j].seen \subseteq Questions
         /\ \A q \in DOMAIN job[j].seen : job[j].seen[q] \in QuestionRow(Contents)
         /\ DOMAIN job[j].notes \subseteq Notes
         /\ \A n \in DOMAIN job[j].notes : job[j].notes[n] \in NoteRow
         /\ job[j].advice \in Some(Notes, Sections)
         /\ \A n \in DOMAIN job[j].advice : n \in Notes /\ job[j].advice[n] \in Sections
         /\ job[j].used \in [Questions \cup Notes -> 0..2]
<1>1. job[j] \in JobRow
  BY DEF TypeOK
<1>2. /\ job[j].seen \in Some(Questions, QuestionRow(Contents))
      /\ job[j].notes \in Some(Notes, NoteRow)
      /\ job[j].advice \in Some(Notes, Sections)
      /\ job[j].used \in [Questions \cup Notes -> 0..2]
  BY <1>1 DEF JobRow
<1>3. job[j].seen \in [DOMAIN job[j].seen -> QuestionRow(Contents)]
        /\ DOMAIN job[j].seen \subseteq Questions
  BY <1>2, SomeMeans
<1>4. job[j].notes \in [DOMAIN job[j].notes -> NoteRow] /\ DOMAIN job[j].notes \subseteq Notes
  BY <1>2, SomeMeans
<1>5. job[j].advice \in [DOMAIN job[j].advice -> Sections] /\ DOMAIN job[j].advice \subseteq Notes
  BY <1>2, SomeMeans
<1> QED
  BY <1>1, <1>2, <1>3, <1>4, <1>5

LEMMA RowVersions ==
    /\ \A row \in QuestionRow(Contents) : row.version \in Nat
    /\ \A row \in NoteRow : row.version \in Nat
  BY DEF QuestionRow, NoteRow, Versions
-----------------------------------------------------------------------------
(* Rows that move on leave what was read of them behind.                   *)

LEMMA OldStaysOld ==
  ASSUME NEW seen, NEW row, NEW next, seen.version \in Nat, row.version \in Nat,
         Old(seen, row), Advanced(row, next)
  PROVE  Old(seen, next) /\ (seen.version < row.version => seen.version < next.version)
  BY DEF Old, Advanced

RowsAdvance ==
    /\ \A q \in Questions : Advanced(question[q], question'[q])
    /\ \A n \in Notes : Advanced(note[n], note'[n])

LEMMA SourcesStayOld ==
  ASSUME ApplicationInv, RowsAdvance, NEW j \in Jobs, job[j] # Nothing,
         job'[j].seen = job[j].seen, job'[j].notes = job[j].notes
  PROVE  SourcesAreOld(j)'
<1>1. TypeOK /\ SourcesAreOld(j)
  BY DEF ApplicationInv, JobOK
<1>2. ASSUME NEW q \in DOMAIN job[j].seen
      PROVE  Old(job[j].seen[q], question'[q])
  <2>1. q \in Questions /\ job[j].seen[q].version \in Nat /\ question[q].version \in Nat
    BY <1>1, JobParts, RowVersions DEF TypeOK
  <2> QED
    BY <1>1, <2>1, OldStaysOld DEF SourcesAreOld, RowsAdvance
<1>3. ASSUME NEW n \in DOMAIN job[j].notes
      PROVE  Old(job[j].notes[n], note'[n])
  <2>1. n \in Notes /\ job[j].notes[n].version \in Nat /\ note[n].version \in Nat
    BY <1>1, JobParts, RowVersions DEF TypeOK
  <2> QED
    BY <1>1, <2>1, OldStaysOld DEF SourcesAreOld, RowsAdvance
<1> QED
  BY <1>2, <1>3 DEF SourcesAreOld

(* A job nobody touches stays in order.                                    *)
LEMMA JobStaysOK ==
  ASSUME ApplicationInv, RowsAdvance, NEW j \in Jobs, job'[j] = job[j]
  PROVE  JobOK(j)'
<1> SUFFICES ASSUME job[j] # Nothing
             PROVE  JobOK(j)'
  BY DEF JobOK
<1>1. TypeOK /\ JobOK(j)
  BY DEF ApplicationInv
<1>2. SourcesAreOld(j)'
  BY SourcesStayOld
<1>3. ASSUME NEW q \in Questions, job[j].used[q] = 1
      PROVE  q \in DOMAIN job[j].seen /\ job[j].seen[q].version < question'[q].version
  <2>1. q \in DOMAIN job[j].seen /\ job[j].seen[q].version < question[q].version
          /\ Old(job[j].seen[q], question[q])
    BY <1>1, <1>3 DEF JobOK, UseIsRecorded, SourcesAreOld
  <2>2. job[j].seen[q].version \in Nat /\ question[q].version \in Nat
    BY <1>1, <2>1, JobParts, RowVersions DEF TypeOK
  <2> QED
    BY <2>1, <2>2, OldStaysOld DEF RowsAdvance
<1>4. UseIsRecorded(j)'
  BY <1>1, <1>3 DEF JobOK, UseIsRecorded
<1> QED
  BY <1>1, <1>2, <1>4 DEF JobOK

LEMMA RequestStaysOK ==
  ASSUME ApplicationInv, NEW c \in Clients,
         request'[c] = request[c] \/ request'[c] = Nothing,
         \A j \in Jobs : Finished(j) =>
            job'[j] # Nothing /\ job'[j].status = "succeeded" /\ job'[j].advice = job[j].advice,
         TypeOK
  PROVE  RequestOK(c)'
<1>1. CASE request'[c] = Nothing
  BY <1>1 DEF RequestOK, Nothing
<1>2. CASE request'[c] = request[c] /\ request[c] # Nothing
  <2>1. RequestOK(c) /\ request[c] \in Request
    BY <1>2 DEF ApplicationInv, TypeOK
  <2>2. request[c].kind \in {"apply", "classify"} => request[c].job \in Jobs
    BY <2>1, RequestParts
  <2> QED
    BY <1>2, <2>1, <2>2 DEF RequestOK, Finished
<1> QED
  BY <1>1, <1>2

(* A step that leaves the jobs alone.                                      *)
LEMMA RowsChange ==
  ASSUME ApplicationInv, TypeOK', RowsAdvance, UNCHANGED job,
         \A c \in Clients : request'[c] = request[c] \/ request'[c] = Nothing \/ RequestOK(c)'
  PROVE  ApplicationInv'
<1>1. \A j \in Jobs : JobOK(j)'
  BY JobStaysOK
<1>2. \A c \in Clients : RequestOK(c)'
  BY RequestStaysOK DEF ApplicationInv, Finished
<1> QED
  BY <1>1, <1>2 DEF ApplicationInv

LEMMA RowsStand == ASSUME UNCHANGED <<question, note>> PROVE RowsAdvance
  BY DEF RowsAdvance, Advanced
-----------------------------------------------------------------------------
(* The PRD, the board, and requests coming and going.                      *)

LEMMA PrdStepKeeps ==
  ASSUME ApplicationInv, CompleteOrReopen \/ TrashOrRestore \/ SwitchBoard
  PROVE  ApplicationInv'
<1>1. TypeOK
  BY DEF ApplicationInv
<1>2. prd' \in [completed : BOOLEAN, deleted : BOOLEAN] /\ latest' \in BOOLEAN
  BY <1>1 DEF TypeOK, CompleteOrReopen, TrashOrRestore, SwitchBoard
<1>3. UNCHANGED <<question, note, job, request>>
  BY DEF CompleteOrReopen, TrashOrRestore, SwitchBoard
<1>4. TypeOK'
  BY <1>1, <1>2, <1>3 DEF TypeOK
<1> QED
  BY <1>3, <1>4, RowsStand, RowsChange

LEMMA ChangeNoteKeeps ==
  ASSUME ApplicationInv, NEW n \in Notes, ChangeNote(n)
  PROVE  ApplicationInv'
<1>1. TypeOK
  BY DEF ApplicationInv
<1>2. PICK row \in NoteRow : row.version = note[n].version + 1 /\ note' = [note EXCEPT ![n] = row]
  BY DEF ChangeNote
<1>3. TypeOK'
  BY <1>1, <1>2 DEF TypeOK, ChangeNote
<1>4. RowsAdvance
  BY <1>1, <1>2 DEF RowsAdvance, Advanced, ChangeNote, TypeOK
<1> QED
  BY <1>3, <1>4, RowsChange DEF ChangeNote

LEMMA AdmitKeeps ==
  ASSUME ApplicationInv, NEW c \in Clients, NEW r \in Request, Admit(c, r),
         r.kind \in {"apply", "classify"} => Finished(r.job),
         r.kind = "classify" => r.selected \subseteq DOMAIN job[r.job].advice
  PROVE  ApplicationInv'
<1>1. TypeOK
  BY DEF ApplicationInv
<1>2. TypeOK' /\ UNCHANGED <<question, note, job>>
  BY <1>1 DEF TypeOK, Admit
<1>3. request'[c] = r /\ \A d \in Clients \ {c} : request'[d] = request[d]
  BY <1>1 DEF TypeOK, Admit
<1>4. RequestOK(c)'
  BY <1>2, <1>3 DEF RequestOK, Finished
<1> QED
  BY <1>2, <1>3, <1>4, RowsStand, RowsChange

LEMMA SendKeeps ==
  ASSUME ApplicationInv, NEW c \in Clients,
         \/ \E q \in Questions : SendAnswer(c, q) \/ SendHold(c, q)
         \/ \E j \in Jobs : SendApplication(c, j) \/ SendClassification(c, j)
  PROVE  ApplicationInv'
<1>1. TypeOK
  BY DEF ApplicationInv
<1>2. \A q \in Questions : question[q].version \in Versions
  BY <1>1 DEF TypeOK, QuestionRow
<1>3. ASSUME NEW q \in Questions, SendAnswer(c, q)
      PROVE  ApplicationInv'
  <2>1. PICK content \in Texts \cup {Blank} :
          Admit(c, [kind |-> "answer", of |-> q, version |-> question[q].version,
                    content |-> content])
    BY <1>3 DEF SendAnswer
  <2> DEFINE r == [kind |-> "answer", of |-> q, version |-> question[q].version,
                   content |-> content]
  <2>2. r \in Request /\ r.kind = "answer"
    BY <1>2 DEF Request
  <2> QED
    BY <2>1, <2>2, AdmitKeeps
<1>4. ASSUME NEW q \in Questions, SendHold(c, q)
      PROVE  ApplicationInv'
  <2>1. PICK held \in BOOLEAN :
          Admit(c, [kind |-> "hold", of |-> q, version |-> question[q].version, held |-> held])
    BY <1>4 DEF SendHold
  <2> DEFINE r == [kind |-> "hold", of |-> q, version |-> question[q].version, held |-> held]
  <2>2. r \in Request /\ r.kind = "hold"
    BY <1>2 DEF Request
  <2> QED
    BY <2>1, <2>2, AdmitKeeps
<1>5. ASSUME NEW j \in Jobs, SendApplication(c, j)
      PROVE  ApplicationInv'
  <2>1. PICK part \in SUBSET DOMAIN job[j].seen :
          Admit(c, [kind |-> "apply", job |-> j,
                    approved |-> [q \in part |-> question[q].version]])
    BY <1>5 DEF SendApplication
  <2> DEFINE approved == [q \in part |-> question[q].version]
             r == [kind |-> "apply", job |-> j, approved |-> approved]
  <2>2. Finished(j) /\ part \subseteq Questions
    BY <1>1, <1>5, JobParts DEF SendApplication, Finished
  <2>3. approved \in [part -> Versions]
    BY <1>2, <2>2
  <2>4. approved \in Some(Questions, Versions)
    BY <2>2, <2>3, SomeMeans
  <2> HIDE DEF approved
  <2>5. r \in Request /\ r.kind = "apply" /\ r.job = j
    BY <2>4 DEF Request
  <2>6. Admit(c, r)
    BY <2>1 DEF approved
  <2> QED
    BY <2>2, <2>5, <2>6, AdmitKeeps
<1>6. ASSUME NEW j \in Jobs, SendClassification(c, j)
      PROVE  ApplicationInv'
  <2>1. PICK part \in SUBSET DOMAIN job[j].advice :
          Admit(c, [kind |-> "classify", job |-> j, selected |-> part])
    BY <1>6 DEF SendClassification
  <2> DEFINE r == [kind |-> "classify", job |-> j, selected |-> part]
  <2>2. Finished(j) /\ part \subseteq Notes
    BY <1>1, <1>6, JobParts DEF SendClassification, Finished
  <2>3. r \in Request /\ r.kind = "classify" /\ r.job = j /\ r.selected = part
    BY <2>2 DEF Request
  <2> QED
    BY <2>1, <2>2, <2>3, AdmitKeeps
<1> QED
  BY <1>3, <1>4, <1>5, <1>6

LEMMA ClosedIsTyped ==
  ASSUME TypeOK, NEW c \in Clients, Closed(c)
  PROVE  /\ request' \in [Clients -> {Nothing} \cup Request]
         /\ request'[c] = Nothing
         /\ \A d \in Clients \ {c} : request'[d] = request[d]
  BY DEF TypeOK, Closed

LEMMA GiveUpKeeps ==
  ASSUME ApplicationInv, NEW c \in Clients, GiveUp(c)
  PROVE  ApplicationInv'
<1>1. TypeOK
  BY DEF ApplicationInv
<1>2. TypeOK'
  BY <1>1, ClosedIsTyped DEF TypeOK, GiveUp
<1> QED
  BY <1>1, <1>2, ClosedIsTyped, RowsStand, RowsChange DEF GiveUp
-----------------------------------------------------------------------------
(* Saves and holds.                                                        *)

LEMMA QuestionWritten ==
  ASSUME ApplicationInv, NEW c \in Clients, Closed(c), NEW q \in Questions,
         NEW row \in QuestionRow(Contents), Advanced(question[q], row),
         question' = [question EXCEPT ![q] = row],
         UNCHANGED <<prd, note, latest, job>>
  PROVE  ApplicationInv'
<1>1. TypeOK
  BY DEF ApplicationInv
<1>2. TypeOK'
  BY <1>1, ClosedIsTyped DEF TypeOK
<1>3. RowsAdvance
  BY <1>1 DEF RowsAdvance, Advanced, TypeOK
<1> QED
  BY <1>1, <1>2, <1>3, ClosedIsTyped, RowsChange

LEMMA SaveAnswerKeeps ==
  ASSUME ApplicationInv, NEW c \in Clients, SaveAnswer(c)
  PROVE  ApplicationInv'
<1> DEFINE r == request[c]
<1>1. TypeOK
  BY DEF ApplicationInv
<1>2. r \in Request /\ r.kind = "answer"
  BY <1>1 DEF TypeOK, SaveAnswer, Nothing
<1>3. r.of \in Questions /\ r.content \in Contents
  BY <1>2, RequestParts DEF Contents
<1>4. question[r.of] \in QuestionRow(Contents) /\ Changeable(question[r.of])
  BY <1>1, <1>3 DEF TypeOK, SaveAnswer
<1>5. Answered(question[r.of], r.content) \in QuestionRow(Contents)
        /\ Advanced(question[r.of], Answered(question[r.of], r.content))
  BY <1>3, <1>4, WrittenRows
<1>6. question' = [question EXCEPT ![r.of] = Answered(question[r.of], r.content)]
        /\ Closed(c) /\ UNCHANGED <<prd, note, latest, job>>
  BY DEF SaveAnswer
<1> QED
  BY <1>3, <1>5, <1>6, QuestionWritten

LEMMA SetHoldKeeps ==
  ASSUME ApplicationInv, NEW c \in Clients, SetHold(c)
  PROVE  ApplicationInv'
<1> DEFINE r == request[c]
<1>1. TypeOK
  BY DEF ApplicationInv
<1>2. r \in Request /\ r.kind = "hold"
  BY <1>1 DEF TypeOK, SetHold, Nothing
<1>3. r.of \in Questions /\ r.held \in BOOLEAN
  BY <1>2, RequestParts
<1>4. question[r.of] \in QuestionRow(Contents) /\ Changeable(question[r.of])
  BY <1>1, <1>3 DEF TypeOK, SetHold
<1>5. HeldAs(question[r.of], r.held) \in QuestionRow(Contents)
        /\ Advanced(question[r.of], HeldAs(question[r.of], r.held))
  BY <1>3, <1>4, WrittenRows DEF Contents
<1>6. question' = [question EXCEPT ![r.of] = HeldAs(question[r.of], r.held)]
        /\ Closed(c) /\ UNCHANGED <<prd, note, latest, job>>
  BY DEF SetHold
<1> QED
  BY <1>3, <1>5, <1>6, QuestionWritten
-----------------------------------------------------------------------------
(* Jobs: asked for, answered, declined.                                    *)

LEMMA RestrictMeans ==
  ASSUME NEW f, NEW P
  PROVE  DOMAIN Restrict(f, P) = P /\ \A x \in P : Restrict(f, P)[x] = f[x]
  BY DEF Restrict

LEMMA RestrictIsSome ==
  ASSUME NEW S, NEW T, NEW f \in [S -> T], NEW P, P \subseteq S
  PROVE  Restrict(f, P) \in Some(S, T)
<1>1. Restrict(f, P) \in [P -> T]
  BY DEF Restrict
<1> QED
  BY <1>1, SomeMeans

LEMMA JobWritten ==
  ASSUME ApplicationInv, NEW j \in Jobs, NEW row \in JobRow,
         job' = [job EXCEPT ![j] = row], JobOK(j)',
         Finished(j) => row.status = "succeeded" /\ row.advice = job[j].advice,
         UNCHANGED <<prd, question, note, latest, request>>
  PROVE  ApplicationInv'
<1>1. TypeOK
  BY DEF ApplicationInv
<1>2. job'[j] = row /\ \A i \in Jobs \ {j} : job'[i] = job[i]
  BY <1>1 DEF TypeOK
<1>3. TypeOK'
  BY <1>1 DEF TypeOK
<1>4. \A i \in Jobs \ {j} : JobOK(i)'
  BY <1>2, RowsStand, JobStaysOK
<1>5. \A i \in Jobs : Finished(i) =>
        job'[i] # Nothing /\ job'[i].status = "succeeded" /\ job'[i].advice = job[i].advice
  BY <1>2, RowsAreSomething DEF Finished
<1>6. \A c \in Clients : RequestOK(c)'
  BY <1>1, <1>5, RequestStaysOK
<1> QED
  BY <1>3, <1>4, <1>6 DEF ApplicationInv

LEMMA AskKeeps ==
  ASSUME ApplicationInv, NEW j \in Jobs, NEW kind \in JobKinds,
         NEW Q, Q \subseteq Questions, NEW N, N \subseteq Notes,
         kind \in {"draft", "chat", "whole"} => N = {},
         Ask(j, kind, Q, N)
  PROVE  ApplicationInv'
<1> DEFINE seen == Restrict(question, Q)
           notes == Restrict(note, N)
           row == NewJob(kind, seen, notes)
<1>1. TypeOK
  BY DEF ApplicationInv
<1>2. seen \in Some(Questions, QuestionRow(Contents)) /\ notes \in Some(Notes, NoteRow)
  BY <1>1, RestrictIsSome DEF TypeOK
<1>3. <<>> \in Some(Notes, Sections) /\ DOMAIN <<>> = {}
  BY NothingIsSome
<1>4. Unused \in [Questions \cup Notes -> 0..2] /\ \A x \in Questions \cup Notes : Unused[x] = 0
  BY DEF Unused
<1>5. DOMAIN seen = Q /\ DOMAIN notes = N
        /\ (\A q \in Q : seen[q] = question[q]) /\ (\A n \in N : notes[n] = note[n])
  BY RestrictMeans
<1> HIDE DEF seen, notes
<1>6. /\ row \in JobRow /\ row.kind = kind /\ row.status = "running"
      /\ row.seen = seen /\ row.notes = notes /\ row.advice = <<>> /\ row.used = Unused
  BY <1>2, <1>3, <1>4 DEF NewJob, JobRow
<1>7. job' = [job EXCEPT ![j] = row] /\ job[j] = Nothing
        /\ UNCHANGED <<prd, question, note, latest, request>>
  BY DEF Ask, seen, notes
<1> HIDE DEF row
<1>8. job'[j] = row
  BY <1>1, <1>7 DEF TypeOK
<1>9. SourcesAreOld(j)'
  <2>1. \A q \in Q : question[q].version \in Nat
    BY <1>1, RowVersions DEF TypeOK
  <2>2. \A n \in N : note[n].version \in Nat
    BY <1>1, RowVersions DEF TypeOK
  <2> QED
    BY <1>5, <1>6, <1>7, <1>8, <2>1, <2>2 DEF SourcesAreOld, Old
<1>10. UseIsRecorded(j)'
  BY <1>4, <1>6, <1>8 DEF UseIsRecorded
<1>11. JobOK(j)'
  BY <1>3, <1>5, <1>6, <1>8, <1>9, <1>10 DEF JobOK
<1> QED
  BY <1>6, <1>7, <1>11, JobWritten DEF Finished

LEMMA RequestsForResultsKeep ==
  ASSUME ApplicationInv, NEW j \in Jobs,
         \/ \E q \in Questions : RequestDraft(j, q)
         \/ RequestChat(j) \/ RequestWholeDraft(j)
         \/ RequestPreview(j) \/ RequestClassification(j)
  PROVE  ApplicationInv'
<1>1. ASSUME NEW q \in Questions, RequestDraft(j, q)
      PROVE  ApplicationInv'
  BY <1>1, AskKeeps DEF RequestDraft, JobKinds
<1>2. CASE RequestChat(j)
  BY <1>2, AskKeeps DEF RequestChat, JobKinds
<1>3. CASE RequestWholeDraft(j)
  BY <1>3, AskKeeps DEF RequestWholeDraft, JobKinds, Active
<1>4. CASE RequestPreview(j)
  <2>1. PICK scope \in {Sections} \cup {{s} : s \in Sections} :
          Ask(j, "preview", {q \in Active : SectionOf[q] \in scope}, Filed(scope))
    BY <1>4 DEF RequestPreview
  <2>2. {q \in Active : SectionOf[q] \in scope} \subseteq Questions /\ Filed(scope) \subseteq Notes
    BY DEF Active, Filed
  <2> QED
    BY <2>1, <2>2, AskKeeps DEF JobKinds
<1>5. CASE RequestClassification(j)
  <2>1. Unclassified \subseteq Notes
    BY DEF Unclassified
  <2> QED
    BY <1>5, <2>1, AskKeeps DEF RequestClassification, JobKinds
<1> QED
  BY <1>1, <1>2, <1>3, <1>4, <1>5

LEMMA StoreKeeps ==
  ASSUME ApplicationInv, NEW j \in Jobs, NEW kinds,
         NEW seen \in Some(Questions, QuestionRow(Contents)), NEW advice \in Some(Notes, Sections),
         Store(j, kinds, seen, advice),
         \A q \in DOMAIN seen : Old(seen[q], question[q]),
         DOMAIN advice \subseteq DOMAIN job[j].notes
  PROVE  ApplicationInv'
<1> DEFINE row == [job[j] EXCEPT !.status = "succeeded", !.seen = seen, !.advice = advice]
<1>1. TypeOK /\ JobOK(j) /\ job[j] # Nothing /\ job[j].status = "running"
  BY DEF ApplicationInv, Store
<1>2. job[j] \in JobRow
  BY <1>1, JobParts
<1>3. /\ row \in JobRow /\ row.status = "succeeded" /\ row.kind = job[j].kind
      /\ row.seen = seen /\ row.notes = job[j].notes /\ row.advice = advice
      /\ row.used = job[j].used /\ row.decided = job[j].decided
  BY <1>2 DEF JobRow
<1>4. job' = [job EXCEPT ![j] = row] /\ UNCHANGED <<prd, question, note, latest, request>>
  BY <1>1 DEF Store, TypeOK
<1> HIDE DEF row
<1>5. job'[j] = row
  BY <1>1, <1>4 DEF TypeOK
<1>6. SourcesAreOld(j)'
  BY <1>1, <1>3, <1>4, <1>5 DEF SourcesAreOld, JobOK
<1>7. UseIsRecorded(j)'
  <2>1. \A x \in Questions \cup Notes : job[j].used[x] <= 1 /\ job[j].used[x] # 1
    BY <1>1 DEF JobOK, UseIsRecorded
  <2> QED
    BY <1>3, <1>5, <2>1 DEF UseIsRecorded
<1>8. JobOK(j)'
  BY <1>1, <1>3, <1>5, <1>6, <1>7 DEF JobOK
<1> QED
  BY <1>1, <1>3, <1>4, <1>8, JobWritten DEF Finished

LEMMA ResultsKeep ==
  ASSUME ApplicationInv, NEW j \in Jobs, StoreTexts(j) \/ StoreProposal(j) \/ StoreAdvice(j)
  PROVE  ApplicationInv'
<1>1. TypeOK /\ JobOK(j) /\ job[j] # Nothing
  BY DEF ApplicationInv, StoreTexts, StoreProposal, StoreAdvice, Store
<1>2. <<>> \in Some(Notes, Sections) /\ DOMAIN <<>> = {}
        /\ <<>> \in Some(Questions, QuestionRow(Contents))
  BY NothingIsSome
<1>3. CASE StoreTexts(j)
  <2>1. job[j].seen \in Some(Questions, QuestionRow(Contents))
    BY <1>1, JobParts DEF JobRow
  <2>2. \A q \in DOMAIN job[j].seen : Old(job[j].seen[q], question[q])
    BY <1>1 DEF JobOK, SourcesAreOld
  <2> QED
    BY <1>2, <1>3, <2>1, <2>2, StoreKeeps DEF StoreTexts
<1>4. CASE StoreProposal(j)
  <2>1. PICK about \in SUBSET Active : Store(j, {"chat"}, Restrict(question, about), <<>>)
    BY <1>4 DEF StoreProposal
  <2>2. about \subseteq Questions
    BY DEF Active
  <2>3. Restrict(question, about) \in Some(Questions, QuestionRow(Contents))
    BY <1>1, <2>2, RestrictIsSome DEF TypeOK
  <2>4. \A q \in DOMAIN Restrict(question, about) :
          Old(Restrict(question, about)[q], question[q])
    <3>1. \A q \in about : question[q].version \in Nat
      BY <1>1, <2>2, RowVersions DEF TypeOK
    <3> QED
      BY <3>1, RestrictMeans DEF Old
  <2> QED
    BY <1>2, <2>1, <2>3, <2>4, StoreKeeps
<1>5. CASE StoreAdvice(j)
  <2>1. PICK advice \in Some(DOMAIN job[j].notes, Sections) :
          Store(j, {"classification"}, <<>>, advice)
    BY <1>5 DEF StoreAdvice
  <2>2. advice \in [DOMAIN advice -> Sections] /\ DOMAIN advice \subseteq DOMAIN job[j].notes
    BY SomeMeans
  <2>3. advice \in Some(Notes, Sections)
    BY <1>1, <2>2, JobParts, SomeMeans
  <2> QED
    BY <1>2, <2>1, <2>2, <2>3, StoreKeeps
<1> QED
  BY <1>3, <1>4, <1>5

(* The job after a decision.                                               *)
LEMMA DecidedMeans ==
  ASSUME ApplicationInv, NEW j \in Jobs, job[j] # Nothing,
         NEW decision \in {"applied", "declined"}, NEW rows,
         job' = Decided(j, decision, rows), \A x \in rows : job[j].used[x] = 0
  PROVE  /\ job' = [job EXCEPT ![j] = job'[j]]
         /\ job'[j] \in JobRow
         /\ job'[j].seen = job[j].seen /\ job'[j].notes = job[j].notes
         /\ job'[j].advice = job[j].advice /\ job'[j].kind = job[j].kind
         /\ job'[j].status = job[j].status /\ job'[j].decided = decision
         /\ \A x \in Questions \cup Notes :
              job'[j].used[x] = IF x \in rows THEN 1 ELSE job[j].used[x]
<1> DEFINE used == [x \in Questions \cup Notes |->
                      IF x \in rows THEN job[j].used[x] + 1 ELSE job[j].used[x]]
           row == [job[j] EXCEPT !.decided = decision, !.used = used]
<1>1. TypeOK /\ JobOK(j)
  BY DEF ApplicationInv
<1>2. job[j] \in JobRow /\ job[j].used \in [Questions \cup Notes -> 0..2]
  BY <1>1, JobParts
<1>3. used \in [Questions \cup Notes -> 0..2]
        /\ \A x \in Questions \cup Notes : used[x] = IF x \in rows THEN 1 ELSE job[j].used[x]
  BY <1>2
<1>4. job' = [job EXCEPT ![j] = row]
  BY <1>1, <1>2 DEF Decided, TypeOK
<1> HIDE DEF used
<1>5. /\ row \in JobRow /\ row.status = job[j].status /\ row.kind = job[j].kind
      /\ row.seen = job[j].seen /\ row.notes = job[j].notes /\ row.advice = job[j].advice
      /\ row.used = used /\ row.decided = decision
  BY <1>2, <1>3 DEF JobRow
<1> HIDE DEF row
<1>6. job'[j] = row
  BY <1>1, <1>4 DEF TypeOK
<1> QED
  BY <1>3, <1>4, <1>5, <1>6

LEMMA DeclineKeeps ==
  ASSUME ApplicationInv, NEW j \in Jobs, DeclineProposal(j)
  PROVE  ApplicationInv'
<1>1. TypeOK /\ JobOK(j) /\ job[j] # Nothing /\ job[j].decided # "applied"
  BY DEF ApplicationInv, DeclineProposal, Finished
<1>2. /\ job' = [job EXCEPT ![j] = job'[j]] /\ job'[j] \in JobRow
      /\ job'[j].seen = job[j].seen /\ job'[j].notes = job[j].notes
      /\ job'[j].advice = job[j].advice /\ job'[j].kind = job[j].kind
      /\ job'[j].status = job[j].status
      /\ \A x \in Questions \cup Notes : job'[j].used[x] = job[j].used[x]
  BY <1>1, DecidedMeans DEF DeclineProposal
<1>3. UNCHANGED <<prd, question, note, latest, request>>
  BY DEF DeclineProposal
<1>4. SourcesAreOld(j)'
  BY <1>1, <1>2, <1>3, RowsStand, SourcesStayOld
<1>5. UseIsRecorded(j)'
  BY <1>1, <1>2 DEF UseIsRecorded, JobOK
<1>6. JobOK(j)'
  BY <1>1, <1>2, <1>4, <1>5 DEF JobOK
<1>7. Finished(j) => job'[j].status = "succeeded"
  BY <1>2 DEF Finished
<1> QED
  BY <1>2, <1>3, <1>6, <1>7, JobWritten
-----------------------------------------------------------------------------
(* Results are applied.                                                    *)

(* What was used moves on and was not used before.                         *)
LEMMA UseKeeps ==
  ASSUME ApplicationInv, NEW c \in Clients, Closed(c), NEW j \in Jobs, Finished(j),
         NEW rows, job' = Decided(j, "applied", rows),
         question' \in [Questions -> QuestionRow(Contents)], note' \in [Notes -> NoteRow],
         RowsAdvance, UNCHANGED <<prd, latest>>,
         \A x \in rows : job[j].used[x] = 0,
         \A q \in Questions : q \in rows =>
            q \in DOMAIN job[j].seen /\ job[j].seen[q].version < question'[q].version
  PROVE  ApplicationInv'
<1>1. TypeOK /\ JobOK(j) /\ job[j] # Nothing /\ job[j].status = "succeeded"
  BY DEF ApplicationInv, Finished
<1>2. /\ job' = [job EXCEPT ![j] = job'[j]] /\ job'[j] \in JobRow
      /\ job'[j].seen = job[j].seen /\ job'[j].notes = job[j].notes
      /\ job'[j].advice = job[j].advice /\ job'[j].kind = job[j].kind
      /\ job'[j].status = job[j].status /\ job'[j].decided = "applied"
      /\ \A x \in Questions \cup Notes :
           job'[j].used[x] = IF x \in rows THEN 1 ELSE job[j].used[x]
  BY <1>1, DecidedMeans
<1>3. \A i \in Jobs \ {j} : job'[i] = job[i]
  BY <1>1, <1>2 DEF TypeOK
<1>4. TypeOK'
  <2>1. job' \in [Jobs -> {Nothing} \cup JobRow]
    BY <1>1, <1>2 DEF TypeOK
  <2> QED
    BY <1>1, <2>1, ClosedIsTyped DEF TypeOK
<1>5. SourcesAreOld(j)'
  BY <1>1, <1>2, SourcesStayOld
<1>6. ASSUME NEW q \in Questions, job'[j].used[q] = 1
      PROVE  q \in DOMAIN job[j].seen /\ job[j].seen[q].version < question'[q].version
  <2>1. CASE q \in rows
    BY <2>1
  <2>2. CASE q \notin rows
    <3>1. q \in DOMAIN job[j].seen /\ job[j].seen[q].version < question[q].version
            /\ Old(job[j].seen[q], question[q])
      BY <1>1, <1>2, <1>6, <2>2 DEF JobOK, UseIsRecorded, SourcesAreOld
    <3>2. job[j].seen[q].version \in Nat /\ question[q].version \in Nat
      BY <1>1, <3>1, JobParts, RowVersions DEF TypeOK
    <3> QED
      BY <3>1, <3>2, OldStaysOld DEF RowsAdvance
  <2> QED
    BY <2>1, <2>2
<1>7. \A x \in Questions \cup Notes : job'[j].used[x] <= 1
  BY <1>1, <1>2 DEF JobOK, UseIsRecorded
<1>8. UseIsRecorded(j)'
  BY <1>1, <1>2, <1>6, <1>7 DEF UseIsRecorded
<1>9. JobOK(j)'
  BY <1>1, <1>2, <1>5, <1>8 DEF JobOK
<1>10. \A i \in Jobs : JobOK(i)'
  BY <1>3, <1>9, JobStaysOK
<1>11. \A i \in Jobs : Finished(i) =>
         job'[i] # Nothing /\ job'[i].status = "succeeded" /\ job'[i].advice = job[i].advice
  BY <1>1, <1>2, <1>3, RowsAreSomething DEF Finished
<1>12. \A d \in Clients : RequestOK(d)'
  BY <1>1, <1>11, ClosedIsTyped, RequestStaysOK
<1> QED
  BY <1>4, <1>10, <1>12 DEF ApplicationInv

(* A request to apply texts, under its locks.                              *)
LEMMA ApplicationParts ==
  ASSUME ApplicationInv, NEW c \in Clients, request[c].kind = "apply"
  PROVE  /\ request[c].job \in Jobs
         /\ Finished(request[c].job)
         /\ DOMAIN request[c].approved \subseteq Questions
<1>1. request[c] \in Request /\ RequestOK(c)
  BY DEF ApplicationInv, TypeOK, Nothing
<1>2. request[c].approved \in Some(Questions, Versions)
  BY <1>1, RequestParts
<1> QED
  BY <1>1, <1>2, RequestParts, SomeMeans DEF RequestOK

(* Approved questions are as they were read and were not used before.      *)
LEMMA ApprovedAreAsSeen ==
  ASSUME ApplicationInv, NEW j \in Jobs, job[j] # Nothing,
         NEW approved, DOMAIN approved \subseteq Questions, AsGenerated(j, approved),
         NEW q \in DOMAIN approved
  PROVE  /\ q \in DOMAIN job[j].seen
         /\ question[q] = job[j].seen[q]
         /\ job[j].used[q] = 0
         /\ Changeable(question[q])
<1>1. TypeOK /\ JobOK(j) /\ q \in Questions
  BY DEF ApplicationInv
<1>2. q \in DOMAIN job[j].seen /\ question[q].version = job[j].seen[q].version
        /\ Changeable(question[q])
  BY DEF AsGenerated, Writable
<1>3. question[q] = job[j].seen[q]
  BY <1>1, <1>2 DEF JobOK, SourcesAreOld, Old
<1>4. job[j].seen[q].version \in Nat /\ job[j].used[q] \in 0..2
  BY <1>1, <1>2, JobParts, RowVersions
<1>5. job[j].used[q] # 1 /\ job[j].used[q] <= 1
  BY <1>1, <1>2, <1>4 DEF JobOK, UseIsRecorded
<1> QED
  BY <1>2, <1>3, <1>4, <1>5

LEMMA TextsKeep ==
  ASSUME ApplicationInv, NEW c \in Clients, request[c].kind = "apply",
         AsGenerated(request[c].job, request[c].approved),
         question' = [q \in Questions |-> question'[q]],
         \A q \in Questions \ DOMAIN request[c].approved : question'[q] = question[q],
         \A q \in DOMAIN request[c].approved :
            question'[q] \in {Drafted(question[q], request[c].job),
                              Integrated(question[q], request[c].job)},
         job' = Decided(request[c].job, "applied", DOMAIN request[c].approved),
         Closed(c), UNCHANGED <<prd, note, latest>>
  PROVE  ApplicationInv'
<1> DEFINE j == request[c].job
           approved == request[c].approved
<1>1. TypeOK /\ j \in Jobs /\ Finished(j) /\ job[j] # Nothing /\ DOMAIN approved \subseteq Questions
        /\ j \in Contents
  BY ApplicationParts DEF ApplicationInv, Finished, Contents
<1>2. ASSUME NEW q \in DOMAIN approved
      PROVE  /\ q \in Questions /\ q \in DOMAIN job[j].seen /\ job[j].used[q] = 0
             /\ question'[q] \in QuestionRow(Contents) /\ Advanced(question[q], question'[q])
             /\ job[j].seen[q].version < question'[q].version
  <2>1. /\ q \in Questions /\ q \in DOMAIN job[j].seen /\ question[q] = job[j].seen[q]
        /\ job[j].used[q] = 0 /\ Changeable(question[q])
    BY <1>1, ApprovedAreAsSeen
  <2>2. question[q] \in QuestionRow(Contents) /\ question[q].version \in Nat
    BY <1>1, <2>1, RowVersions DEF TypeOK
  <2>3. /\ Drafted(question[q], j) \in QuestionRow(Contents)
        /\ Integrated(question[q], j) \in QuestionRow(Contents)
        /\ Advanced(question[q], Drafted(question[q], j))
        /\ Advanced(question[q], Integrated(question[q], j))
    BY <1>1, <2>1, <2>2, WrittenRows
  <2>4. question'[q] \in {Drafted(question[q], j), Integrated(question[q], j)}
    OBVIOUS
  <2>5. question'[q].version = question[q].version + 1
    BY <2>2, <2>4 DEF Drafted, Integrated, QuestionRow
  <2>6. question'[q] \in QuestionRow(Contents) /\ Advanced(question[q], question'[q])
    <3> HIDE DEF j, approved
    <3> QED
      BY <2>3, <2>4
  <2>7. job[j].seen[q].version < question'[q].version
    <3> HIDE DEF j, approved
    <3>1. job[j].seen[q].version = question[q].version
      BY <2>1
    <3> QED
      BY <2>2, <2>5, <3>1
  <2> QED
    BY <2>1, <2>6, <2>7
<1>3. question' \in [Questions -> QuestionRow(Contents)]
  BY <1>1, <1>2 DEF TypeOK
<1>4. RowsAdvance
  BY <1>2 DEF RowsAdvance, Advanced
<1>5. note' \in [Notes -> NoteRow]
  BY <1>1 DEF TypeOK
<1> QED
  BY <1>1, <1>2, <1>3, <1>4, <1>5, UseKeeps

LEMMA ApplyTextsKeeps ==
  ASSUME ApplicationInv, NEW c \in Clients, NEW kind, ApplyTexts(c, kind)
  PROVE  ApplicationInv'
<1>1. question' = [q \in Questions |-> IF q \in DOMAIN request[c].approved
                                       THEN Drafted(question[q], request[c].job) ELSE question[q]]
  BY DEF ApplyTexts
<1>2. DOMAIN request[c].approved \subseteq Questions
  BY ApplicationParts DEF ApplyTexts
<1>3. \A q \in DOMAIN request[c].approved : question'[q] = Drafted(question[q], request[c].job)
  BY <1>1, <1>2
<1> QED
  BY <1>1, <1>3, TextsKeep DEF ApplyTexts

LEMMA ApplyPreviewKeeps ==
  ASSUME ApplicationInv, NEW c \in Clients, ApplyPreview(c)
  PROVE  ApplicationInv'
<1>1. question' = [q \in Questions |-> IF q \in DOMAIN request[c].approved
                                       THEN Integrated(question[q], request[c].job) ELSE question[q]]
  BY DEF ApplyPreview
<1>2. DOMAIN request[c].approved \subseteq Questions
  BY ApplicationParts DEF ApplyPreview
<1>3. \A q \in DOMAIN request[c].approved : question'[q] = Integrated(question[q], request[c].job)
  BY <1>1, <1>2
<1> QED
  BY <1>1, <1>3, TextsKeep DEF ApplyPreview, AsPreviewed

LEMMA ClassificationParts ==
  ASSUME ApplicationInv, NEW c \in Clients, ApplyClassification(c)
  PROVE  LET j == request[c].job
             selected == request[c].selected
         IN  /\ j \in Jobs /\ Finished(j) /\ selected \subseteq Notes
             /\ \A x \in Questions \cup Notes : job[j].used[x] = 0
             /\ \A n \in selected : /\ job[j].advice[n] \in Sections
                                    /\ note[n] = job[j].notes[n]
                                    /\ note[n].version + 1 \in Versions
<1> DEFINE j == request[c].job
           selected == request[c].selected
<1>1. TypeOK /\ request[c] \in Request /\ RequestOK(c) /\ request[c].kind = "classify"
  BY DEF ApplicationInv, TypeOK, Nothing, ApplyClassification
<1>2. j \in Jobs /\ Finished(j) /\ selected \subseteq Notes /\ selected \subseteq DOMAIN job[j].advice
        /\ job[j] # Nothing
  BY <1>1, RequestParts DEF RequestOK, Finished
<1>3. JobOK(j)
  BY <1>2 DEF ApplicationInv
<1>4. \A x \in Questions \cup Notes : job[j].used[x] = 0
  <2>1. \A x \in Questions \cup Notes : job[j].used[x] \in 0..2 /\ job[j].used[x] # 1
          /\ job[j].used[x] <= 1
    BY <1>1, <1>2, <1>3, JobParts DEF JobOK, UseIsRecorded, ApplyClassification
  <2> QED
    BY <2>1
<1>5. ASSUME NEW n \in selected
      PROVE  /\ job[j].advice[n] \in Sections
             /\ note[n] = job[j].notes[n]
             /\ note[n].version + 1 \in Versions
  <2>1. n \in Notes /\ n \in DOMAIN job[j].notes /\ job[j].advice[n] \in Sections
    BY <1>1, <1>2, <1>3, JobParts DEF JobOK
  <2>2. note[n].version = job[j].notes[n].version /\ note[n].version < MaxVersion
    BY DEF ApplyClassification, AsAnalysed
  <2>3. note[n].version \in Versions
    BY <1>1, <2>1 DEF TypeOK, NoteRow
  <2>4. note[n].version + 1 \in Versions
    BY <2>2, <2>3, VersionAssumption DEF Versions
  <2>5. note[n] = job[j].notes[n]
    BY <1>2, <1>3, <2>1, <2>2 DEF JobOK, SourcesAreOld, Old
  <2> QED
    BY <2>1, <2>4, <2>5
<1> QED
  BY <1>2, <1>4, <1>5

LEMMA ApplyClassificationKeeps ==
  ASSUME ApplicationInv, NEW c \in Clients, ApplyClassification(c)
  PROVE  ApplicationInv'
<1> DEFINE j == request[c].job
           selected == request[c].selected
<1>1. TypeOK /\ j \in Jobs /\ Finished(j) /\ selected \subseteq Notes
        /\ \A x \in Questions \cup Notes : job[j].used[x] = 0
  BY ClassificationParts DEF ApplicationInv
<1>2. note' = [n \in Notes |-> IF n \in selected
                               THEN Classified(note[n], job[j].advice[n]) ELSE note[n]]
  BY DEF ApplyClassification
<1>3. ASSUME NEW n \in selected
      PROVE  /\ Classified(note[n], job[j].advice[n]) \in NoteRow
             /\ Classified(note[n], job[j].advice[n]).version = note[n].version + 1
  <2>1. note[n] \in NoteRow /\ job[j].advice[n] \in Sections /\ note[n].version + 1 \in Versions
    BY <1>1, ClassificationParts DEF TypeOK
  <2> QED
    BY <2>1 DEF Classified, NoteRow
<1>4. note' \in [Notes -> NoteRow]
  BY <1>1, <1>2, <1>3 DEF TypeOK
<1>5. RowsAdvance
  BY <1>1, <1>2, <1>3 DEF RowsAdvance, Advanced, ApplyClassification
<1>6. \A q \in Questions : q \notin selected
  BY <1>1, RowAssumption
<1>7. question' \in [Questions -> QuestionRow(Contents)]
  BY <1>1 DEF TypeOK, ApplyClassification
<1>8. job' = Decided(j, "applied", selected) /\ Closed(c) /\ UNCHANGED <<prd, latest>>
  BY DEF ApplyClassification
<1> QED
  BY <1>1, <1>4, <1>5, <1>6, <1>7, <1>8, UseKeeps
-----------------------------------------------------------------------------
(* The invariant holds.                                                    *)

LEMMA InvariantAtFirst == Init => ApplicationInv
<1> SUFFICES ASSUME Init PROVE ApplicationInv
  OBVIOUS
<1>1. NewQuestion \in QuestionRow(Contents)
  BY VersionAssumption DEF NewQuestion, QuestionRow, Contents, Versions
<1>2. note \in [Notes -> NoteRow]
  <2> DEFINE First == [version : {1}, deleted : {FALSE}, place : Sections \cup {NoSection}]
  <2>1. note \in [Notes -> First]
    BY DEF Init
  <2>2. 1 \in Versions
    BY VersionAssumption DEF Versions
  <2>3. \A row \in First : row \in NoteRow
    BY <2>2 DEF NoteRow
  <2> HIDE DEF First
  <2> QED
    BY <2>1, <2>3
<1>3. TypeOK
  BY <1>1, <1>2 DEF Init, TypeOK
<1>4. \A j \in Jobs : JobOK(j)
  BY DEF Init, JobOK
<1>5. \A c \in Clients : RequestOK(c)
  BY DEF Init, RequestOK, Nothing
<1> QED
  BY <1>3, <1>4, <1>5 DEF ApplicationInv

LEMMA InvariantIsKept == ApplicationInv /\ [Next]_vars => ApplicationInv'
<1> SUFFICES ASSUME ApplicationInv, [Next]_vars
             PROVE  ApplicationInv'
  OBVIOUS
<1>1. CASE UNCHANGED vars
  <2>1. TypeOK'
    BY <1>1 DEF vars, ApplicationInv, TypeOK
  <2> QED
    BY <1>1, <2>1, RowsStand, RowsChange DEF vars
<1>2. CASE CompleteOrReopen \/ TrashOrRestore \/ SwitchBoard
  BY <1>2, PrdStepKeeps
<1>3. ASSUME NEW n \in Notes, ChangeNote(n)
      PROVE  ApplicationInv'
  BY <1>3, ChangeNoteKeeps
<1>4. ASSUME NEW j \in Jobs,
             \/ \E q \in Questions : RequestDraft(j, q)
             \/ RequestChat(j) \/ RequestWholeDraft(j)
             \/ RequestPreview(j) \/ RequestClassification(j)
      PROVE  ApplicationInv'
  BY <1>4, RequestsForResultsKeep
<1>5. ASSUME NEW j \in Jobs,
             StoreTexts(j) \/ StoreProposal(j) \/ StoreAdvice(j) \/ DeclineProposal(j)
      PROVE  ApplicationInv'
  BY <1>5, ResultsKeep, DeclineKeeps
<1>6. ASSUME NEW c \in Clients,
             \/ \E q \in Questions : SendAnswer(c, q) \/ SendHold(c, q)
             \/ \E j \in Jobs : SendApplication(c, j) \/ SendClassification(c, j)
      PROVE  ApplicationInv'
  BY <1>6, SendKeeps
<1>7. ASSUME NEW c \in Clients,
             \/ SaveAnswer(c) \/ SetHold(c)
             \/ ApplyDraft(c) \/ ApplyProposal(c) \/ ApplyWholeDraft(c)
             \/ ApplyPreview(c) \/ ApplyClassification(c) \/ GiveUp(c)
      PROVE  ApplicationInv'
  BY <1>7, SaveAnswerKeeps, SetHoldKeeps, ApplyTextsKeeps, ApplyPreviewKeeps,
     ApplyClassificationKeeps, GiveUpKeeps
  DEF ApplyDraft, ApplyProposal, ApplyWholeDraft
<1> QED
  BY <1>1, <1>2, <1>3, <1>4, <1>5, <1>6, <1>7 DEF Next

LEMMA InvariantHolds == Spec => []ApplicationInv
  BY InvariantAtFirst, InvariantIsKept, PTL DEF Spec
-----------------------------------------------------------------------------
(* The theorems.                                                           *)

(* Every reachable state is well typed.                                    *)
THEOREM ApplicationTypes == Spec => []TypeOK
<1>1. ApplicationInv => TypeOK
  BY DEF ApplicationInv
<1> QED
  BY <1>1, InvariantHolds, PTL

(* A result goes into a question or a note at most once, and never without *)
(* a trace of it in the job (coaching.py:374, prd_apply.py:316,            *)
(* ai/brainstorm.py), however often it is sent and whoever else writes.    *)
THEOREM ResultsAreUsedOnce == Spec => []UsedAtMostOnce
<1>1. ApplicationInv => UsedAtMostOnce
  BY DEF ApplicationInv, JobOK, UseIsRecorded, UsedAtMostOnce
<1> QED
  BY <1>1, InvariantHolds, PTL

(* Only the three applications use a result, and each what was approved.   *)
LEMMA OnlyApplicationsUse ==
  ASSUME ApplicationInv, [Next]_vars, NEW j \in Jobs, NEW x \in Questions \cup Notes, Using(j, x)
  PROVE  \E c \in Clients :
           /\ j = request[c].job
           /\ \/ \E kind \in {"draft", "chat", "whole"} :
                   ApplyTexts(c, kind) /\ x \in DOMAIN request[c].approved
              \/ ApplyPreview(c) /\ x \in DOMAIN request[c].approved
              \/ ApplyClassification(c) /\ x \in request[c].selected
<1>1. TypeOK /\ job[j] # Nothing /\ job'[j].used[x] > job[j].used[x]
        /\ job[j] \in JobRow /\ job[j].used \in [Questions \cup Notes -> 0..2]
  BY JobParts DEF ApplicationInv, Using
<1>2. job'[j] # job[j] /\ job' # job /\ ~(job'[j].used[x] = job[j].used[x])
  BY <1>1
<1>3. ~(UNCHANGED vars) /\ ~CompleteOrReopen /\ ~TrashOrRestore /\ ~SwitchBoard
  BY <1>2 DEF vars, CompleteOrReopen, TrashOrRestore, SwitchBoard
<1>4. \A n \in Notes : ~ChangeNote(n)
  BY <1>2 DEF ChangeNote
<1>5. ASSUME NEW i \in Jobs,
             \/ \E q \in Questions : RequestDraft(i, q)
             \/ RequestChat(i) \/ RequestWholeDraft(i)
             \/ RequestPreview(i) \/ RequestClassification(i)
      PROVE  FALSE
  <2>1. job[i] = Nothing /\ \E row : job' = [job EXCEPT ![i] = row]
    BY <1>5 DEF RequestDraft, RequestChat, RequestWholeDraft, RequestPreview,
                RequestClassification, Ask
  <2> QED
    BY <1>1, <1>2, <2>1 DEF TypeOK
<1>6. ASSUME NEW i \in Jobs, StoreTexts(i) \/ StoreProposal(i) \/ StoreAdvice(i)
      PROVE  FALSE
  <2>1. \E seen, advice : job' = [job EXCEPT ![i].status = "succeeded", ![i].seen = seen,
                                             ![i].advice = advice]
    BY <1>6 DEF StoreTexts, StoreProposal, StoreAdvice, Store
  <2>2. PICK seen, advice : job' = [job EXCEPT ![i].status = "succeeded", ![i].seen = seen,
                                              ![i].advice = advice]
    BY <2>1
  <2>3. CASE i = j
    <3>1. job'[j] = [job[j] EXCEPT !.status = "succeeded", !.seen = seen, !.advice = advice]
      BY <1>1, <2>2, <2>3 DEF TypeOK
    <3>2. job'[j].used = job[j].used
      BY <1>1, <3>1 DEF JobRow
    <3> QED
      BY <1>2, <3>2
  <2>4. CASE i # j
    BY <1>1, <1>2, <2>2, <2>4 DEF TypeOK
  <2> QED
    BY <2>3, <2>4
<1>7. ASSUME NEW i \in Jobs, DeclineProposal(i)
      PROVE  FALSE
  <2>1. job[i] # Nothing /\ job' = Decided(i, "declined", {})
    BY <1>7 DEF DeclineProposal, Finished
  <2>2. \A y \in Questions \cup Notes : job'[i].used[y] = job[i].used[y]
    BY <2>1, DecidedMeans
  <2>3. i # j => job'[j] = job[j]
    BY <1>1, <2>1 DEF Decided, TypeOK
  <2> QED
    BY <1>2, <2>2, <2>3
<1>8. ASSUME NEW c \in Clients,
             \/ \E q \in Questions : SendAnswer(c, q) \/ SendHold(c, q)
             \/ \E i \in Jobs : SendApplication(c, i) \/ SendClassification(c, i)
             \/ SaveAnswer(c) \/ SetHold(c) \/ GiveUp(c)
      PROVE  FALSE
  BY <1>2, <1>8 DEF SendAnswer, SendHold, SendApplication, SendClassification, Admit,
                    SaveAnswer, SetHold, GiveUp
<1>9. ASSUME NEW i \in Jobs, NEW rows, job' = Decided(i, "applied", rows)
      PROVE  i = j /\ x \in rows
  <2>1. i = j
    BY <1>1, <1>2, <1>9 DEF Decided, TypeOK
  <2>2. job'[j].used = [y \in DOMAIN job[j].used |->
                          IF y \in rows THEN job[j].used[y] + 1 ELSE job[j].used[y]]
    BY <1>1, <1>9, <2>1 DEF Decided, TypeOK, JobRow
  <2>3. x \notin rows => job'[j].used[x] = job[j].used[x]
    BY <1>1, <2>2
  <2> QED
    BY <1>2, <2>1, <2>3
<1>10. ASSUME NEW c \in Clients, NEW kind, ApplyTexts(c, kind)
       PROVE  j = request[c].job /\ x \in DOMAIN request[c].approved
  BY <1>9, <1>10, ApplicationParts DEF ApplyTexts
<1>11. ASSUME NEW c \in Clients, ApplyPreview(c)
       PROVE  j = request[c].job /\ x \in DOMAIN request[c].approved
  BY <1>9, <1>11, ApplicationParts DEF ApplyPreview
<1>12. ASSUME NEW c \in Clients, ApplyClassification(c)
       PROVE  j = request[c].job /\ x \in request[c].selected
  <2>1. request[c].job \in Jobs
    BY <1>12, ClassificationParts
  <2> QED
    BY <1>9, <1>12, <2>1 DEF ApplyClassification
<1> QED
  BY <1>3, <1>4, <1>5, <1>6, <1>7, <1>8, <1>10, <1>11, <1>12
  DEF Next, ApplyDraft, ApplyProposal, ApplyWholeDraft

LEMMA StepAppliesAsSeen ==
  ASSUME ApplicationInv, [Next]_vars, NEW j \in Jobs
  PROVE  /\ \A q \in Questions : Using(j, q) =>
              /\ question[q] = job[j].seen[q]
              /\ \A n \in DOMAIN job[j].notes : note[n] = job[j].notes[n]
         /\ \A n \in Notes : Using(j, n) => note[n] = job[j].notes[n]
<1>1. ASSUME NEW x \in Questions \cup Notes, Using(j, x), NEW c \in Clients,
             j = request[c].job, NEW kind \in {"draft", "chat", "whole"},
             ApplyTexts(c, kind), x \in DOMAIN request[c].approved
      PROVE  /\ x \in Questions /\ question[x] = job[j].seen[x]
             /\ \A n \in DOMAIN job[j].notes : note[n] = job[j].notes[n]
  <2>1. DOMAIN request[c].approved \subseteq Questions /\ job[j] # Nothing /\ JobOK(j)
    BY <1>1, ApplicationParts DEF ApplyTexts, ApplicationInv, Finished
  <2>2. x \in Questions /\ question[x] = job[j].seen[x]
    BY <1>1, <2>1, ApprovedAreAsSeen DEF ApplyTexts
  <2>3. DOMAIN job[j].notes = {}
    BY <1>1, <2>1 DEF ApplyTexts, JobOK
  <2> QED
    BY <2>2, <2>3
<1>2. ASSUME NEW x \in Questions \cup Notes, Using(j, x), NEW c \in Clients,
             j = request[c].job, ApplyPreview(c), x \in DOMAIN request[c].approved
      PROVE  /\ x \in Questions /\ question[x] = job[j].seen[x]
             /\ \A n \in DOMAIN job[j].notes : note[n] = job[j].notes[n]
  <2>1. DOMAIN request[c].approved \subseteq Questions /\ job[j] # Nothing /\ JobOK(j)
          /\ AsGenerated(j, request[c].approved)
    BY <1>2, ApplicationParts DEF ApplyPreview, AsPreviewed, ApplicationInv, Finished
  <2>2. x \in Questions /\ question[x] = job[j].seen[x]
    BY <1>2, <2>1, ApprovedAreAsSeen
  <2>3. \A n \in DOMAIN job[j].notes : note[n].version = job[j].notes[n].version
    BY <1>2 DEF ApplyPreview, AsPreviewed
  <2>4. \A n \in DOMAIN job[j].notes : note[n] = job[j].notes[n]
    BY <2>1, <2>3 DEF JobOK, SourcesAreOld, Old
  <2> QED
    BY <2>2, <2>4
<1>3. ASSUME NEW x \in Questions \cup Notes, Using(j, x), NEW c \in Clients,
             j = request[c].job, ApplyClassification(c), x \in request[c].selected
      PROVE  x \in Notes /\ note[x] = job[j].notes[x]
  BY <1>3, ClassificationParts
<1>4. ASSUME NEW q \in Questions, Using(j, q)
      PROVE  /\ question[q] = job[j].seen[q]
             /\ \A n \in DOMAIN job[j].notes : note[n] = job[j].notes[n]
  BY <1>1, <1>2, <1>3, <1>4, OnlyApplicationsUse, RowAssumption
<1>5. ASSUME NEW n \in Notes, Using(j, n)
      PROVE  note[n] = job[j].notes[n]
  BY <1>1, <1>2, <1>3, <1>5, OnlyApplicationsUse, RowAssumption
<1> QED
  BY <1>4, <1>5

(* An AI result replaces nothing but what it was made from: the question   *)
(* with its answer, and all the notes, are as the result saw them, although*)
(* only their versions are compared (coaching.py:393, prd_apply.py:400).   *)
THEOREM ResultsReplaceWhatTheySaw == Spec => AppliedAsSeen
<1>1. ApplicationInv /\ [Next]_vars
        => [\A j \in Jobs :
              /\ \A q \in Questions : Using(j, q) =>
                   /\ question[q] = job[j].seen[q]
                   /\ \A n \in DOMAIN job[j].notes : note[n] = job[j].notes[n]
              /\ \A n \in Notes : Using(j, n) => note[n] = job[j].notes[n]]_vars
  BY StepAppliesAsSeen
<1> QED
  BY <1>1, InvariantHolds, PTL DEF Spec, AppliedAsSeen

LEMMA TextsAreUses ==
  ASSUME ApplicationInv, NEW c \in Clients, request[c].kind = "apply",
         AsGenerated(request[c].job, request[c].approved),
         job' = Decided(request[c].job, "applied", DOMAIN request[c].approved),
         NEW q \in DOMAIN request[c].approved
  PROVE  \E j \in Jobs, x \in Questions : Using(j, x)
<1> DEFINE j == request[c].job
<1>1. j \in Jobs /\ job[j] # Nothing /\ DOMAIN request[c].approved \subseteq Questions
  BY ApplicationParts DEF Finished
<1>2. \A x \in DOMAIN request[c].approved : job[j].used[x] = 0
  BY <1>1, ApprovedAreAsSeen
<1>3. job'[j].used[q] = 1
  <2> DEFINE rows == DOMAIN request[c].approved
  <2>1. /\ job[j] # Nothing /\ j \in Jobs /\ job' = Decided(j, "applied", rows)
        /\ \A x \in rows : job[j].used[x] = 0
        /\ q \in rows /\ q \in Questions \cup Notes
    BY <1>1, <1>2
  <2> HIDE DEF rows, j
  <2>2. "applied" \in {"applied", "declined"}
    OBVIOUS
  <2>3. \A x \in Questions \cup Notes :
          job'[j].used[x] = IF x \in rows THEN 1 ELSE job[j].used[x]
    BY <2>1, <2>2, DecidedMeans
  <2> QED
    BY <2>1, <2>3
<1> QED
  BY <1>1, <1>2, <1>3 DEF Using

LEMMA StepStopsPeople ==
  ASSUME ApplicationInv, [Next]_vars, ~Open, question' # question
  PROVE  \E j \in Jobs, q \in Questions : Using(j, q)
<1>1. TypeOK
  BY DEF ApplicationInv
<1>2. ~(UNCHANGED vars) /\ ~CompleteOrReopen /\ ~TrashOrRestore /\ ~SwitchBoard
        /\ \A n \in Notes : ~ChangeNote(n)
  BY DEF vars, CompleteOrReopen, TrashOrRestore, SwitchBoard, ChangeNote
<1>3. ASSUME NEW j \in Jobs,
             \/ \E q \in Questions : RequestDraft(j, q)
             \/ RequestChat(j) \/ RequestWholeDraft(j)
             \/ RequestPreview(j) \/ RequestClassification(j)
             \/ StoreTexts(j) \/ StoreProposal(j) \/ StoreAdvice(j) \/ DeclineProposal(j)
      PROVE  FALSE
  BY <1>3 DEF RequestDraft, RequestChat, RequestWholeDraft, RequestPreview,
              RequestClassification, Ask, StoreTexts, StoreProposal, StoreAdvice, Store,
              DeclineProposal
<1>4. ASSUME NEW c \in Clients,
             \/ \E q \in Questions : SendAnswer(c, q) \/ SendHold(c, q)
             \/ \E j \in Jobs : SendApplication(c, j) \/ SendClassification(c, j)
             \/ SaveAnswer(c) \/ SetHold(c) \/ ApplyClassification(c) \/ GiveUp(c)
      PROVE  FALSE
  BY <1>4 DEF SendAnswer, SendHold, SendApplication, SendClassification, Admit,
              SaveAnswer, SetHold, ApplyClassification, GiveUp
<1>5. ASSUME NEW c \in Clients, NEW kind, ApplyTexts(c, kind)
      PROVE  \E j \in Jobs, q \in Questions : Using(j, q)
  <2>1. CASE DOMAIN request[c].approved = {}
    <3>1. question' = [q \in Questions |-> question[q]]
      BY <1>5, <2>1 DEF ApplyTexts
    <3> QED
      BY <1>1, <3>1 DEF TypeOK
  <2>2. CASE DOMAIN request[c].approved # {}
    BY <1>5, <2>2, TextsAreUses DEF ApplyTexts
  <2> QED
    BY <2>1, <2>2
<1>6. ASSUME NEW c \in Clients, ApplyPreview(c)
      PROVE  \E j \in Jobs, q \in Questions : Using(j, q)
  <2>1. CASE DOMAIN request[c].approved = {}
    <3>1. question' = [q \in Questions |-> question[q]]
      BY <1>6, <2>1 DEF ApplyPreview
    <3> QED
      BY <1>1, <3>1 DEF TypeOK
  <2>2. CASE DOMAIN request[c].approved # {}
    BY <1>6, <2>2, TextsAreUses DEF ApplyPreview, AsPreviewed
  <2> QED
    BY <2>1, <2>2
<1> QED
  BY <1>2, <1>3, <1>4, <1>5, <1>6 DEF Next, ApplyDraft, ApplyProposal, ApplyWholeDraft

(* No save and no hold reaches a PRD that is completed or in the trash,    *)
(* whenever it was admitted (detail_views.py, question_answer): whatever   *)
(* changes an answer then is a result of the AI.                           *)
THEOREM CompletionStopsPeople == Spec => PeopleStopAtCompletion
<1>1. ApplicationInv /\ [Next]_vars
        => [~Open /\ question' # question => \E j \in Jobs, q \in Questions : Using(j, q)]_vars
  BY StepStopsPeople
<1> QED
  BY <1>1, InvariantHolds, PTL DEF Spec, PeopleStopAtCompletion
=============================================================================
