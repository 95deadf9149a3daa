-------------------------- MODULE EvaluationProofs --------------------------
(***************************************************************************)
(* What is proved of the AI's evaluations and of the requests for them.    *)
(*                                                                         *)
(* ContributionEvaluation, for any number of completions, attempts and     *)
(* retries: its types, that every answer becomes one numbered evaluation,  *)
(* that scores are final, and that a completed PRD shows its newest        *)
(* evaluation.                                                             *)
(*                                                                         *)
(* AiRequests, for any tabs, keys, boards, personas and limits: its types, *)
(* and that what is asked for is filed once, in order and about one text.  *)
(***************************************************************************)
EXTENDS ContributionEvaluation, AiRequests, FiniteSetTheorems, SequenceTheorems,
        WellFoundedInduction, TLAPS
-----------------------------------------------------------------------------
(***************************************************************************)
(* Contributions.                                                          *)
(***************************************************************************)
Existing == {c \in Completions : Exists(c)}

(* What step of its scheduler, what retry and what job an evaluation may   *)
(* have, given its status.                                                 *)
EvaluationOK(c) ==
    /\ scheduler[c] \in {"none", "started", "snapshot"} => ~Exists(c)
    /\ scheduler[c] \in {"created", "enqueued"} => Exists(c)
    /\ scheduler[c] \in {"created", "enqueued", "failing"} /\ Exists(c)
         => evaluation[c].status = "pending"
    /\ evaluation[c].linked => Exists(c) /\ scheduler[c] \in {"done", "dead"}
    /\ saw[c] # "nothing" =>
         /\ Exists(c)
         /\ scheduler[c] \in {"failing", "done", "dead"}
         /\ scheduler[c] # "failing" => evaluation[c].status = "failed"
    /\ job[c] = "delivered" => Exists(c) /\ evaluation[c].status = "succeeded"
    /\ Exists(c) /\ evaluation[c].status = "succeeded"
         => job[c] = "delivered" \/ (~evaluation[c].comments /\ ~evaluation[c].linked)

(* Schedulers run for completions there have been, and for none of a PRD   *)
(* that is gone.                                                           *)
SchedulersAreTimely ==
    /\ \A c \in Completions : c > cycle => scheduler[c] = "none"
    /\ phase = "gone" => \A c \in Completions :
         scheduler[c] \in {"none", "done", "dead"} /\ ~Exists(c)

(* The inductive invariant.                                                *)
ContributionInv ==
    /\ TypeOK
    /\ \A c \in Completions : EvaluationOK(c)
    /\ SchedulersAreTimely
    /\ VersionsAreConsecutive
-----------------------------------------------------------------------------
(* Numbers.                                                                *)

LEMMA ExistingIsFinite ==
  /\ IsFiniteSet(Completions) /\ Cardinality(Completions) = MaxCompletions
  /\ IsFiniteSet(Existing) /\ Cardinality(Existing) \in 0..MaxCompletions
  /\ Cardinality(Existing) = MaxCompletions => Existing = Completions
<1>1. IsFiniteSet(Completions) /\ Cardinality(Completions) = MaxCompletions
  BY FS_Interval, CompletionsAssumption DEF Completions
<1>2. Existing \in SUBSET Completions
  BY DEF Existing
<1>3. /\ IsFiniteSet(Existing)
      /\ Cardinality(Existing) <= Cardinality(Completions)
      /\ Cardinality(Completions) = Cardinality(Existing) => Completions = Existing
  BY <1>1, <1>2, FS_Subset
<1>4. Cardinality(Existing) \in Nat
  BY <1>3, FS_CardinalityType
<1> QED
  BY <1>1, <1>3, <1>4, CompletionsAssumption

LEMMA ConsecutiveMeans ==
  VersionsAreConsecutive <=>
    {evaluation[c].version : c \in Existing} = 1..Cardinality(Existing)
  BY DEF VersionsAreConsecutive, Existing

(* With one evaluation to come the newest number is their number.          *)
LEMMA NextVersionIsFree ==
  ASSUME TypeOK, VersionsAreConsecutive, NEW c \in Completions, ~Exists(c)
  PROVE  NextVersion = Cardinality(Existing) + 1 /\ NextVersion \in Completions
<1> DEFINE n == Cardinality(Existing)
<1>1. n \in 0..MaxCompletions /\ n # MaxCompletions
  BY ExistingIsFinite DEF Existing
<1>2. evaluation[c].version = 0
  BY CompletionsAssumption DEF TypeOK, Evaluation, Exists, Completions
<1>3. \A d \in Completions : evaluation[d].version \in 0..n
  <2>1. ASSUME NEW d \in Completions
        PROVE  evaluation[d].version \in 0..n
    <3>1. CASE Exists(d)
      <4>1. evaluation[d].version \in {evaluation[e].version : e \in Existing}
        BY <2>1, <3>1 DEF Existing
      <4>2. evaluation[d].version \in 1..n
        BY <4>1, ConsecutiveMeans
      <4> QED
        BY <1>1, <4>2, CompletionsAssumption
    <3>2. CASE ~Exists(d)
      <4>1. evaluation[d].version = 0
        BY <2>1, <3>2, CompletionsAssumption DEF TypeOK, Evaluation, Exists, Completions
      <4> QED
        BY <1>1, <4>1, CompletionsAssumption
    <3> QED
      BY <3>1, <3>2
  <2> QED
    BY <2>1
<1>4. n \in Versions
  <2>1. CASE n = 0
    BY <1>2, <2>1 DEF Versions
  <2>2. CASE n # 0
    <3>1. n \in 1..n
      BY <1>1, <2>2
    <3>2. n \in {evaluation[d].version : d \in Existing}
      BY <3>1, ConsecutiveMeans
    <3> QED
      BY <3>2 DEF Versions, Existing
  <2> QED
    BY <2>1, <2>2
<1>5. \A x \in Versions : x \in 0..n
  BY <1>3 DEF Versions
<1>6. Max(Versions) = n
  <2>1. \A y \in Versions : n >= y
    BY <1>1, <1>5
  <2>2. \A x \in Versions : (\A y \in Versions : x >= y) => x = n
    BY <1>1, <1>4, <1>5
  <2> QED
    BY <1>4, <2>1, <2>2 DEF Max
<1> QED
  BY <1>1, <1>6, CompletionsAssumption DEF NextVersion, Completions

LEMMA NumberOneMore ==
  ASSUME TypeOK, VersionsAreConsecutive, NEW c \in Completions, ~Exists(c),
         evaluation'[c].version = NextVersion,
         \A d \in Completions \ {c} : evaluation'[d].version = evaluation[d].version
  PROVE  VersionsAreConsecutive'
<1> DEFINE n == Cardinality(Existing)
<1>1. NextVersion = n + 1 /\ n \in Nat
  BY NextVersionIsFree, ExistingIsFinite, CompletionsAssumption
<1>2. Existing' = Existing \cup {c}
  BY <1>1 DEF Existing, Exists
<1>3. c \notin Existing
  BY DEF Existing
<1>4. Cardinality(Existing \cup {c}) = n + 1
  BY <1>3, ExistingIsFinite, FS_AddElement
<1>5. {evaluation[d].version : d \in Existing} = 1..n
  BY ConsecutiveMeans
<1>6. {evaluation'[d].version : d \in Existing \cup {c}}
        = {evaluation[d].version : d \in Existing} \cup {n + 1}
  BY <1>1, <1>3 DEF Existing
<1>7. {evaluation'[d].version : d \in Existing'} = 1..(n + 1)
  <2>1. {evaluation'[d].version : d \in Existing'}
          = {evaluation'[d].version : d \in Existing \cup {c}}
    BY <1>2
  <2>2. 1..(n + 1) = (1..n) \cup {n + 1}
    BY <1>1
  <2> QED
    BY <1>5, <1>6, <2>1, <2>2
<1> QED
  BY <1>2, <1>4, <1>7 DEF VersionsAreConsecutive, Existing

LEMMA NumbersStay ==
  ASSUME VersionsAreConsecutive,
         \A d \in Completions : evaluation'[d].version = evaluation[d].version
  PROVE  VersionsAreConsecutive'
<1>1. Existing' = Existing
  BY DEF Existing, Exists
<1>2. {evaluation'[d].version : d \in Existing} = {evaluation[d].version : d \in Existing}
  BY DEF Existing
<1> QED
  BY <1>1, <1>2 DEF VersionsAreConsecutive, Existing
-----------------------------------------------------------------------------
(* A step of one completion.                                               *)

(* What step c of the scheduler, worker or user leaves alone.              *)
OnlyOf(c) ==
    /\ UNCHANGED prdVars
    /\ \A d \in Completions \ {c} :
         /\ evaluation'[d] = evaluation[d]
         /\ scheduler'[d] = scheduler[d]
         /\ saw'[d] = saw[d]
         /\ job'[d] = job[d]

(* Then the invariant is kept if it is kept for c.                         *)
LEMMA OneAtATime ==
  ASSUME ContributionInv, NEW c \in Completions, OnlyOf(c), TypeOK',
         EvaluationOK(c)', VersionsAreConsecutive',
         scheduler[c] = "none" => scheduler'[c] = "none",
         phase = "gone" => scheduler'[c] \in {"none", "done", "dead"} /\ ~Exists(c)'
  PROVE  ContributionInv'
<1>1. ASSUME NEW d \in Completions
      PROVE  EvaluationOK(d)'
  <2>1. CASE d = c
    BY <2>1
  <2>2. CASE d # c
    <3>1. EvaluationOK(d)
      BY DEF ContributionInv
    <3> QED
      BY <2>2, <3>1 DEF OnlyOf, EvaluationOK, Exists
  <2> QED
    BY <2>1, <2>2
<1>2. SchedulersAreTimely'
  BY DEF ContributionInv, SchedulersAreTimely, OnlyOf, prdVars, Exists
<1> QED
  BY <1>1, <1>2 DEF ContributionInv

(* A step that creates no evaluation keeps the numbers.                    *)
LEMMA WithoutNewNumber ==
  ASSUME ContributionInv, NEW c \in Completions, OnlyOf(c), TypeOK',
         EvaluationOK(c)', evaluation'[c].version = evaluation[c].version,
         scheduler[c] = "none" => scheduler'[c] = "none",
         phase = "gone" => scheduler'[c] \in {"none", "done", "dead"}
  PROVE  ContributionInv'
<1>1. VersionsAreConsecutive'
  BY NumbersStay DEF ContributionInv, OnlyOf
<1>2. phase = "gone" => ~Exists(c)'
  BY DEF ContributionInv, SchedulersAreTimely, Exists
<1> QED
  BY <1>1, <1>2, OneAtATime

LEMMA NoEvaluationIsTyped == NoEvaluation \in Evaluation /\ NoEvaluation.version = 0
  BY DEF NoEvaluation, Evaluation

(* Writing fields of an existing row.                                      *)
LEMMA StatusIsTyped ==
  ASSUME TypeOK, NEW c \in Completions, NEW s \in {"pending", "succeeded", "failed"}, Set(c, s)
  PROVE  /\ evaluation' \in [Completions -> Evaluation]
         /\ evaluation'[c] = [evaluation[c] EXCEPT !.status = s]
         /\ \A d \in Completions \ {c} : evaluation'[d] = evaluation[d]
<1>1. [evaluation[c] EXCEPT !.status = s] \in Evaluation
  BY DEF TypeOK, Evaluation
<1> QED
  BY <1>1 DEF Set, TypeOK

LEMMA SyncIsTyped ==
  ASSUME TypeOK, NEW c, NEW s \in {"pending", "succeeded", "failed"},
         Sync(c, s) \/ SyncLate(c, s)
  PROVE  contribution' \in Contributions
  BY DEF Sync, SyncLate, TypeOK, Contributions

LEMMA ReadIsTyped ==
  ASSUME TypeOK, NEW c \in Completions, Read(c)
  PROVE  /\ saw' \in [Completions -> {"nothing", "current", "outdated"}]
         /\ saw'[c] = IF Latest(c) /\ phase = "completed" THEN "current" ELSE "outdated"
         /\ \A d \in Completions \ {c} : saw'[d] = saw[d]
  BY DEF TypeOK, Read
-----------------------------------------------------------------------------
(* The scheduler.                                                          *)

LEMMA SnapshotKeeps ==
  ASSUME ContributionInv, NEW c \in Completions, TakeSnapshot(c)
  PROVE  ContributionInv'
<1>1. PICK comments \in BOOLEAN :
        evaluation' = [evaluation EXCEPT ![c].comments = comments, ![c].snapshot = TRUE]
  BY DEF TakeSnapshot
<1>2. evaluation[c] \in Evaluation
  BY DEF ContributionInv, TypeOK
<1>3. evaluation'[c] = [evaluation[c] EXCEPT !.comments = comments, !.snapshot = TRUE]
  BY <1>1 DEF ContributionInv, TypeOK
<1>4. [evaluation[c] EXCEPT !.comments = comments, !.snapshot = TRUE] \in Evaluation
  BY <1>2 DEF Evaluation
<1>5. evaluation' = [evaluation EXCEPT ![c] =
                       [evaluation[c] EXCEPT !.comments = comments, !.snapshot = TRUE]]
  BY <1>1 DEF ContributionInv, TypeOK
<1>6. evaluation' \in [Completions -> Evaluation]
  BY <1>4, <1>5 DEF ContributionInv, TypeOK
<1>7. TypeOK'
  BY <1>6 DEF ContributionInv, TypeOK, TakeSnapshot, Goto, Steps, prdVars, jobVars
<1>8. OnlyOf(c)
  BY <1>5 DEF OnlyOf, TakeSnapshot, Goto, prdVars, jobVars, ContributionInv, TypeOK
<1>9. evaluation'[c].version = evaluation[c].version
  BY <1>2, <1>3 DEF Evaluation
<1>10. EvaluationOK(c)'
  BY <1>2, <1>3, <1>9
  DEF EvaluationOK, Exists, TakeSnapshot, At, Goto, jobVars, ContributionInv, TypeOK, Evaluation
<1> QED
  BY <1>7, <1>8, <1>9, <1>10, WithoutNewNumber DEF TakeSnapshot, At

(* A new row: created by a scheduler, or by the failure of one.            *)
LEMMA NewRowKeeps ==
  ASSUME ContributionInv, NEW c \in Completions, ~Exists(c), OnlyOf(c), phase # "gone",
         NEW row \in Evaluation, row.version = NextVersion,
         evaluation' = [evaluation EXCEPT ![c] = row], TypeOK',
         scheduler[c] # "none", EvaluationOK(c)'
  PROVE  ContributionInv'
<1>1. evaluation'[c].version = NextVersion
  BY DEF ContributionInv, TypeOK
<1>2. VersionsAreConsecutive'
  BY <1>1, NumberOneMore DEF ContributionInv, OnlyOf
<1> QED
  BY <1>2, OneAtATime

LEMMA CreateKeeps ==
  ASSUME ContributionInv, NEW c \in Completions, CreateEvaluation(c)
  PROVE  ContributionInv'
<1> DEFINE row == [evaluation[c] EXCEPT !.version = NextVersion, !.status = "pending"]
<1>1. EvaluationOK(c) /\ ~Exists(c) /\ TypeOK /\ scheduler[c] = "snapshot" /\ phase # "gone"
  BY DEF ContributionInv, SchedulersAreTimely, EvaluationOK, CreateEvaluation, At
<1>2. NextVersion \in Completions
  BY <1>1, NextVersionIsFree DEF ContributionInv
<1>3. evaluation[c] \in Evaluation
  BY DEF ContributionInv, TypeOK
<1>4. row \in Evaluation /\ row.version = NextVersion /\ row.status = "pending"
        /\ row.linked = evaluation[c].linked
  BY <1>2, <1>3 DEF Evaluation
<1>5. evaluation' = [evaluation EXCEPT ![c] = row]
  BY <1>1 DEF CreateEvaluation, TypeOK
<1>6. TypeOK'
  BY <1>1, <1>4, <1>5 DEF TypeOK, CreateEvaluation, Goto, Steps, Contributions, prdVars, jobVars
<1>7. OnlyOf(c)
  BY <1>1, <1>5 DEF OnlyOf, CreateEvaluation, Goto, prdVars, jobVars, TypeOK
<1>8. evaluation'[c] = row /\ scheduler'[c] = "created" /\ saw'[c] = saw[c] /\ job'[c] = job[c]
  BY <1>1, <1>5 DEF CreateEvaluation, Goto, jobVars, TypeOK
<1>9. NextVersion > 0
  BY <1>2, CompletionsAssumption DEF Completions
<1>10. EvaluationOK(c)'
  BY <1>1, <1>4, <1>8, <1>9 DEF EvaluationOK, Exists
<1> QED
  BY <1>1, <1>4, <1>5, <1>6, <1>7, <1>10, NewRowKeeps

LEMMA StoreKeeps ==
  ASSUME ContributionInv, NEW c \in Completions, StoreWithoutAi(c)
  PROVE  ContributionInv'
<1>1. TypeOK /\ EvaluationOK(c) /\ Exists(c) /\ scheduler[c] = "created" /\ evaluation[c] \in Evaluation
  BY DEF ContributionInv, EvaluationOK, StoreWithoutAi, At, TypeOK
<1>2. /\ evaluation' \in [Completions -> Evaluation]
      /\ evaluation'[c] = [evaluation[c] EXCEPT !.status = "succeeded"]
      /\ \A d \in Completions \ {c} : evaluation'[d] = evaluation[d]
  BY <1>1, StatusIsTyped DEF StoreWithoutAi
<1>3. contribution' \in Contributions
  BY <1>1, SyncIsTyped DEF StoreWithoutAi
<1>4. TypeOK'
  BY <1>1, <1>2, <1>3 DEF TypeOK, StoreWithoutAi, Goto, Steps, prdVars, jobVars
<1>5. OnlyOf(c) /\ scheduler'[c] = "done" /\ saw'[c] = saw[c] /\ job'[c] = job[c]
  BY <1>1, <1>2 DEF OnlyOf, StoreWithoutAi, Goto, prdVars, jobVars, TypeOK
<1>6. evaluation'[c].version = evaluation[c].version /\ evaluation'[c].status = "succeeded"
        /\ evaluation'[c].linked = evaluation[c].linked
        /\ evaluation'[c].comments = evaluation[c].comments
  BY <1>1, <1>2 DEF Evaluation
<1>7. EvaluationOK(c)'
  BY <1>1, <1>5, <1>6 DEF EvaluationOK, Exists, StoreWithoutAi
<1> QED
  BY <1>1, <1>4, <1>5, <1>6, <1>7, WithoutNewNumber

LEMMA EnqueueKeeps ==
  ASSUME ContributionInv, NEW c \in Completions, EnqueueJob(c)
  PROVE  ContributionInv'
<1>1. TypeOK /\ EvaluationOK(c) /\ scheduler[c] = "created" /\ phase # "gone"
  BY DEF ContributionInv, EnqueueJob, At, SchedulersAreTimely
<1>2. TypeOK'
  BY <1>1, LimitAssumption
  DEF TypeOK, EnqueueJob, Goto, Steps, prdVars, Ai!Submit
<1>3. OnlyOf(c) /\ scheduler'[c] = "enqueued" /\ job'[c] = "pending" /\ UNCHANGED <<evaluation, saw>>
  BY <1>1 DEF OnlyOf, EnqueueJob, Goto, prdVars, TypeOK, Ai!Submit
<1>4. EvaluationOK(c)'
  BY <1>1, <1>3 DEF EvaluationOK, Exists
<1> QED
  BY <1>1, <1>2, <1>3, <1>4, WithoutNewNumber

LEMMA LinkKeeps ==
  ASSUME ContributionInv, NEW c \in Completions, LinkJob(c)
  PROVE  ContributionInv'
<1>1. TypeOK /\ EvaluationOK(c) /\ scheduler[c] = "enqueued" /\ evaluation[c] \in Evaluation
  BY DEF ContributionInv, LinkJob, At, TypeOK
<1>2. [evaluation[c] EXCEPT !.linked = TRUE] \in Evaluation
  BY <1>1 DEF Evaluation
<1>3. evaluation' = [evaluation EXCEPT ![c] = [evaluation[c] EXCEPT !.linked = TRUE]]
  BY <1>1 DEF LinkJob, TypeOK
<1>4. TypeOK'
  BY <1>1, <1>2, <1>3 DEF TypeOK, LinkJob, Goto, Steps, prdVars, jobVars
<1>5. OnlyOf(c) /\ scheduler'[c] = "done" /\ saw'[c] = saw[c] /\ job'[c] = job[c]
  BY <1>1, <1>3 DEF OnlyOf, LinkJob, Goto, prdVars, jobVars, TypeOK
<1>6. evaluation'[c].version = evaluation[c].version /\ evaluation'[c].status = evaluation[c].status
        /\ evaluation'[c].linked /\ evaluation'[c].comments = evaluation[c].comments
  BY <1>1, <1>3 DEF TypeOK, Evaluation
<1>7. EvaluationOK(c)'
  BY <1>1, <1>5, <1>6 DEF EvaluationOK, Exists
<1> QED
  BY <1>1, <1>4, <1>5, <1>6, <1>7, WithoutNewNumber

LEMMA SchedulingFailureKeeps ==
  ASSUME ContributionInv, NEW c \in Completions, SchedulingFails(c)
  PROVE  ContributionInv'
<1>1. TypeOK /\ EvaluationOK(c) /\ scheduler[c] \in {"started", "snapshot", "created", "enqueued"}
        /\ phase # "gone"
  BY DEF ContributionInv, SchedulingFails, SchedulersAreTimely
<1>2. PICK step \in {"failing", "dead"} : Goto(c, step)
  BY DEF SchedulingFails
<1>3. TypeOK'
  BY <1>1, <1>2 DEF TypeOK, SchedulingFails, Goto, Steps, prdVars, jobVars
<1>4. OnlyOf(c) /\ scheduler'[c] = step /\ UNCHANGED <<evaluation, saw, job>>
  BY <1>1, <1>2 DEF OnlyOf, SchedulingFails, Goto, prdVars, jobVars, TypeOK
<1>5. EvaluationOK(c)'
  BY <1>1, <1>4 DEF EvaluationOK, Exists
<1> QED
  BY <1>1, <1>3, <1>4, <1>5, WithoutNewNumber

LEMMA ReadKeeps ==
  ASSUME ContributionInv, NEW c \in Completions, ReadForFailure(c)
  PROVE  ContributionInv'
<1>1. TypeOK /\ EvaluationOK(c) /\ scheduler[c] = "failing" /\ phase # "gone" /\ Exists(c)
  BY DEF ContributionInv, ReadForFailure, At, SchedulersAreTimely
<1>2. TypeOK'
  BY <1>1, ReadIsTyped DEF TypeOK, ReadForFailure, prdVars, jobVars
<1>3. OnlyOf(c) /\ UNCHANGED <<evaluation, scheduler, job>>
  BY <1>1, ReadIsTyped DEF OnlyOf, ReadForFailure, prdVars, jobVars
<1>4. EvaluationOK(c)'
  BY <1>1, <1>3 DEF EvaluationOK, Exists
<1> QED
  BY <1>1, <1>2, <1>3, <1>4, WithoutNewNumber

LEMMA RecordKeeps ==
  ASSUME ContributionInv, NEW c \in Completions, RecordFailure(c)
  PROVE  ContributionInv'
<1>1. TypeOK /\ EvaluationOK(c) /\ scheduler[c] = "failing" /\ phase # "gone"
        /\ evaluation[c] \in Evaluation
  BY DEF ContributionInv, RecordFailure, At, SchedulersAreTimely, TypeOK
<1>2. scheduler'[c] = "done" /\ saw'[c] = "nothing" /\ job' = job
  BY <1>1 DEF RecordFailure, Goto, jobVars, TypeOK
<1>3. CASE Exists(c) /\ Set(c, "failed") /\ SyncLate(c, "failed")
  <2>1. /\ evaluation' \in [Completions -> Evaluation]
        /\ evaluation'[c] = [evaluation[c] EXCEPT !.status = "failed"]
        /\ \A d \in Completions \ {c} : evaluation'[d] = evaluation[d]
    BY <1>1, <1>3, StatusIsTyped
  <2>2. contribution' \in Contributions
    BY <1>1, <1>3, SyncIsTyped
  <2>3. TypeOK'
    BY <1>1, <2>1, <2>2 DEF TypeOK, RecordFailure, Goto, Steps, prdVars, jobVars
  <2>4. OnlyOf(c)
    BY <1>1, <2>1 DEF OnlyOf, RecordFailure, Goto, prdVars, jobVars, TypeOK
  <2>5. evaluation'[c].version = evaluation[c].version /\ evaluation'[c].status = "failed"
          /\ evaluation'[c].linked = evaluation[c].linked
    BY <1>1, <2>1 DEF Evaluation
  <2>6. EvaluationOK(c)'
    BY <1>1, <1>2, <1>3, <2>5 DEF EvaluationOK, Exists
  <2> QED
    BY <1>1, <1>2, <2>3, <2>4, <2>5, <2>6, WithoutNewNumber
<1>4. CASE /\ ~Exists(c)
           /\ evaluation' = [evaluation EXCEPT ![c] =
                [NoEvaluation EXCEPT !.version = NextVersion, !.status = "failed"]]
           /\ contribution' = IF phase = "completed" THEN "failed" ELSE contribution
  <2> DEFINE row == [NoEvaluation EXCEPT !.version = NextVersion, !.status = "failed"]
  <2>1. NextVersion \in Completions /\ NextVersion > 0
    BY <1>1, <1>4, NextVersionIsFree, CompletionsAssumption DEF ContributionInv, Completions
  <2>2. row \in Evaluation /\ row.version = NextVersion /\ row.status = "failed" /\ ~row.linked
    BY <2>1 DEF NoEvaluation, Evaluation
  <2>3. contribution' \in Contributions
    BY <1>1, <1>4 DEF TypeOK, Contributions
  <2>4. TypeOK'
    BY <1>1, <1>4, <2>2, <2>3 DEF TypeOK, RecordFailure, Goto, Steps, prdVars, jobVars
  <2>5. OnlyOf(c) /\ evaluation'[c] = row
    BY <1>1, <1>4 DEF OnlyOf, RecordFailure, Goto, prdVars, jobVars, TypeOK
  <2>6. EvaluationOK(c)'
    BY <1>1, <1>2, <1>4, <2>1, <2>2, <2>5 DEF EvaluationOK, Exists
  <2> QED
    BY <1>1, <1>4, <2>2, <2>4, <2>5, <2>6, NewRowKeeps
<1> QED
  BY <1>3, <1>4 DEF RecordFailure

LEMMA ScheduleKeeps ==
  ASSUME ContributionInv, NEW c \in Completions, Schedule(c)
  PROVE  ContributionInv'
  BY SnapshotKeeps, CreateKeeps, StoreKeeps, EnqueueKeeps, LinkKeeps,
     SchedulingFailureKeeps, ReadKeeps, RecordKeeps DEF Schedule
-----------------------------------------------------------------------------
(* The job.                                                                *)

(* A step of the job alone: it does not become delivered.                  *)
LEMMA JobStepKeeps ==
  ASSUME ContributionInv, NEW c \in Completions, TypeOK',
         UNCHANGED <<prdVars, evaluation, scheduler, saw>>,
         job[c] # "delivered", job'[c] # "delivered",
         \A d \in Completions \ {c} : job'[d] = job[d]
  PROVE  ContributionInv'
<1>1. OnlyOf(c)
  BY DEF OnlyOf, prdVars
<1>2. EvaluationOK(c) /\ (phase = "gone" => scheduler[c] \in {"none", "done", "dead"})
  BY DEF ContributionInv, SchedulersAreTimely
<1>3. EvaluationOK(c)'
  BY <1>2 DEF EvaluationOK, Exists
<1> QED
  BY <1>1, <1>2, <1>3, WithoutNewNumber

(* A job that ends without an answer marks its evaluation as failed.       *)
LEMMA FailedEndKeeps ==
  ASSUME ContributionInv, NEW c \in Completions, MarkFailed(c),
         evaluation[c].linked => Unlocked(c),
         UNCHANGED <<prdVars, scheduler, saw, retries, tries, results>>,
         job' \in [Completions -> {"none", "pending", "stopping", "delivered", "failed", "cancelled"}],
         job[c] # "delivered", job'[c] # "delivered",
         \A d \in Completions \ {c} : job'[d] = job[d]
  PROVE  ContributionInv'
<1>1. TypeOK /\ EvaluationOK(c) /\ evaluation[c] \in Evaluation
        /\ (phase = "gone" => scheduler[c] \in {"none", "done", "dead"})
  BY DEF ContributionInv, TypeOK, SchedulersAreTimely
<1>2. CASE evaluation[c].linked
  <2>1. /\ evaluation' \in [Completions -> Evaluation]
        /\ evaluation'[c] = [evaluation[c] EXCEPT !.status = "failed"]
        /\ \A d \in Completions \ {c} : evaluation'[d] = evaluation[d]
    BY <1>1, <1>2, StatusIsTyped DEF MarkFailed
  <2>2. contribution' \in Contributions
    BY <1>1, <1>2, SyncIsTyped DEF MarkFailed
  <2>3. TypeOK'
    BY <1>1, <2>1, <2>2 DEF TypeOK, prdVars
  <2>4. OnlyOf(c)
    BY <2>1 DEF OnlyOf, prdVars
  <2>5. evaluation'[c].version = evaluation[c].version /\ evaluation'[c].status = "failed"
          /\ evaluation'[c].linked
    BY <1>1, <1>2, <2>1 DEF Evaluation
  <2>6. EvaluationOK(c)'
    BY <1>1, <1>2, <2>5 DEF EvaluationOK, Exists, Unlocked
  <2> QED
    BY <1>1, <2>3, <2>4, <2>5, <2>6, WithoutNewNumber
<1>3. CASE ~evaluation[c].linked
  <2>1. UNCHANGED <<evaluation, contribution>>
    BY <1>3 DEF MarkFailed
  <2>2. TypeOK'
    BY <1>1, <2>1 DEF TypeOK, prdVars
  <2> QED
    BY <2>1, <2>2, JobStepKeeps
<1> QED
  BY <1>2, <1>3

LEMMA DeliverKeeps ==
  ASSUME ContributionInv, NEW c \in Completions, DeliverJob(c)
  PROVE  ContributionInv'
<1>1. TypeOK /\ EvaluationOK(c) /\ evaluation[c] \in Evaluation /\ evaluation[c].linked
        /\ saw[c] = "nothing" /\ Exists(c) /\ scheduler[c] \in {"done", "dead"}
  BY DEF ContributionInv, TypeOK, DeliverJob, Unlocked, EvaluationOK
<1>2. /\ evaluation' \in [Completions -> Evaluation]
      /\ evaluation'[c] = [evaluation[c] EXCEPT !.status = "succeeded"]
      /\ \A d \in Completions \ {c} : evaluation'[d] = evaluation[d]
  BY <1>1, StatusIsTyped DEF DeliverJob
<1>3. contribution' \in Contributions
  BY <1>1, SyncIsTyped DEF DeliverJob, TypeOK
<1>4. results' \in [Completions -> Nat]
  <2>1. results[c] + 1 \in Nat
    BY <1>1 DEF TypeOK
  <2> QED
    BY <1>1, <2>1 DEF DeliverJob, Ai!Deliver, TypeOK
<1>5. job' \in [Completions -> {"none", "pending", "stopping", "delivered", "failed", "cancelled"}]
        /\ job'[c] = "delivered" /\ (\A d \in Completions \ {c} : job'[d] = job[d])
        /\ tries' = tries
  BY <1>1 DEF DeliverJob, Ai!Deliver, TypeOK
<1>6. TypeOK'
  BY <1>1, <1>2, <1>3, <1>4, <1>5 DEF TypeOK, DeliverJob, prdVars
<1>7. OnlyOf(c) /\ scheduler' = scheduler /\ saw' = saw
  BY <1>2, <1>5 DEF OnlyOf, DeliverJob, prdVars
<1>8. evaluation'[c].version = evaluation[c].version /\ evaluation'[c].status = "succeeded"
  BY <1>1, <1>2 DEF Evaluation
<1>9. EvaluationOK(c)'
  BY <1>1, <1>5, <1>7, <1>8 DEF EvaluationOK, Exists
<1> QED
  BY <1>1, <1>6, <1>7, <1>8, <1>9, WithoutNewNumber

LEMMA WorkKeeps ==
  ASSUME ContributionInv, NEW c \in Completions, Work(c)
  PROVE  ContributionInv'
<1>1. TypeOK
  BY DEF ContributionInv
<1>2. CASE TryJob(c)
  <2>1. tries[c] + 1 \in 0..Limit
    BY <1>1, <1>2, LimitAssumption DEF TryJob, Ai!Try, TypeOK
  <2>2. tries' \in [Completions -> 0..Limit]
    BY <1>1, <1>2, <2>1 DEF TryJob, Ai!Try, TypeOK
  <2>3. TypeOK'
    BY <1>1, <1>2, <2>2 DEF TypeOK, TryJob, Ai!Try, prdVars
  <2> QED
    BY <1>2, <2>3, JobStepKeeps DEF TryJob, Ai!Try
<1>3. CASE DeliverJob(c)
  BY <1>3, DeliverKeeps
<1>4. CASE FailJob(c)
  BY <1>1, <1>4, FailedEndKeeps DEF FailJob, Ai!Fail, TypeOK
<1>5. CASE WorkerConfirmsStop(c)
  BY <1>1, <1>5, FailedEndKeeps DEF WorkerConfirmsStop, Ai!Stop, TypeOK
<1> QED
  BY <1>2, <1>3, <1>4, <1>5 DEF Work
-----------------------------------------------------------------------------
(* Users and administrators.                                               *)

LEMMA SubmitIsTyped ==
  ASSUME TypeOK, NEW c \in Completions, Ai!Submit(c)
  PROVE  /\ job' \in [Completions -> {"none", "pending", "stopping", "delivered", "failed", "cancelled"}]
         /\ tries' \in [Completions -> 0..Limit]
         /\ results' = results
         /\ job[c] # "delivered" /\ job'[c] = "pending"
         /\ \A d \in Completions \ {c} : job'[d] = job[d]
  BY LimitAssumption DEF TypeOK, Ai!Submit

LEMMA BeginRetryKeeps ==
  ASSUME ContributionInv, NEW c \in Completions, BeginRetry(c)
  PROVE  ContributionInv'
<1>1. TypeOK /\ EvaluationOK(c) /\ phase # "gone" /\ Exists(c) /\ evaluation[c].status = "failed"
  BY DEF ContributionInv, BeginRetry, Retryable, SchedulersAreTimely
<1>2. retries[c] + 1 \in 0..MaxRetries
  BY <1>1, MaxRetriesAssumption DEF BeginRetry, TypeOK
<1>3. retries' \in [Completions -> 0..MaxRetries]
  BY <1>1, <1>2 DEF BeginRetry, TypeOK
<1>4. TypeOK'
  BY <1>1, <1>3, ReadIsTyped DEF TypeOK, BeginRetry, prdVars, jobVars
<1>5. OnlyOf(c)
  BY <1>1, ReadIsTyped DEF OnlyOf, BeginRetry, prdVars, jobVars
<1>6. EvaluationOK(c)'
  BY <1>1 DEF EvaluationOK, Exists, BeginRetry, jobVars
<1> QED
  BY <1>1, <1>4, <1>5, <1>6, WithoutNewNumber DEF BeginRetry

LEMMA CommitRetryKeeps ==
  ASSUME ContributionInv, NEW c \in Completions, CommitRetry(c)
  PROVE  ContributionInv'
<1>1. TypeOK /\ EvaluationOK(c) /\ evaluation[c] \in Evaluation
        /\ scheduler[c] \in {"done", "dead"} /\ Exists(c) /\ evaluation[c].status = "failed"
  BY DEF ContributionInv, TypeOK, CommitRetry, Unlocked, EvaluationOK
<1>2. [evaluation[c] EXCEPT !.status = "pending", !.linked = TRUE] \in Evaluation
  BY <1>1 DEF Evaluation
<1>3. evaluation' = [evaluation EXCEPT ![c] =
                       [evaluation[c] EXCEPT !.status = "pending", !.linked = TRUE]]
  BY <1>1 DEF CommitRetry, TypeOK
<1>4. contribution' \in Contributions
  BY <1>1, SyncIsTyped DEF CommitRetry
<1>5. /\ job' \in [Completions -> {"none", "pending", "stopping", "delivered", "failed", "cancelled"}]
      /\ tries' \in [Completions -> 0..Limit]
      /\ results' = results
      /\ \A d \in Completions \ {c} : job'[d] = job[d]
      /\ job'[c] # "delivered"
  <2>1. CASE Ai!Submit(c)
    BY <1>1, <2>1, SubmitIsTyped
  <2>2. CASE UNCHANGED jobVars
    BY <1>1, <2>2 DEF jobVars, TypeOK, EvaluationOK
  <2> QED
    BY <2>1, <2>2 DEF CommitRetry
<1>6. TypeOK'
  <2>1. evaluation' \in [Completions -> Evaluation]
    BY <1>1, <1>2, <1>3 DEF TypeOK
  <2>2. saw' \in [Completions -> {"nothing", "current", "outdated"}]
    BY <1>1 DEF TypeOK, CommitRetry
  <2>3. UNCHANGED <<phase, trashed, cycle, scheduler, retries>>
    BY DEF CommitRetry, prdVars
  <2> QED
    BY <1>1, <1>4, <1>5, <2>1, <2>2, <2>3 DEF TypeOK
<1>7. OnlyOf(c) /\ scheduler' = scheduler /\ saw'[c] = "nothing"
  BY <1>1, <1>3, <1>5 DEF OnlyOf, CommitRetry, prdVars, TypeOK
<1>8. evaluation'[c].version = evaluation[c].version /\ evaluation'[c].status = "pending"
  BY <1>1, <1>3 DEF TypeOK, Evaluation
<1>9. EvaluationOK(c)'
  BY <1>1, <1>5, <1>7, <1>8 DEF EvaluationOK, Exists
<1> QED
  BY <1>1, <1>6, <1>7, <1>8, <1>9, WithoutNewNumber

LEMMA AskKeeps ==
  ASSUME ContributionInv, NEW c \in Completions, Ask(c)
  PROVE  ContributionInv'
<1>1. TypeOK
  BY DEF ContributionInv
<1>2. CASE CancelJob(c)
  <2>1. TypeOK'
    BY <1>1, <1>2 DEF TypeOK, CancelJob, Ai!Stop, Ai!AskToStop, prdVars
  <2> QED
    BY <1>1, <1>2, <2>1, JobStepKeeps DEF TypeOK, CancelJob, Ai!Stop, Ai!AskToStop
<1>3. CASE RetryJob(c)
  <2>1. retries[c] + 1 \in 0..MaxRetries
    BY <1>1, <1>3, MaxRetriesAssumption DEF RetryJob, TypeOK
  <2>2. retries' \in [Completions -> 0..MaxRetries]
    BY <1>1, <1>3, <2>1 DEF RetryJob, TypeOK
  <2>3. TypeOK'
    BY <1>1, <1>3, <2>2, SubmitIsTyped DEF TypeOK, RetryJob, prdVars
  <2> QED
    BY <1>1, <1>3, <2>3, SubmitIsTyped, JobStepKeeps DEF RetryJob
<1>4. CASE BeginRetry(c)
  BY <1>4, BeginRetryKeeps
<1>5. CASE CommitRetry(c)
  BY <1>5, CommitRetryKeeps
<1>6. CASE AbortRetry(c)
  <2>1. TypeOK'
    BY <1>1, <1>6 DEF TypeOK, AbortRetry, prdVars, jobVars
  <2>2. OnlyOf(c)
    BY <1>1, <1>6 DEF OnlyOf, AbortRetry, prdVars, jobVars, TypeOK
  <2>3. EvaluationOK(c) /\ (phase = "gone" => scheduler[c] \in {"none", "done", "dead"})
    BY DEF ContributionInv, SchedulersAreTimely
  <2>4. EvaluationOK(c)' /\ saw'[c] = "nothing"
    BY <1>1, <1>6, <2>3 DEF EvaluationOK, Exists, AbortRetry, jobVars, TypeOK
  <2> QED
    BY <1>6, <2>1, <2>2, <2>3, <2>4, WithoutNewNumber DEF AbortRetry
<1> QED
  BY <1>2, <1>3, <1>4, <1>5, <1>6 DEF Ask
-----------------------------------------------------------------------------
(* The PRD.                                                                *)

LEMMA CompletePrdKeeps ==
  ASSUME ContributionInv, CompletePrd
  PROVE  ContributionInv'
<1>1. TypeOK /\ cycle + 1 \in Completions /\ phase = "open"
        /\ phase' = "completed" /\ cycle' = cycle + 1
  BY DEF ContributionInv, CompletePrd, Prd!Complete
<1>2. cycle \in Int
  BY <1>1, CompletionsAssumption DEF TypeOK, Completions
<1>3. scheduler[cycle + 1] = "none"
  BY <1>1, <1>2 DEF ContributionInv, SchedulersAreTimely
<1>4. TypeOK'
  BY <1>1 DEF TypeOK, CompletePrd, Prd!Complete, Goto, Steps, Contributions, jobVars
<1>5. ASSUME NEW d \in Completions
      PROVE  EvaluationOK(d)'
  <2>1. EvaluationOK(d) /\ EvaluationOK(cycle + 1)
    BY <1>1, <1>5 DEF ContributionInv
  <2>2. /\ UNCHANGED <<evaluation, saw, job>>
        /\ d # cycle + 1 => scheduler'[d] = scheduler[d]
        /\ d = cycle + 1 => scheduler'[d] = "started"
    BY <1>1, <1>5 DEF CompletePrd, Goto, jobVars, TypeOK
  <2> QED
    BY <1>3, <2>1, <2>2 DEF EvaluationOK, Exists
<1>6. SchedulersAreTimely'
  <2>1. ASSUME NEW d \in Completions, d > cycle + 1
        PROVE  scheduler'[d] = "none"
    <3>1. d > cycle /\ d # cycle + 1
      BY <1>2, <2>1, CompletionsAssumption DEF Completions
    <3>2. scheduler[d] = "none"
      BY <2>1, <3>1 DEF ContributionInv, SchedulersAreTimely
    <3> QED
      BY <1>1, <2>1, <3>1, <3>2 DEF CompletePrd, Goto, TypeOK
  <2> QED
    BY <1>1, <2>1 DEF SchedulersAreTimely
<1>7. VersionsAreConsecutive'
  BY NumbersStay DEF CompletePrd, ContributionInv
<1> QED
  BY <1>4, <1>5, <1>6, <1>7 DEF ContributionInv

(* A step of the PRD that touches neither rows nor schedulers.             *)
LEMMA PrdStepKeeps ==
  ASSUME ContributionInv, TypeOK', UNCHANGED <<cycle, evaluation, scheduler, saw>>,
         phase' = "gone" => phase = "gone",
         \A d \in Completions : (job'[d] = "delivered") = (job[d] = "delivered")
  PROVE  ContributionInv'
<1>1. ASSUME NEW d \in Completions
      PROVE  EvaluationOK(d)'
  <2>1. EvaluationOK(d)
    BY DEF ContributionInv
  <2> QED
    BY <2>1 DEF EvaluationOK, Exists
<1>2. SchedulersAreTimely'
  BY DEF ContributionInv, SchedulersAreTimely, Exists
<1>3. VersionsAreConsecutive'
  BY NumbersStay DEF ContributionInv
<1> QED
  BY <1>1, <1>2, <1>3 DEF ContributionInv

LEMMA PurgePrdKeeps ==
  ASSUME ContributionInv, PurgePrd
  PROVE  ContributionInv'
<1>1. TypeOK /\ phase' = "gone" /\ UNCHANGED <<trashed, cycle, scheduler, saw, retries, contribution>>
  BY DEF ContributionInv, PurgePrd, Prd!Purge
<1>2. \A d \in Completions : evaluation'[d] = NoEvaluation /\ evaluation'[d].version = 0
  BY NoEvaluationIsTyped DEF PurgePrd
<1>3. \A d \in Completions : job'[d] = "none" /\ saw[d] = "nothing"
        /\ scheduler[d] \in {"none", "done", "dead"}
  BY DEF PurgePrd, Ai!Forget, Unlocked
<1>4. evaluation' \in [Completions -> Evaluation]
  BY NoEvaluationIsTyped DEF PurgePrd
<1>5. TypeOK'
  BY <1>1, <1>4, LimitAssumption DEF TypeOK, PurgePrd, Ai!Forget
<1>6. \A d \in Completions : ~Exists(d)'
  BY <1>2 DEF Exists
<1>7. \A d \in Completions : EvaluationOK(d)'
  BY <1>1, <1>2, <1>3, <1>6 DEF EvaluationOK, NoEvaluation
<1>8. SchedulersAreTimely'
  BY <1>1, <1>3, <1>6 DEF ContributionInv, SchedulersAreTimely
<1>9. VersionsAreConsecutive'
  <2>1. Existing' = {}
    BY <1>6 DEF Existing
  <2>2. Cardinality({}) = 0
    BY FS_EmptySet
  <2>3. {evaluation'[d].version : d \in {}} = 1..0
    OBVIOUS
  <2> QED
    BY <2>1, <2>2, <2>3 DEF VersionsAreConsecutive, Existing
<1> QED
  BY <1>5, <1>7, <1>8, <1>9 DEF ContributionInv

LEMMA InvariantAtFirst == Init => ContributionInv
<1> SUFFICES ASSUME Init PROVE ContributionInv
  OBVIOUS
<1>1. TypeOK
  <2>1. evaluation \in [Completions -> Evaluation]
    BY NoEvaluationIsTyped DEF Init
  <2>2. job = [d \in Completions |-> "none"] /\ tries = [d \in Completions |-> 0]
          /\ results = [d \in Completions |-> 0]
    BY DEF Init, Ai!Init
  <2>3. 0 \in 0..Limit /\ 0 \in 0..MaxRetries
    BY LimitAssumption, MaxRetriesAssumption
  <2>4. phase = "open" /\ trashed = FALSE /\ cycle = 0
    BY DEF Init, Prd!Init
  <2> QED
    BY <2>1, <2>2, <2>3, <2>4 DEF Init, TypeOK, Contributions, Steps
<1>2. \A d \in Completions : ~Exists(d)
  BY NoEvaluationIsTyped DEF Init, Exists
<1>3. \A d \in Completions : EvaluationOK(d)
  BY <1>2 DEF Init, Ai!Init, EvaluationOK, NoEvaluation
<1>4. SchedulersAreTimely
  BY DEF Init, Prd!Init, SchedulersAreTimely
<1>5. VersionsAreConsecutive
  <2>1. Existing = {}
    BY <1>2 DEF Existing
  <2>2. Cardinality({}) = 0
    BY FS_EmptySet
  <2>3. {evaluation[d].version : d \in {}} = 1..0
    OBVIOUS
  <2> QED
    BY <2>1, <2>2, <2>3 DEF VersionsAreConsecutive, Existing
<1> QED
  BY <1>1, <1>3, <1>4, <1>5 DEF ContributionInv

LEMMA InvariantIsKept == ContributionInv /\ [Next]_vars => ContributionInv'
<1> SUFFICES ASSUME ContributionInv, [Next]_vars
             PROVE  ContributionInv'
  OBVIOUS
<1>1. TypeOK
  BY DEF ContributionInv
<1>2. CASE CompletePrd
  BY <1>2, CompletePrdKeeps
<1>3. CASE ReopenPrd
  <2>1. TypeOK'
    BY <1>1, <1>3 DEF TypeOK, ReopenPrd, Prd!Reopen, Contributions, jobVars
  <2> QED
    BY <1>3, <2>1, PrdStepKeeps DEF ReopenPrd, Prd!Reopen, jobVars
<1>4. CASE TrashPrd
  <2>1. TypeOK'
    BY <1>1, <1>4 DEF TypeOK, TrashPrd, Prd!Trash, Ai!AskToStop
  <2> QED
    BY <1>4, <2>1, PrdStepKeeps DEF TrashPrd, Prd!Trash, Ai!AskToStop
<1>5. CASE RestorePrd
  <2>1. TypeOK'
    BY <1>1, <1>5 DEF TypeOK, RestorePrd, Prd!Restore, jobVars
  <2> QED
    BY <1>5, <2>1, PrdStepKeeps DEF RestorePrd, Prd!Restore, jobVars
<1>6. CASE PurgePrd
  BY <1>6, PurgePrdKeeps
<1>7. ASSUME NEW c \in Completions, Schedule(c) \/ Work(c) \/ Ask(c)
      PROVE  ContributionInv'
  BY <1>7, ScheduleKeeps, WorkKeeps, AskKeeps
<1>8. CASE UNCHANGED vars
  <2>1. TypeOK'
    BY <1>1, <1>8 DEF TypeOK, vars, prdVars, jobVars
  <2> QED
    BY <1>8, <2>1, PrdStepKeeps DEF vars, prdVars, jobVars
<1> QED
  BY <1>2, <1>3, <1>4, <1>5, <1>6, <1>7, <1>8 DEF Next

LEMMA InvariantHolds == Spec => []ContributionInv
<1> QED
  BY InvariantAtFirst, InvariantIsKept, PTL DEF Spec
-----------------------------------------------------------------------------
(* The theorems.                                                           *)

(* Every reachable state is well typed.                                    *)
THEOREM ContributionTypes == Spec => []TypeOK
<1>1. ContributionInv => TypeOK
  BY DEF ContributionInv
<1> QED
  BY <1>1, InvariantHolds, PTL

(* An answer the AI was paid for is scored, scores that need the AI come   *)
(* from an answer, and the evaluations are numbered without a gap, however *)
(* many completions overtake each other (contribution.py:204, 405, 531).   *)
THEOREM AnswersStayAccountedFor == Spec => []AnswersAreAccountedFor
<1>1. ContributionInv => AnswersAreAccountedFor
  BY DEF ContributionInv, EvaluationOK, AnswersAreAccountedFor, AnswersAreScored
<1> QED
  BY <1>1, InvariantHolds, PTL

(* A succeeded evaluation stays as it is for as long as its PRD exists.    *)
LEMMA StepKeepsScores ==
  ASSUME ContributionInv, [Next]_vars, NEW c \in Completions,
         Exists(c), evaluation[c].status = "succeeded", phase' # "gone"
  PROVE  evaluation'[c] = evaluation[c]
<1>1. TypeOK /\ EvaluationOK(c) /\ evaluation[c] \in Evaluation
  BY DEF ContributionInv, TypeOK
<1>2. scheduler[c] \notin {"started", "snapshot", "created", "enqueued", "failing"}
  BY <1>1 DEF EvaluationOK
<1>3. saw[c] = "nothing"
  BY <1>1, <1>2 DEF EvaluationOK
<1>4. evaluation[c].linked => job[c] = "delivered"
  BY <1>1 DEF EvaluationOK
<1>5. ASSUME NEW d \in Completions, Schedule(d)
      PROVE  evaluation'[c] = evaluation[c]
  <2>1. CASE d = c
    BY <1>1, <1>2, <1>5, <2>1
    DEF Schedule, TakeSnapshot, CreateEvaluation, StoreWithoutAi, EnqueueJob, LinkJob,
        SchedulingFails, ReadForFailure, RecordFailure, At
  <2>2. CASE d # c
    BY <1>1, <1>5, <2>2
    DEF Schedule, TakeSnapshot, CreateEvaluation, StoreWithoutAi, EnqueueJob, LinkJob,
        SchedulingFails, ReadForFailure, RecordFailure, Set, TypeOK
  <2> QED
    BY <2>1, <2>2
<1>6. ASSUME NEW d \in Completions, Work(d)
      PROVE  evaluation'[c] = evaluation[c]
  <2>1. CASE d = c
    <3>1. job[c] = "delivered" => ~Work(c)
      BY DEF Work, TryJob, DeliverJob, FailJob, WorkerConfirmsStop,
             Ai!Try, Ai!Deliver, Ai!Fail, Ai!Stop
    <3>2. ~evaluation[c].linked
      BY <1>4, <1>6, <2>1, <3>1
    <3> QED
      BY <1>6, <2>1, <3>2
      DEF Work, TryJob, DeliverJob, FailJob, WorkerConfirmsStop, MarkFailed
  <2>2. CASE d # c
    BY <1>1, <1>6, <2>2
    DEF Work, TryJob, DeliverJob, FailJob, WorkerConfirmsStop, MarkFailed, Set, TypeOK
  <2> QED
    BY <2>1, <2>2
<1>7. ASSUME NEW d \in Completions, Ask(d)
      PROVE  evaluation'[c] = evaluation[c]
  BY <1>1, <1>3, <1>7
  DEF Ask, CancelJob, RetryJob, BeginRetry, CommitRetry, AbortRetry, Unlocked, TypeOK
<1>8. CASE CompletePrd \/ ReopenPrd \/ TrashPrd \/ RestorePrd
  BY <1>8 DEF CompletePrd, ReopenPrd, TrashPrd, RestorePrd
<1>9. ~PurgePrd
  BY DEF PurgePrd, Prd!Purge
<1>10. CASE UNCHANGED vars
  BY <1>10 DEF vars
<1> QED
  BY <1>5, <1>6, <1>7, <1>8, <1>9, <1>10 DEF Next

THEOREM ScoresStayFinal == Spec => ScoresAreFinal
<1>1. ContributionInv /\ [Next]_vars
        => [\A c \in Completions :
              Exists(c) /\ evaluation[c].status = "succeeded" /\ phase' # "gone"
                => evaluation'[c] = evaluation[c]]_vars
  BY StepKeepsScores
<1> QED
  BY <1>1, InvariantHolds, PTL DEF Spec, ScoresAreFinal
-----------------------------------------------------------------------------
(* What the PRD shows.                                                     *)

Evaluated == \E c \in Completions : c = cycle /\ Exists(c)

(* Who has found that a completed PRD will not show his evaluation, has    *)
(* not read it before the completion that the newest evaluation is of.     *)
ReadersInv ==
    phase = "completed" /\ Evaluated => \A c \in Completions :
      Exists(c) /\ Latest(c) => saw[c] # "outdated"

(* No two evaluations share a number.                                      *)
LEMMA NumbersAreOwn ==
  ASSUME VersionsAreConsecutive, NEW c \in Existing, NEW d \in Existing,
         evaluation[c].version = evaluation[d].version
  PROVE  c = d
<1> DEFINE n == Cardinality(Existing)
           f == [e \in Existing |-> evaluation[e].version]
<1>1. IsFiniteSet(Existing) /\ n \in Nat
  BY ExistingIsFinite, CompletionsAssumption
<1>2. {evaluation[e].version : e \in Existing} = 1..n
  BY ConsecutiveMeans
<1>3. f \in Surjection(Existing, 1..n)
  <2>1. f \in [Existing -> 1..n] /\ \A i \in 1..n : \E e \in Existing : f[e] = i
    BY <1>2
  <2> QED
    BY <2>1 DEF Surjection
<1>4. Cardinality(1..n) = n /\ IsFiniteSet(1..n)
  BY <1>1, FS_Interval
<1>5. f[c] = f[d]
  OBVIOUS
<1> HIDE DEF f
<1>6. f \in Injection(Existing, 1..n)
  BY <1>1, <1>3, <1>4, FS_SurjSameCardinalityImpliesInj
<1> QED
  BY <1>5, <1>6 DEF Injection, IsInjective

LEMMA NewestStays ==
  ASSUME \A d \in Completions : evaluation'[d].version = evaluation[d].version
  PROVE  \A d \in Completions : (Exists(d)' <=> Exists(d)) /\ (Latest(d)' <=> Latest(d))
<1>1. Versions' = Versions
  BY DEF Versions
<1> QED
  BY <1>1 DEF Exists, Latest

LEMMA NewRowIsNewest ==
  ASSUME TypeOK, VersionsAreConsecutive, NEW c \in Completions, ~Exists(c),
         evaluation'[c].version = NextVersion,
         \A d \in Completions \ {c} : evaluation'[d].version = evaluation[d].version
  PROVE  \A d \in Completions : Exists(d)' /\ Latest(d)' => d = c
<1> DEFINE n == Cardinality(Existing)
<1>1. NextVersion = n + 1 /\ n \in Nat
  BY NextVersionIsFree, ExistingIsFinite, CompletionsAssumption
<1>2. \A d \in Completions \ {c} : evaluation'[d].version \in 0..n
  <2>1. TAKE d \in Completions \ {c}
  <2>2. CASE d \in Existing
    BY <1>1, <2>2, ConsecutiveMeans
  <2>3. CASE d \notin Existing
    <3>1. evaluation[d].version = 0
      BY <2>3, CompletionsAssumption DEF TypeOK, Evaluation, Existing, Exists, Completions
    <3>2. evaluation'[d].version = 0
      BY <2>1, <3>1
    <3>3. 0 \in 0..n
      BY <1>1
    <3> QED
      BY <3>2, <3>3
  <2> QED
    BY <2>1, <2>2, <2>3
<1>3. n + 1 \in Versions' /\ \A x \in Versions' : x \in 0..(n + 1)
  BY <1>1, <1>2 DEF Versions
<1>4. Max(Versions') = n + 1
  <2>1. \A y \in Versions' : n + 1 >= y
    BY <1>1, <1>3
  <2>2. \A x \in Versions' : (\A y \in Versions' : x >= y) => x = n + 1
    BY <1>1, <1>3
  <2> QED
    BY <1>3, <2>1, <2>2 DEF Max
<1>5. \A d \in Completions \ {c} : evaluation'[d].version # n + 1
  BY <1>1, <1>2
<1> QED
  BY <1>4, <1>5 DEF Latest

Shows == ShowsNewest' \/ OvertakenSync \/ (~ShowsNewest /\ NewestStatusStays)

(* A step that makes no row writes the status of the newest evaluation to  *)
(* a completed PRD, or leaves both as they are.                            *)
Mirrors(c) ==
    phase = "completed" /\ Evaluated =>
      IF Exists(c) /\ Latest(c)
      THEN /\ saw[c] # "outdated" => saw'[c] # "outdated"
           /\ \/ contribution' = evaluation'[c].status
              \/ contribution' = contribution /\ evaluation'[c].status = evaluation[c].status
      ELSE contribution' = contribution \/ OvertakenSync

LEMMA MirrorStays ==
  ASSUME ContributionInv, ReadersInv, NEW c \in Completions, OnlyOf(c),
         evaluation'[c].version = evaluation[c].version,
         Mirrors(c)
  PROVE  ReadersInv' /\ Shows
<1>1. \A d \in Completions : evaluation'[d].version = evaluation[d].version
  BY DEF OnlyOf
<1>2. \A d \in Completions : (Exists(d)' <=> Exists(d)) /\ (Latest(d)' <=> Latest(d))
  BY <1>1, NewestStays
<1>3. phase' = phase /\ cycle' = cycle /\ (Evaluated' <=> Evaluated)
  BY <1>2 DEF OnlyOf, Evaluated, prdVars
<1>4. \A d \in Completions \ {c} : evaluation'[d] = evaluation[d] /\ saw'[d] = saw[d]
  BY DEF OnlyOf
<1>5. CASE ~(phase = "completed" /\ Evaluated)
  BY <1>3, <1>5 DEF ReadersInv, Shows, ShowsNewest, Evaluated
<1>6. CASE phase = "completed" /\ Evaluated /\ Exists(c) /\ Latest(c)
  <2>1. \A d \in Completions : Exists(d) /\ Latest(d) => d = c
    <3>1. \A d \in Completions : Exists(d) /\ Latest(d) => evaluation[d].version = evaluation[c].version
      BY <1>6 DEF Latest
    <3> QED
      BY <1>6, <3>1, NumbersAreOwn DEF Existing, ContributionInv
  <2>2. ReadersInv'
    BY <1>2, <1>3, <1>6, <2>1 DEF ReadersInv, Mirrors
  <2>3. CASE contribution' = evaluation'[c].status
    BY <1>2, <2>1, <2>2, <2>3 DEF Shows, ShowsNewest
  <2>4. CASE contribution' = contribution /\ evaluation'[c].status = evaluation[c].status
    <3>1. NewestStatusStays
      BY <1>2, <2>1, <2>4 DEF NewestStatusStays
    <3>2. ShowsNewest => ShowsNewest'
      BY <1>2, <1>3, <2>1, <2>4 DEF ShowsNewest
    <3> QED
      BY <2>2, <3>1, <3>2 DEF Shows
  <2> QED
    BY <1>6, <2>3, <2>4 DEF Mirrors
<1>7. CASE phase = "completed" /\ Evaluated /\ ~(Exists(c) /\ Latest(c))
  <2>1. \A d \in Completions : Exists(d) /\ Latest(d) =>
          d # c /\ evaluation'[d] = evaluation[d] /\ saw'[d] = saw[d]
    BY <1>4, <1>7
  <2>2. ReadersInv'
    BY <1>2, <1>3, <2>1 DEF ReadersInv
  <2>3. NewestStatusStays
    BY <1>2, <2>1 DEF NewestStatusStays
  <2>4. CASE contribution' = contribution
    <3>1. ShowsNewest => ShowsNewest'
      BY <1>2, <1>3, <2>1, <2>4 DEF ShowsNewest
    <3> QED
      BY <2>2, <2>3, <3>1 DEF Shows
  <2> QED
    BY <1>7, <2>2, <2>4 DEF Mirrors, Shows
<1> QED
  BY <1>5, <1>6, <1>7

(* A new evaluation is the newest one, and what it is shows.               *)
LEMMA MirrorTurns ==
  ASSUME ContributionInv, NEW c \in Completions, OnlyOf(c), ~Exists(c),
         evaluation'[c].version = NextVersion,
         saw'[c] # "outdated",
         phase = "completed" => contribution' = evaluation'[c].status
  PROVE  ReadersInv' /\ Shows
<1>1. \A d \in Completions \ {c} : evaluation'[d].version = evaluation[d].version
  BY DEF OnlyOf
<1>2. \A d \in Completions : Exists(d)' /\ Latest(d)' => d = c
  BY <1>1, NewRowIsNewest DEF ContributionInv
<1>3. phase' = phase
  BY DEF OnlyOf, prdVars
<1> QED
  BY <1>2, <1>3 DEF ReadersInv, Shows, ShowsNewest

(* Without the lock of the PRD: only who has been overtaken misleads.      *)
LEMMA LateMirrors ==
  ASSUME TypeOK, ReadersInv, NEW c \in Completions, Exists(c), ~Unlocked(c),
         NEW s, SyncLate(c, s), evaluation'[c].status = s, saw'[c] = "nothing"
  PROVE  Mirrors(c)
<1>1. saw[c] \in {"current", "outdated"}
  BY DEF TypeOK, Unlocked
<1>2. ASSUME phase = "completed", Evaluated, Latest(c)
      PROVE  contribution' = evaluation'[c].status
  <2>1. saw[c] = "current"
    BY <1>1, <1>2 DEF ReadersInv
  <2> QED
    BY <1>2, <2>1 DEF SyncLate
<1>3. ASSUME ~Latest(c), contribution' # contribution
      PROVE  OvertakenSync
  BY <1>3 DEF SyncLate, OvertakenSync
<1> QED
  BY <1>2, <1>3 DEF Mirrors

LEMMA ScheduleMirrors ==
  ASSUME ContributionInv, ReadersInv, NEW c \in Completions, Schedule(c)
  PROVE  ReadersInv' /\ Shows
<1>1. TypeOK /\ evaluation[c] \in Evaluation /\ EvaluationOK(c)
  BY DEF ContributionInv, TypeOK
<1>2. CASE TakeSnapshot(c)
  <2>1. PICK comments \in BOOLEAN :
          evaluation' = [evaluation EXCEPT ![c].comments = comments, ![c].snapshot = TRUE]
    BY <1>2 DEF TakeSnapshot
  <2>2. /\ evaluation'[c].version = evaluation[c].version
        /\ evaluation'[c].status = evaluation[c].status
        /\ \A d \in Completions \ {c} : evaluation'[d] = evaluation[d]
    BY <1>1, <2>1 DEF TypeOK, Evaluation
  <2>3. OnlyOf(c)
    BY <1>1, <1>2, <2>2 DEF OnlyOf, TakeSnapshot, Goto, prdVars, jobVars, TypeOK
  <2>4. contribution' = contribution /\ saw' = saw
    BY <1>2 DEF TakeSnapshot
  <2> QED
    BY <2>2, <2>3, <2>4, MirrorStays DEF Mirrors
<1>3. CASE CreateEvaluation(c)
  <2>1. /\ evaluation'[c].version = NextVersion /\ evaluation'[c].status = "pending"
        /\ \A d \in Completions \ {c} : evaluation'[d] = evaluation[d]
    BY <1>1, <1>3 DEF CreateEvaluation, TypeOK, Evaluation
  <2>2. OnlyOf(c)
    BY <1>1, <1>3, <2>1 DEF OnlyOf, CreateEvaluation, Goto, prdVars, jobVars, TypeOK
  <2>3. ~Exists(c) /\ saw[c] = "nothing"
    BY <1>1, <1>3 DEF EvaluationOK, CreateEvaluation, At
  <2>4. contribution' = "pending" /\ saw' = saw
    BY <1>1, <1>3 DEF CreateEvaluation
  <2> QED
    BY <2>1, <2>2, <2>3, <2>4, MirrorTurns
<1>4. CASE StoreWithoutAi(c)
  <2>1. /\ evaluation'[c] = [evaluation[c] EXCEPT !.status = "succeeded"]
        /\ \A d \in Completions \ {c} : evaluation'[d] = evaluation[d]
    BY <1>1, <1>4, StatusIsTyped DEF StoreWithoutAi
  <2>2. evaluation'[c].version = evaluation[c].version /\ evaluation'[c].status = "succeeded"
    BY <1>1, <2>1 DEF Evaluation
  <2>3. OnlyOf(c)
    BY <1>1, <1>4, <2>1 DEF OnlyOf, StoreWithoutAi, Goto, prdVars, jobVars, TypeOK
  <2>4. Mirrors(c)
    BY <1>1, <1>4, <2>2 DEF Mirrors, StoreWithoutAi, Sync, At, EvaluationOK
  <2> QED
    BY <2>2, <2>3, <2>4, MirrorStays
<1>5. CASE LinkJob(c)
  <2>1. /\ evaluation'[c].version = evaluation[c].version
        /\ evaluation'[c].status = evaluation[c].status
        /\ \A d \in Completions \ {c} : evaluation'[d] = evaluation[d]
    BY <1>1, <1>5 DEF LinkJob, TypeOK, Evaluation
  <2>2. OnlyOf(c)
    BY <1>1, <1>5, <2>1 DEF OnlyOf, LinkJob, Goto, prdVars, jobVars, TypeOK
  <2>3. saw' = saw /\ contribution' = contribution
    BY <1>5 DEF LinkJob
  <2> QED
    BY <2>1, <2>2, <2>3, MirrorStays DEF Mirrors
<1>6. CASE EnqueueJob(c) \/ SchedulingFails(c)
  <2>1. /\ UNCHANGED <<prdVars, contribution, evaluation, saw>>
        /\ \A d \in Completions \ {c} : scheduler'[d] = scheduler[d] /\ job'[d] = job[d]
    BY <1>1, <1>6 DEF EnqueueJob, SchedulingFails, Ai!Submit, At, Goto, TypeOK, jobVars
  <2>2. OnlyOf(c)
    BY <2>1 DEF OnlyOf
  <2> QED
    BY <2>1, <2>2, MirrorStays DEF Mirrors
<1>7. CASE ReadForFailure(c)
  <2>1. /\ UNCHANGED <<prdVars, jobVars, contribution, evaluation, scheduler>> /\ Read(c)
    BY <1>7 DEF ReadForFailure
  <2>2. OnlyOf(c) /\ (Latest(c) /\ phase = "completed" => saw'[c] # "outdated")
    BY <1>1, <2>1, ReadIsTyped DEF OnlyOf, jobVars
  <2> QED
    BY <2>1, <2>2, MirrorStays DEF Mirrors
<1>8. CASE RecordFailure(c)
  <2>1. /\ saw'[c] = "nothing"
        /\ \A d \in Completions \ {c} : scheduler'[d] = scheduler[d] /\ saw'[d] = saw[d]
        /\ UNCHANGED <<prdVars, jobVars>>
    BY <1>1, <1>8 DEF RecordFailure, At, Goto, TypeOK
  <2>2. CASE Exists(c)
    <3>1. ~Unlocked(c) /\ Set(c, "failed") /\ SyncLate(c, "failed")
      BY <1>8, <2>2 DEF RecordFailure
    <3>2. /\ evaluation'[c] = [evaluation[c] EXCEPT !.status = "failed"]
          /\ \A d \in Completions \ {c} : evaluation'[d] = evaluation[d]
      BY <1>1, <3>1, StatusIsTyped
    <3>3. evaluation'[c].version = evaluation[c].version /\ evaluation'[c].status = "failed"
      BY <1>1, <3>2 DEF Evaluation
    <3>4. OnlyOf(c)
      BY <2>1, <3>2 DEF OnlyOf, jobVars
    <3>5. Mirrors(c)
      BY <1>1, <2>1, <2>2, <3>1, <3>3, LateMirrors
    <3> QED
      BY <3>3, <3>4, <3>5, MirrorStays
  <2>3. CASE ~Exists(c)
    <3>1. /\ evaluation' = [evaluation EXCEPT ![c] =
                              [NoEvaluation EXCEPT !.version = NextVersion, !.status = "failed"]]
          /\ contribution' = IF phase = "completed" THEN "failed" ELSE contribution
      BY <1>8, <2>3 DEF RecordFailure
    <3>2. /\ evaluation'[c].version = NextVersion /\ evaluation'[c].status = "failed"
          /\ \A d \in Completions \ {c} : evaluation'[d] = evaluation[d]
      BY <1>1, <3>1 DEF TypeOK, NoEvaluation
    <3>3. OnlyOf(c)
      BY <2>1, <3>2 DEF OnlyOf, jobVars
    <3> QED
      BY <2>1, <2>3, <3>1, <3>2, <3>3, MirrorTurns
  <2> QED
    BY <2>2, <2>3
<1> QED
  BY <1>2, <1>3, <1>4, <1>5, <1>6, <1>7, <1>8 DEF Schedule

(* A job that ends shows as its evaluation.                                *)
LEMMA EndMirrors ==
  ASSUME ContributionInv, ReadersInv, NEW c \in Completions, Exists(c),
         NEW s \in {"pending", "succeeded", "failed"},
         Set(c, s), Sync(c, s), UNCHANGED <<prdVars, scheduler, saw>>,
         \A d \in Completions \ {c} : job'[d] = job[d]
  PROVE  ReadersInv' /\ Shows
<1>1. TypeOK /\ evaluation[c] \in Evaluation
  BY DEF ContributionInv, TypeOK
<1>2. /\ evaluation'[c] = [evaluation[c] EXCEPT !.status = s]
      /\ \A d \in Completions \ {c} : evaluation'[d] = evaluation[d]
  BY <1>1, StatusIsTyped
<1>3. evaluation'[c].version = evaluation[c].version /\ evaluation'[c].status = s
  BY <1>1, <1>2 DEF Evaluation
<1>4. OnlyOf(c)
  BY <1>2 DEF OnlyOf
<1>5. Mirrors(c)
  BY <1>3 DEF Mirrors, Sync
<1> QED
  BY <1>3, <1>4, <1>5, MirrorStays

(* A step of jobs, users or the trash that no evaluation shows.            *)
LEMMA NothingMirrored ==
  ASSUME ReadersInv, UNCHANGED <<phase, cycle, contribution, evaluation>>,
         \A d \in Completions :
            saw'[d] = "outdated" => saw[d] = "outdated" \/ ~(Latest(d) /\ phase = "completed")
  PROVE  ReadersInv' /\ Shows
<1>1. \A d \in Completions : (Exists(d)' <=> Exists(d)) /\ (Latest(d)' <=> Latest(d))
  BY NewestStays
<1>2. Evaluated' <=> Evaluated
  BY <1>1 DEF Evaluated
<1>3. ReadersInv'
  BY <1>1, <1>2 DEF ReadersInv
<1>4. (ShowsNewest => ShowsNewest') /\ NewestStatusStays
  BY <1>1 DEF ShowsNewest, NewestStatusStays
<1> QED
  BY <1>3, <1>4 DEF Shows

LEMMA WorkMirrors ==
  ASSUME ContributionInv, ReadersInv, NEW c \in Completions, Work(c)
  PROVE  ReadersInv' /\ Shows
<1>1. TypeOK /\ EvaluationOK(c)
  BY DEF ContributionInv
<1>0. evaluation[c].linked => Exists(c)
  BY <1>1 DEF EvaluationOK
<1>2. CASE TryJob(c)
  BY <1>2, NothingMirrored DEF TryJob, prdVars
<1>3. CASE DeliverJob(c)
  <2>1. evaluation[c].status # "succeeded"
    <3>1. job[c] = "pending" /\ evaluation[c].linked
      BY <1>3 DEF DeliverJob, Ai!Deliver
    <3> QED
      BY <1>1, <3>1 DEF EvaluationOK
  <2>2. \A d \in Completions \ {c} : job'[d] = job[d]
    BY <1>1, <1>3 DEF DeliverJob, Ai!Deliver, TypeOK
  <2>3. Set(c, "succeeded") /\ Sync(c, "succeeded") /\ Exists(c)
    BY <1>0, <1>3, <2>1 DEF DeliverJob
  <2> QED
    BY <1>3, <2>2, <2>3, EndMirrors DEF DeliverJob
<1>4. CASE FailJob(c) \/ WorkerConfirmsStop(c)
  <2>1. /\ MarkFailed(c) /\ UNCHANGED <<prdVars, scheduler, saw>>
        /\ \A d \in Completions \ {c} : job'[d] = job[d]
    BY <1>1, <1>4 DEF FailJob, WorkerConfirmsStop, Ai!Fail, Ai!Stop, TypeOK
  <2>2. CASE evaluation[c].linked
    BY <1>0, <2>1, <2>2, EndMirrors DEF MarkFailed
  <2>3. CASE ~evaluation[c].linked
    BY <2>1, <2>3, NothingMirrored DEF MarkFailed, prdVars
  <2> QED
    BY <2>2, <2>3
<1> QED
  BY <1>2, <1>3, <1>4 DEF Work

LEMMA AskMirrors ==
  ASSUME ContributionInv, ReadersInv, NEW c \in Completions, Ask(c)
  PROVE  ReadersInv' /\ Shows
<1>1. TypeOK /\ evaluation[c] \in Evaluation /\ EvaluationOK(c)
  BY DEF ContributionInv, TypeOK
<1>2. CASE CancelJob(c) \/ RetryJob(c)
  BY <1>2, NothingMirrored DEF CancelJob, RetryJob, prdVars
<1>3. CASE BeginRetry(c) \/ AbortRetry(c)
  <2>1. \A d \in Completions :
          saw'[d] = "outdated" => saw[d] = "outdated" \/ ~(Latest(d) /\ phase = "completed")
    BY <1>1, <1>3, ReadIsTyped DEF BeginRetry, AbortRetry, TypeOK
  <2> QED
    BY <1>3, <2>1, NothingMirrored DEF BeginRetry, AbortRetry, prdVars
<1>4. CASE CommitRetry(c)
  <2>1. /\ evaluation'[c].version = evaluation[c].version /\ evaluation'[c].status = "pending"
        /\ \A d \in Completions \ {c} : evaluation'[d] = evaluation[d]
    BY <1>1, <1>4 DEF CommitRetry, TypeOK, Evaluation
  <2>2. \A d \in Completions \ {c} : job'[d] = job[d]
    BY <1>1, <1>4 DEF CommitRetry, Ai!Submit, TypeOK, jobVars
  <2>3. /\ UNCHANGED <<prdVars, scheduler>> /\ saw'[c] = "nothing"
        /\ \A d \in Completions \ {c} : saw'[d] = saw[d]
    BY <1>1, <1>4 DEF CommitRetry, TypeOK
  <2>4. OnlyOf(c)
    BY <2>1, <2>2, <2>3 DEF OnlyOf
  <2>5. Exists(c) /\ ~Unlocked(c) /\ SyncLate(c, "pending")
    BY <1>1, <1>4 DEF CommitRetry, Unlocked, EvaluationOK
  <2>6. Mirrors(c)
    BY <1>1, <2>1, <2>3, <2>5, LateMirrors
  <2> QED
    BY <2>1, <2>4, <2>6, MirrorStays
<1> QED
  BY <1>2, <1>3, <1>4 DEF Ask

LEMMA MirrorIsKept ==
  ASSUME ContributionInv, ReadersInv, [Next]_vars
  PROVE  ReadersInv' /\ (Shows \/ UNCHANGED vars)
<1>1. TypeOK
  BY DEF ContributionInv
<1>2. CASE CompletePrd
  <2>1. PICK c \in Completions : c = cycle + 1
    BY <1>2 DEF CompletePrd
  <2>2. cycle' = c /\ evaluation' = evaluation /\ scheduler[c] = "none"
    BY <1>1, <1>2, <2>1, CompletionsAssumption
    DEF CompletePrd, Prd!Complete, TypeOK, Completions, ContributionInv, SchedulersAreTimely
  <2>3. ~Exists(c)
    BY <2>2 DEF ContributionInv, EvaluationOK
  <2>4. ~Evaluated'
    BY <2>2, <2>3 DEF Evaluated, Exists
  <2> QED
    BY <2>4 DEF Shows, ShowsNewest, ReadersInv, Evaluated
<1>3. CASE phase' # "completed"
  BY <1>3 DEF Shows, ShowsNewest, ReadersInv
<1>4. CASE ReopenPrd \/ PurgePrd
  BY <1>3, <1>4 DEF ReopenPrd, PurgePrd, Prd!Reopen, Prd!Purge
<1>5. CASE TrashPrd \/ RestorePrd
  BY <1>5, NothingMirrored DEF TrashPrd, RestorePrd, Prd!Trash, Prd!Restore
<1>6. ASSUME NEW c \in Completions, Schedule(c) \/ Work(c) \/ Ask(c)
      PROVE  ReadersInv' /\ Shows
  BY <1>6, ScheduleMirrors, WorkMirrors, AskMirrors
<1>7. CASE UNCHANGED vars
  BY <1>7, NothingMirrored DEF vars, prdVars
<1> QED
  BY <1>2, <1>4, <1>5, <1>6, <1>7 DEF Next

(* However schedulers, workers and administrators overtake each other, a   *)
(* completed PRD shows the status of its newest evaluation, unless a sync  *)
(* that read the PRD without its lock (_sync_current_prd_status) writes    *)
(* after it has been overtaken; then it does so again with the next change *)
(* of the newest evaluation.                                               *)
THEOREM ContributionsFollowNewest == Spec => ContributionFollowsNewest
<1>1. Init => ReadersInv
  <2>1. SUFFICES ASSUME Init PROVE ReadersInv
    OBVIOUS
  <2>2. phase = "open"
    BY <2>1 DEF Init, Prd!Init
  <2> QED
    BY <2>2 DEF ReadersInv
<1>2. ContributionInv /\ ReadersInv /\ [Next]_vars => ReadersInv'
  BY MirrorIsKept
<1>3. ContributionInv /\ ReadersInv /\ [Next]_vars
        => [ShowsNewest' \/ OvertakenSync \/ (~ShowsNewest /\ NewestStatusStays)]_vars
  BY MirrorIsKept DEF Shows
<1> QED
  BY <1>1, <1>2, <1>3, InvariantHolds, PTL DEF Spec, ContributionFollowsNewest

-----------------------------------------------------------------------------
(***************************************************************************)
(* Requests to the AI.                                                     *)
(***************************************************************************)
Asks(t, feature) == request[t] # Nothing /\ request[t].feature = feature

(* Of the requests for an analysis each has a board to itself, on which    *)
(* nothing is being analysed that the user has not tried again himself.    *)
AnalysesAreApart ==
    \A t \in Tabs : Asks(t, "analysis") =>
        /\ \A u \in Tabs : LockedBy(u, request[t].about) => u = t
        /\ \A i \in JobsOf("analysis") :
             jobs[i].about = request[t].about /\ IsActive(i) => jobs[i].retried

(* A conversation and what it says are of the past.                        *)
TurnsAreKnown ==
    /\ \A i \in JobsOf("chat") : jobs[i].about \in 1..made
    /\ conv # Nothing =>
         /\ conv.id \in 1..made
         /\ \A k \in DOMAIN conv.messages : conv.messages[k].job \in JobsOf("chat")

TextsAreOld ==
    /\ \A i \in DOMAIN jobs : jobs[i].text <= text
    /\ \A t \in Tabs : request[t] # Nothing => request[t].text <= text

(* Diagnoses, one per persona.                                             *)
Complete(from) ==
    /\ from \subseteq JobsOf("evaluation")
    /\ \A i \in from : jobs[i].status = "succeeded"
    /\ {jobs[i].about : i \in from} = Personas
    /\ Cardinality(from) = Cardinality(Personas)

(* A diagnosis that was found to be current is of the newest text of all.  *)
SynthesesAreReady ==
    /\ \A t \in Tabs : Asks(t, "synthesis") =>
         /\ Complete(request[t].from)
         /\ \E i \in request[t].from : request[t].text = jobs[i].text
         /\ \A i \in request[t].from, j \in request[t].from \ request[t].todo :
              jobs[i].text <= jobs[j].text
    /\ \A s \in JobsOf("synthesis") : Complete(jobs[s].from)

(* Only a synthesis has diagnoses to compare.                              *)
SynthesesCompare ==
    \A t \in Tabs : request[t] # Nothing =>
        request[t].feature = "synthesis" \/ request[t].todo = {}

RequestsInv ==
    /\ RequestsTypeOK
    /\ AnalysesAreApart /\ OneAnalysisAtATime
    /\ TurnsAreKnown /\ TurnsAreComplete
    /\ TextsAreOld
    /\ SynthesesCompare
    /\ SynthesesAreReady /\ SynthesisIsOfOneText
-----------------------------------------------------------------------------
(* What a step does to the jobs.                                           *)

(* A job is filed at the end; a job changes in its status and marks only.  *)
Filed(new) ==
    /\ DOMAIN jobs' = DOMAIN jobs \cup {Len(jobs) + 1}
    /\ Len(jobs) + 1 \notin DOMAIN jobs
    /\ jobs'[Len(jobs) + 1] = new
    /\ \A i \in DOMAIN jobs : jobs'[i] = jobs[i]

SameRequest(old, new) ==
    /\ new.feature = old.feature /\ new.key = old.key /\ new.about = old.about
    /\ new.text = old.text /\ new.from = old.from

GoesOn(old, new) ==
    /\ SameRequest(old, new)
    /\ old.status = "succeeded" => new.status = "succeeded"
    /\ old.retried => new.retried
    /\ new.status = "active" => old.status = "active" \/ new.retried

(* The jobs so far are still there.                                        *)
JobsGoOn ==
    /\ DOMAIN jobs \subseteq DOMAIN jobs'
    /\ \A i \in DOMAIN jobs : GoesOn(jobs[i], jobs'[i])

LEMMA JobsAreNumbered ==
  ASSUME RequestsTypeOK
  PROVE  /\ Len(jobs) \in Nat /\ Len(jobs) <= MaxJobs /\ DOMAIN jobs = 1..Len(jobs)
         /\ DOMAIN jobs \subseteq JobIds
         /\ \A i \in DOMAIN jobs : jobs[i] \in Job
<1>1. jobs \in Seq(Job) /\ Len(jobs) <= MaxJobs /\ MaxJobs \in Nat
  BY BoundAssumption DEF RequestsTypeOK
<1>2. Len(jobs) \in Nat /\ DOMAIN jobs = 1..Len(jobs)
  BY <1>1, LenProperties
<1>3. \A i \in DOMAIN jobs : jobs[i] \in Job
  BY <1>1, <1>2, ElementOfSeq
<1>4. DOMAIN jobs \subseteq JobIds
  BY <1>1, <1>2 DEF JobIds
<1> QED
  BY <1>1, <1>2, <1>3, <1>4

LEMMA JobIsFiled ==
  ASSUME RequestsTypeOK, NEW new \in Job, jobs' = Append(jobs, new),
         Len(jobs) < MaxJobs, ByKey(new.feature, new.key) = {}
  PROVE  /\ jobs' \in Seq(Job) /\ Len(jobs') <= MaxJobs /\ KeysAreUnique'
         /\ Filed(new) /\ JobsGoOn
<1>1. jobs \in Seq(Job) /\ Len(jobs) \in Nat /\ DOMAIN jobs = 1..Len(jobs) /\ MaxJobs \in Nat
  BY JobsAreNumbered, BoundAssumption DEF RequestsTypeOK
<1>2. /\ jobs' \in Seq(Job) /\ Len(jobs') = Len(jobs) + 1
      /\ \A i \in 1..Len(jobs) : jobs'[i] = jobs[i]
      /\ jobs'[Len(jobs) + 1] = new
  BY <1>1, AppendProperties
<1>3. DOMAIN jobs' = 1..(Len(jobs) + 1)
  BY <1>2, LenProperties
<1>4. Filed(new)
  BY <1>1, <1>2, <1>3 DEF Filed
<1>5. KeysAreUnique'
  <2>1. \A i \in DOMAIN jobs : ~(jobs[i].feature = new.feature /\ jobs[i].key = new.key)
    BY DEF ByKey, JobsOf
  <2> QED
    BY <1>4, <2>1 DEF Filed, KeysAreUnique, RequestsTypeOK
<1>6. JobsGoOn
  BY <1>4 DEF Filed, JobsGoOn, GoesOn, SameRequest
<1> QED
  BY <1>1, <1>2, <1>4, <1>5, <1>6

LEMMA JobIsEdited ==
  ASSUME RequestsTypeOK, NEW i \in DOMAIN jobs, NEW new \in Job, SameRequest(jobs[i], new),
         jobs' = [jobs EXCEPT ![i] = new]
  PROVE  /\ jobs' \in Seq(Job) /\ Len(jobs') <= MaxJobs /\ KeysAreUnique'
         /\ DOMAIN jobs' = DOMAIN jobs /\ jobs'[i] = new
         /\ \A j \in DOMAIN jobs \ {i} : jobs'[j] = jobs[j]
<1>1. jobs \in Seq(Job) /\ Len(jobs) \in Nat /\ DOMAIN jobs = 1..Len(jobs) /\ i \in 1..Len(jobs)
  BY JobsAreNumbered DEF RequestsTypeOK
<1>2. /\ jobs' \in Seq(Job) /\ Len(jobs') = Len(jobs)
      /\ \A j \in 1..Len(jobs) : jobs'[j] = IF j = i THEN new ELSE jobs[j]
  BY <1>1, ExceptSeq
<1>3. DOMAIN jobs' = DOMAIN jobs
  BY <1>1, <1>2, LenProperties
<1>4. \A j \in DOMAIN jobs : SameRequest(jobs[j], jobs'[j])
  BY <1>1, <1>2 DEF SameRequest
<1>5. KeysAreUnique'
  BY <1>3, <1>4 DEF KeysAreUnique, SameRequest, RequestsTypeOK
<1> QED
  BY <1>1, <1>2, <1>3, <1>5 DEF RequestsTypeOK

(* The newest of some jobs is one of them.                                 *)
LEMMA NewestIsThere ==
  ASSUME RequestsTypeOK, NEW S, S \subseteq DOMAIN jobs, S # {}
  PROVE  Newest(S) \in S
<1>1. PICK m \in Nat : \A i \in S : i \in 1..m
  BY JobsAreNumbered
<1> DEFINE T == {m - i : i \in S}
<1>2. \A i \in S : m - i \in Nat
  <2>1. \A i \in 1..m : m - i \in Nat
    OBVIOUS
  <2> QED
    BY <1>1, <2>1
<1> T \subseteq Nat /\ T # {}
  BY <1>2
<1>3. PICK x \in T : \A y \in T : ~(<<y, x>> \in OpToRel(<, Nat))
  <2> HIDE DEF T
  <2> QED
    BY NatLessThanWellFounded, WFMin
<1>4. PICK i \in S : x = m - i
  OBVIOUS
<1>5. \A j \in S : j <= i
  <2> SUFFICES ASSUME NEW j \in S PROVE j <= i
    OBVIOUS
  <2>1. i \in 1..m /\ j \in 1..m /\ m - j \in T
    BY <1>1
  <2>2. m - j \in Nat /\ m - i \in Nat
    BY <1>2
  <2>3. ~(m - j < m - i)
    <3> HIDE DEF T
    <3> QED
      BY <1>3, <1>4, <2>1, <2>2 DEF OpToRel
  <2> QED
    BY <1>1, <2>1, <2>3
<1> QED
  BY <1>5 DEF Newest
-----------------------------------------------------------------------------
(* Analyses.                                                               *)

AnalysesOK == AnalysesAreApart /\ OneAnalysisAtATime

(* No request for an analysis comes, and none is answered by a new job.    *)
LEMMA AnalysesGoOn ==
  ASSUME AnalysesOK, JobsGoOn,
         \A i \in DOMAIN jobs' \ DOMAIN jobs : jobs'[i].feature # "analysis",
         \A t \in Tabs : Asks(t, "analysis")' => request'[t] = request[t]
  PROVE  AnalysesOK'
<1>1. \A i \in JobsOf("analysis")' :
        /\ i \in JobsOf("analysis") /\ jobs'[i].about = jobs[i].about
        /\ IsActive(i)' => IsActive(i) \/ jobs'[i].retried
        /\ jobs[i].retried => jobs'[i].retried
  BY DEF JobsOf, JobsGoOn, GoesOn, SameRequest, IsActive
<1>2. OneAnalysisAtATime'
  BY <1>1 DEF AnalysesOK, OneAnalysisAtATime
<1>3. ASSUME NEW t \in Tabs, Asks(t, "analysis")'
      PROVE  /\ \A u \in Tabs : LockedBy(u, request[t].about)' => u = t
             /\ \A i \in JobsOf("analysis")' :
                  jobs'[i].about = request'[t].about /\ IsActive(i)' => jobs'[i].retried
  <2>1. request'[t] = request[t] /\ Asks(t, "analysis")
    BY <1>3 DEF Asks
  <2>2. ASSUME NEW u \in Tabs, LockedBy(u, request[t].about)'
        PROVE  u = t
    <3>1. request'[u] = request[u]
      BY <2>2 DEF LockedBy, Asks
    <3> QED
      BY <2>1, <2>2, <3>1 DEF LockedBy, AnalysesOK, AnalysesAreApart
  <2>3. \A i \in JobsOf("analysis")' :
          jobs'[i].about = request'[t].about /\ IsActive(i)' => jobs'[i].retried
    BY <1>1, <2>1 DEF AnalysesOK, AnalysesAreApart
  <2> QED
    BY <2>2, <2>3
<1> QED
  BY <1>2, <1>3 DEF AnalysesOK, AnalysesAreApart

LEMMA AnalysisIsAsked ==
  ASSUME AnalysesOK, RequestsTypeOK, NEW t \in Tabs, NEW key, NEW b,
         AskAnalysis(t, key, b)
  PROVE  AnalysesOK'
<1>1. /\ request'[t].about = b /\ request'[t].feature = "analysis"
      /\ \A u \in Tabs \ {t} : request'[u] = request[u]
      /\ jobs' = jobs
  BY DEF AskAnalysis, Begin, Asking, RequestsTypeOK
<1>2. \A u \in Tabs : ~LockedBy(u, b)
  BY DEF AskAnalysis, FreeBoard
<1>3. \A i \in JobsOf("analysis") : ~IsActive(i)
  BY DEF AskAnalysis
<1>4. /\ \A u \in Tabs, v \in Tabs :
           Asks(u, "analysis")' /\ LockedBy(v, request[u].about)' => v = u
  <2> SUFFICES ASSUME NEW u \in Tabs, NEW v \in Tabs, Asks(u, "analysis")',
                      LockedBy(v, request[u].about)', u # v
               PROVE  FALSE
    OBVIOUS
  <2>1. CASE u = t
    BY <1>1, <1>2, <2>1 DEF LockedBy
  <2>2. CASE v = t
    BY <1>1, <1>2, <2>2 DEF LockedBy, Asks
  <2>3. CASE u # t /\ v # t
    BY <1>1, <2>3 DEF LockedBy, Asks, AnalysesOK, AnalysesAreApart
  <2> QED
    BY <2>1, <2>2, <2>3
<1> QED
  BY <1>1, <1>3, <1>4 DEF AnalysesOK, AnalysesAreApart, OneAnalysisAtATime, JobsOf, IsActive

LEMMA AnalysisIsFiled ==
  ASSUME AnalysesOK, RequestsTypeOK, NEW t \in Tabs, Asks(t, "analysis"),
         NEW new, Filed(new), new.feature = "analysis", new.about = request[t].about,
         request' = [request EXCEPT ![t] = Nothing]
  PROVE  AnalysesOK'
<1> DEFINE n == Len(jobs) + 1
<1>1. request'[t] = Nothing /\ \A u \in Tabs \ {t} : request'[u] = request[u]
  BY DEF RequestsTypeOK
<1>2. \A i \in JobsOf("analysis")' :
        \/ i = Len(jobs) + 1 /\ jobs'[i] = new
        \/ i \in JobsOf("analysis") /\ jobs'[i] = jobs[i]
  BY DEF Filed, JobsOf
<1>3. ASSUME NEW u \in Tabs, Asks(u, "analysis")'
      PROVE  /\ u # t /\ request'[u] = request[u] /\ request[u].about # request[t].about
             /\ \A v \in Tabs : LockedBy(v, request[u].about)' => v = u
  <2>1. u # t /\ request'[u] = request[u] /\ Asks(u, "analysis")
    BY <1>1, <1>3 DEF Asks
  <2>2. request[u].about # request[t].about
    BY <2>1 DEF AnalysesOK, AnalysesAreApart, LockedBy, Asks
  <2>3. ASSUME NEW v \in Tabs, LockedBy(v, request[u].about)' PROVE v = u
    <3>1. v # t /\ request'[v] = request[v]
      BY <1>1, <2>3 DEF LockedBy
    <3> QED
      BY <2>1, <2>3, <3>1 DEF AnalysesOK, AnalysesAreApart, LockedBy
  <2> QED
    BY <2>1, <2>2, <2>3
<1>4. AnalysesAreApart'
  BY <1>2, <1>3 DEF AnalysesOK, AnalysesAreApart, IsActive, Asks
<1>5. OneAnalysisAtATime'
  <2> SUFFICES ASSUME NEW i \in JobsOf("analysis")', NEW j \in JobsOf("analysis")', i < j,
                      IsActive(i)', IsActive(j)', jobs'[i].about = jobs'[j].about
               PROVE  jobs'[i].retried \/ jobs'[j].retried
    BY DEF OneAnalysisAtATime
  <2>1. CASE i \in JobsOf("analysis") /\ j \in JobsOf("analysis")
    BY <2>1 DEF AnalysesOK, OneAnalysisAtATime, IsActive, Filed, JobsOf
  <2>2. CASE i = Len(jobs) + 1 /\ j \in JobsOf("analysis") /\ jobs'[i] = new
    BY <2>2, <1>2 DEF AnalysesOK, AnalysesAreApart, IsActive, Filed, JobsOf
  <2>3. CASE j = Len(jobs) + 1 /\ i \in JobsOf("analysis") /\ jobs'[j] = new
    BY <2>3, <1>2 DEF AnalysesOK, AnalysesAreApart, IsActive, Filed, JobsOf
  <2>4. CASE i = Len(jobs) + 1 /\ j = Len(jobs) + 1
    BY <2>4, JobsAreNumbered
  <2> QED
    BY <1>2, <2>1, <2>2, <2>3, <2>4
<1> QED
  BY <1>4, <1>5 DEF AnalysesOK
-----------------------------------------------------------------------------
(* Conversations.                                                          *)

TurnsOK == TurnsAreKnown /\ TurnsAreComplete

(* Places, TurnsAreKnown and TurnsAreComplete for any conversation.        *)
Turns(c, role, i) == {k \in DOMAIN c.messages : c.messages[k] = [role |-> role, job |-> i]}

TurnsIn(c) ==
    /\ \A k \in DOMAIN c.messages : c.messages[k].job \in JobsOf("chat")
    /\ \A i \in JobsOf("chat") :
         IF jobs[i].about # c.id THEN Turns(c, "user", i) = {} /\ Turns(c, "assistant", i) = {}
         ELSE /\ Cardinality(Turns(c, "user", i)) = 1
              /\ Cardinality(Turns(c, "assistant", i)) =
                    (IF jobs[i].status = "succeeded" THEN 1 ELSE 0)
              /\ \A q \in Turns(c, "user", i), a \in Turns(c, "assistant", i) : q < a

LEMMA TurnsMean ==
  TurnsOK <=>
    /\ \A i \in JobsOf("chat") : jobs[i].about \in 1..made
    /\ conv # Nothing => conv.id \in 1..made /\ TurnsIn(conv)
BY DEF TurnsOK, TurnsAreKnown, TurnsAreComplete, TurnsIn, Turns, Places

LEMMA TurnsWillMean ==
  ASSUME NEW c, conv' = c, \A i \in JobsOf("chat")' : jobs'[i].about \in 1..made',
         conv' # Nothing => c.id \in 1..made' /\ TurnsIn(c)'
  PROVE  TurnsOK'
<1>1. \A role, i : Places(role, i)' = Turns(c, role, i)
  BY DEF Places, Turns
<1>2. \A role, i : Turns(c, role, i)' = Turns(c, role, i)
  BY DEF Turns
<1> QED
  BY <1>1, <1>2 DEF TurnsOK, TurnsAreKnown, TurnsAreComplete, TurnsIn

LEMMA MessagesAreNumbered ==
  ASSUME NEW c \in Conversation
  PROVE  /\ c.id \in Conversations
         /\ c.messages \in Seq([role : {"user", "assistant"}, job : JobIds])
         /\ Len(c.messages) \in Nat /\ DOMAIN c.messages = 1..Len(c.messages)
         /\ \A role, i : IsFiniteSet(Turns(c, role, i))
<1>1. c.id \in Conversations /\ c.messages \in Seq([role : {"user", "assistant"}, job : JobIds])
  BY DEF Conversation
<1>2. Len(c.messages) \in Nat /\ DOMAIN c.messages = 1..Len(c.messages)
  BY <1>1, LenProperties
<1>3. IsFiniteSet(DOMAIN c.messages)
  BY <1>2, FS_Interval
<1>4. \A role, i : Turns(c, role, i) \in SUBSET DOMAIN c.messages
  BY DEF Turns
<1>5. \A role, i : IsFiniteSet(Turns(c, role, i))
  BY <1>3, <1>4, FS_Subset
<1> QED
  BY <1>1, <1>2, <1>5

LEMMA MessageIsSaid ==
  ASSUME NEW c \in Conversation, NEW role \in {"user", "assistant"}, NEW i \in JobIds,
         NEW d, d = Said(c, role, i)
  PROVE  LET n == Len(c.messages) + 1 IN
         /\ d \in Conversation /\ d.id = c.id
         /\ DOMAIN d.messages = DOMAIN c.messages \cup {n}
         /\ d.messages[n] = [role |-> role, job |-> i]
         /\ \A k \in DOMAIN c.messages : d.messages[k] = c.messages[k] /\ k < n
         /\ Turns(d, role, i) = Turns(c, role, i) \cup {n}
         /\ \A r, j : r # role \/ j # i => Turns(d, r, j) = Turns(c, r, j)
<1> DEFINE n == Len(c.messages) + 1
           m == [role |-> role, job |-> i]
           M == [role : {"user", "assistant"}, job : JobIds]
<1>1. c.messages \in Seq(M) /\ n - 1 \in Nat /\ DOMAIN c.messages = 1..(n - 1) /\ m \in M
  <2>1. m \in M
    OBVIOUS
  <2>2. /\ c.messages \in Seq(M)
        /\ Len(c.messages) \in Nat /\ DOMAIN c.messages = 1..Len(c.messages)
    BY MessagesAreNumbered
  <2> QED
    BY <2>1, <2>2
<1>2. /\ d = [c EXCEPT !.messages = Append(c.messages, m), !.expired = FALSE]
  BY DEF Said
<1>3. /\ Append(c.messages, m) \in Seq(M)
      /\ Len(Append(c.messages, m)) = n
      /\ \A k \in 1..(n - 1) : Append(c.messages, m)[k] = c.messages[k]
      /\ Append(c.messages, m)[n] = m
  <2> HIDE DEF M, m
  <2> QED
    BY <1>1, AppendProperties
<1>4. DOMAIN Append(c.messages, m) = 1..n
  <2> HIDE DEF M, m
  <2> QED
    BY <1>3, LenProperties
<1>5. d.messages = Append(c.messages, m) /\ d.id = c.id
  BY <1>2 DEF Conversation
<1>6. d \in Conversation
  <2> HIDE DEF m
  <2> QED
    BY <1>2, <1>3 DEF Conversation
<1>7. DOMAIN d.messages = DOMAIN c.messages \cup {n} /\ n \notin DOMAIN c.messages
  BY <1>1, <1>4, <1>5
<1>8. d.messages[n] = m /\ \A k \in DOMAIN c.messages : d.messages[k] = c.messages[k] /\ k < n
  BY <1>1, <1>3, <1>5
<1>9. Turns(d, role, i) = Turns(c, role, i) \cup {n}
  BY <1>7, <1>8 DEF Turns
<1>10. \A r, j : r # role \/ j # i => Turns(d, r, j) = Turns(c, r, j)
  <2>1. \A r, j : r # role \/ j # i => m # [role |-> r, job |-> j]
    OBVIOUS
  <2> HIDE DEF m
  <2> QED
    BY <1>7, <1>8, <2>1 DEF Turns
<1> QED
  BY <1>5, <1>6, <1>7, <1>8, <1>9, <1>10

(* Nothing happens in a conversation but that it is marked or deleted.     *)
LEMMA TurnsGoOn ==
  ASSUME TurnsOK, JobsGoOn, made' = made,
         \A i \in DOMAIN jobs' \ DOMAIN jobs : jobs'[i].feature # "chat",
         \A i \in JobsOf("chat") : jobs'[i].status = "succeeded" <=> jobs[i].status = "succeeded",
         \/ conv' = Nothing
         \/ conv # Nothing /\ conv'.id = conv.id /\ conv'.messages = conv.messages
  PROVE  TurnsOK'
<1>1. \A i : i \in JobsOf("chat")' <=> i \in JobsOf("chat")
  BY DEF JobsOf, JobsGoOn, GoesOn, SameRequest
<1>2. \A i \in JobsOf("chat") : jobs'[i].about = jobs[i].about
  BY DEF JobsOf, JobsGoOn, GoesOn, SameRequest
<1>3. \A i \in JobsOf("chat")' : jobs'[i].about \in 1..made'
  BY <1>1, <1>2, TurnsMean
<1>4. PICK d : d = conv'
  OBVIOUS
<1>5. ASSUME d # Nothing
      PROVE  d.id \in 1..made' /\ TurnsIn(d)'
  <2>1. conv # Nothing /\ d.id = conv.id /\ d.messages = conv.messages
    BY <1>4, <1>5
  <2>2. conv.id \in 1..made /\ TurnsIn(conv)
    BY <2>1, TurnsMean
  <2>3. \A role, i : Turns(d, role, i)' = Turns(conv, role, i)
    BY <2>1 DEF Turns
  <2>4. \A i \in JobsOf("chat") : jobs'[i].status = "succeeded" <=> jobs[i].status = "succeeded"
    OBVIOUS
  <2> QED
    BY <1>1, <1>2, <2>1, <2>2, <2>3, <2>4 DEF TurnsIn
<1> QED
  BY <1>3, <1>4, <1>5, TurnsWillMean

LEMMA AnswerIsSaid ==
  ASSUME RequestsTypeOK, TurnsOK, NEW i \in JobsOf("chat"), Succeed(i)
  PROVE  TurnsOK' /\ conv' \in Conversation
<1>1. /\ conv \in Conversation /\ conv.id = jobs[i].about /\ i \in JobIds
      /\ jobs[i] \in Job /\ jobs[i].feature = "chat" /\ jobs[i].status = "active"
  BY JobsAreNumbered DEF Succeed, Heard, JobsOf, IsActive, RequestsTypeOK
<1>2. conv # Nothing
  BY <1>1 DEF Succeed, Heard
<1>3. TurnsIn(conv) /\ conv.id \in 1..made
  BY <1>2, TurnsMean
<1>4. Turns(conv, "assistant", i) = {}
  <2>1. IsFiniteSet(Turns(conv, "assistant", i)) /\ Cardinality(Turns(conv, "assistant", i)) = 0
    BY <1>1, <1>3, MessagesAreNumbered DEF TurnsIn
  <2> QED
    BY <2>1, FS_EmptySet
<1>5. PICK d : d = Said(conv, "assistant", i)
  OBVIOUS
<1>6. conv' = d
  <2>1. ~Answered(i)
    BY <1>4 DEF Answered, Turns
  <2> QED
    BY <1>1, <1>5, <2>1 DEF Succeed
<1>7. PICK c : c = conv
  OBVIOUS
<1>8. PICK n : n = Len(conv.messages) + 1
  OBVIOUS
<1>9. /\ d \in Conversation /\ d.id = conv.id
      /\ DOMAIN d.messages = DOMAIN conv.messages \cup {n}
      /\ d.messages[n] = [role |-> "assistant", job |-> i]
      /\ \A k \in DOMAIN conv.messages : d.messages[k] = conv.messages[k] /\ k < n
      /\ Turns(d, "assistant", i) = Turns(conv, "assistant", i) \cup {n}
      /\ \A r, j : r # "assistant" \/ j # i => Turns(d, r, j) = Turns(conv, r, j)
  BY <1>1, <1>5, <1>8, MessageIsSaid
<1>10. /\ DOMAIN jobs' = DOMAIN jobs /\ jobs'[i].status = "succeeded"
       /\ jobs'[i].feature = jobs[i].feature /\ jobs'[i].about = jobs[i].about
       /\ \A j \in DOMAIN jobs \ {i} : jobs'[j] = jobs[j]
  BY <1>1, JobsAreNumbered DEF Succeed, Job, JobsOf
<1>11. \A j : j \in JobsOf("chat")' <=> j \in JobsOf("chat")
  BY <1>10 DEF JobsOf
<1>12. \A j \in JobsOf("chat") : jobs'[j].about = jobs[j].about
  BY <1>10 DEF JobsOf
<1>13. TurnsIn(d)'
  <2>1. \A k \in DOMAIN d.messages : d.messages[k].job \in JobsOf("chat")'
    BY <1>3, <1>9, <1>11 DEF TurnsIn
  <2>2. ASSUME NEW j \in JobsOf("chat"), j # i
        PROVE  /\ jobs'[j] = jobs[j]
               /\ \A r : Turns(d, r, j) = Turns(conv, r, j)
    BY <1>9, <1>10, <2>2 DEF JobsOf
  <2>3. /\ Cardinality(Turns(d, "user", i)) = 1
        /\ Turns(d, "assistant", i) = {n}
        /\ Cardinality(Turns(d, "assistant", i)) = 1
        /\ \A q \in Turns(d, "user", i) : q < n
    <3>1. Turns(d, "assistant", i) = {n}
      BY <1>4, <1>9
    <3>2. Turns(d, "user", i) = Turns(conv, "user", i)
      BY <1>9
    <3>3. Cardinality(Turns(conv, "user", i)) = 1
      BY <1>1, <1>3 DEF TurnsIn
    <3>4. \A q \in Turns(conv, "user", i) : q < n
      BY <1>9 DEF Turns
    <3> QED
      BY <3>1, <3>2, <3>3, <3>4, FS_Singleton
  <2>4. jobs'[i].about = d.id
    BY <1>1, <1>9, <1>10
  <2>5. \A role, j : Turns(d, role, j)' = Turns(d, role, j)
    BY DEF Turns
  <2>6. ASSUME NEW j \in JobsOf("chat")
        PROVE  IF jobs'[j].about # d.id THEN Turns(d, "user", j) = {} /\ Turns(d, "assistant", j) = {}
               ELSE /\ Cardinality(Turns(d, "user", j)) = 1
                    /\ Cardinality(Turns(d, "assistant", j)) =
                          (IF jobs'[j].status = "succeeded" THEN 1 ELSE 0)
                    /\ \A q \in Turns(d, "user", j), a \in Turns(d, "assistant", j) : q < a
    <3>1. CASE j = i
      BY <1>10, <2>3, <2>4, <3>1
    <3>2. CASE j # i
      BY <1>3, <1>9, <2>2, <3>2 DEF TurnsIn
    <3> QED
      BY <3>1, <3>2
  <2> QED
    BY <1>11, <2>1, <2>6 DEF TurnsIn
<1>14. made' = made
  BY DEF Succeed
<1>15. \A j \in JobsOf("chat")' : jobs'[j].about \in 1..made'
  BY <1>11, <1>12, <1>14, TurnsMean
<1> QED
  BY <1>3, <1>6, <1>9, <1>13, <1>14, <1>15, TurnsWillMean
LEMMA ConversationIsOpened ==
  ASSUME RequestsTypeOK, TurnsOK, NEW seen, Usable(seen), NEW c, c = Open(seen),
         NEW m, m = IF c = conv THEN made ELSE c.id
  PROVE  /\ c \in Conversation /\ TurnsIn(c)
         /\ m \in 0..MaxConversations /\ made <= m /\ c.id \in 1..m
<1>1. \A d \in Conversation : d # Nothing
  BY DEF Conversation, Nothing
<1>2. made \in 0..MaxConversations /\ MaxConversations \in Nat
  BY BoundAssumption DEF RequestsTypeOK
<1>3. \/ c = conv /\ conv # Nothing
      \/ made < MaxConversations /\ c = [id |-> made + 1, expired |-> FALSE, messages |-> <<>>]
  BY DEF Usable, Open, Kept
<1>4. CASE c = conv /\ conv # Nothing
  BY <1>2, <1>4, TurnsMean DEF RequestsTypeOK
<1>5. CASE made < MaxConversations /\ c = [id |-> made + 1, expired |-> FALSE, messages |-> <<>>]
  <2>1. c \in Conversation /\ c.id = made + 1 /\ c.messages = <<>>
    <3>1. <<>> \in Seq([role : {"user", "assistant"}, job : JobIds])
      BY EmptySeq
    <3>2. made + 1 \in Conversations
      BY <1>2, <1>5 DEF Conversations
    <3> QED
      BY <1>5, <3>1, <3>2 DEF Conversation
  <2>2. c # conv
    <3>1. CASE conv = Nothing
      BY <1>1, <2>1, <3>1
    <3>2. CASE conv # Nothing
      BY <1>2, <2>1, <3>2, TurnsMean
    <3> QED
      BY <3>1, <3>2
  <2>3. m = made + 1
    BY <2>1, <2>2
  <2>4. DOMAIN c.messages = {}
    BY <2>1
  <2>5. TurnsIn(c)
    <3>1. \A role, i : Turns(c, role, i) = {}
      BY <2>4 DEF Turns
    <3>2. \A i \in JobsOf("chat") : jobs[i].about # c.id
      BY <1>2, <2>1, TurnsMean
    <3> QED
      BY <2>4, <3>1, <3>2 DEF TurnsIn
  <2> QED
    BY <1>2, <1>5, <2>1, <2>3, <2>5
<1> QED
  BY <1>3, <1>4, <1>5

LEMMA NumbersGoUp ==
  ASSUME RequestsTypeOK, TurnsOK, made <= made', made' \in 0..MaxConversations
  PROVE  \A i \in JobsOf("chat") : jobs[i].about \in 1..made'
<1>1. made \in Nat /\ made' \in Nat /\ made <= made'
  BY BoundAssumption DEF RequestsTypeOK
<1>2. \A x \in 1..made : x \in 1..made'
  BY <1>1
<1> QED
  BY <1>2, TurnsMean

(* A question is asked.                                                    *)
LEMMA QuestionIsSaid ==
  ASSUME RequestsTypeOK, NEW c \in Conversation, TurnsIn(c),
         NEW new, Filed(new), new.feature = "chat", new.about = c.id, new.status = "active",
         Len(jobs) + 1 \in JobIds, NEW d, d = Said(c, "user", Len(jobs) + 1)
  PROVE  d \in Conversation /\ TurnsIn(d)'
<1>1. PICK i : i = Len(jobs) + 1
  OBVIOUS
<1>2. PICK n : n = Len(c.messages) + 1
  OBVIOUS
<1>3. /\ d \in Conversation /\ d.id = c.id
      /\ DOMAIN d.messages = DOMAIN c.messages \cup {n}
      /\ d.messages[n] = [role |-> "user", job |-> i]
      /\ \A k \in DOMAIN c.messages : d.messages[k] = c.messages[k] /\ k < n
      /\ Turns(d, "user", i) = Turns(c, "user", i) \cup {n}
      /\ \A r, j : r # "user" \/ j # i => Turns(d, r, j) = Turns(c, r, j)
  BY <1>1, <1>2, MessageIsSaid
<1>4. \A role : Turns(c, role, i) = {}
  <2>1. i \notin JobsOf("chat")
    BY <1>1 DEF Filed, JobsOf
  <2>2. \A k \in DOMAIN c.messages : c.messages[k].job # i
    BY <2>1 DEF TurnsIn
  <2> QED
    BY <2>2 DEF Turns
<1>5. /\ jobs'[i] = new /\ i \in DOMAIN jobs' /\ i \notin DOMAIN jobs
      /\ \A j \in JobsOf("chat") : j # i /\ jobs'[j] = jobs[j] /\ j \in JobsOf("chat")'
      /\ \A j \in JobsOf("chat")' : j = i \/ j \in JobsOf("chat")
  BY <1>1 DEF Filed, JobsOf
<1>6. i \in JobsOf("chat")'
  BY <1>5 DEF JobsOf
<1>7. \A k \in DOMAIN d.messages : d.messages[k].job \in JobsOf("chat")'
  <2>1. \A k \in DOMAIN c.messages : d.messages[k].job \in JobsOf("chat")'
    BY <1>3, <1>5 DEF TurnsIn
  <2>2. d.messages[n].job = i
    BY <1>3
  <2> QED
    BY <1>3, <1>6, <2>1, <2>2
<1>8. ASSUME NEW j \in JobsOf("chat")'
      PROVE  IF jobs'[j].about # d.id THEN Turns(d, "user", j) = {} /\ Turns(d, "assistant", j) = {}
             ELSE /\ Cardinality(Turns(d, "user", j)) = 1
                  /\ Cardinality(Turns(d, "assistant", j)) =
                        (IF jobs'[j].status = "succeeded" THEN 1 ELSE 0)
                  /\ \A q \in Turns(d, "user", j), a \in Turns(d, "assistant", j) : q < a
  <2>1. CASE j = i
    <3>1. Turns(d, "user", i) = {n} /\ Turns(d, "assistant", i) = {}
      BY <1>3, <1>4
    <3>2. Cardinality({n}) = 1 /\ Cardinality({}) = 0
      BY FS_Singleton, FS_EmptySet
    <3> QED
      BY <1>3, <1>5, <2>1, <3>1, <3>2
  <2>2. CASE j # i
    <3>1. /\ j \in JobsOf("chat") /\ jobs'[j] = jobs[j]
          /\ Turns(d, "user", j) = Turns(c, "user", j)
          /\ Turns(d, "assistant", j) = Turns(c, "assistant", j)
      BY <1>3, <1>5, <2>2
    <3> QED
      BY <1>3, <3>1 DEF TurnsIn
  <2> QED
    BY <2>1, <2>2
<1>9. \A role, j : Turns(d, role, j)' = Turns(d, role, j)
  BY DEF Turns
<1> QED
  BY <1>3, <1>7, <1>8, <1>9 DEF TurnsIn

LEMMA CoachIsSent ==
  ASSUME RequestsTypeOK, TurnsOK, NEW t \in Tabs, SendToCoach(t)
  PROVE  /\ TurnsOK'
         /\ conv' \in Conversation /\ made' \in 0..MaxConversations
         /\ \/ jobs' = jobs
            \/ \E new \in Job : /\ jobs' = Append(jobs, new) /\ Len(jobs) < MaxJobs
                                /\ ByKey(new.feature, new.key) = {}
                                /\ new.feature = "chat" /\ new.text = text
<1>1. PICK r : r = request[t]
  OBVIOUS
<1>2. r \in Request /\ r.feature = "chat" /\ Usable(r.seen)
  BY <1>1 DEF SendToCoach, RequestsTypeOK
<1>3. PICK c : c = Open(r.seen)
  OBVIOUS
<1>4. made' = IF c = conv THEN made ELSE c.id
  BY <1>1, <1>3 DEF SendToCoach
<1>5. PICK m : m = made'
  OBVIOUS
<1>6. /\ c \in Conversation /\ TurnsIn(c)
      /\ m \in 0..MaxConversations /\ made <= m /\ c.id \in 1..m
  BY <1>2, <1>3, <1>4, <1>5, ConversationIsOpened
<1>7. \A i \in JobsOf("chat") : jobs[i].about \in 1..m
  BY <1>5, <1>6, NumbersGoUp
<1>8. CASE ByKey("chat", r.key) # {}
  <2>1. conv' = c /\ jobs' = jobs
    BY <1>1, <1>3, <1>8 DEF SendToCoach
  <2>2. TurnsIn(c)' /\ \A i \in JobsOf("chat")' : jobs'[i].about \in 1..made'
    <3>1. \A role, i : Turns(c, role, i)' = Turns(c, role, i)
      BY DEF Turns
    <3>2. \A i : i \in JobsOf("chat")' <=> i \in JobsOf("chat")
      BY <2>1 DEF JobsOf
    <3> QED
      BY <1>5, <1>6, <1>7, <2>1, <3>1, <3>2 DEF TurnsIn
  <2> QED
    BY <1>5, <1>6, <2>1, <2>2, TurnsWillMean
<1>9. CASE ByKey("chat", r.key) = {}
  <2>1. PICK new : new = NewJob([r EXCEPT !.about = c.id, !.text = text])
    OBVIOUS
  <2>2. /\ Len(jobs) < MaxJobs /\ jobs' = Append(jobs, new)
        /\ conv' = Said(c, "user", Len(jobs) + 1)
    BY <1>1, <1>3, <1>9, <2>1 DEF SendToCoach, MayFile
  <2>3. /\ new \in Job /\ new.feature = "chat" /\ new.key = r.key /\ new.about = c.id
        /\ new.text = text /\ new.status = "active"
    BY <1>2, <1>6, <2>1, MessagesAreNumbered DEF NewJob, Job, Request, RequestsTypeOK
  <2>4. Filed(new) /\ Len(jobs) + 1 \in JobIds
    <3>1. Len(jobs) + 1 \in JobIds
      BY <2>2, JobsAreNumbered, BoundAssumption DEF JobIds
    <3> QED
      BY <1>9, <2>2, <2>3, <3>1, JobIsFiled
  <2>5. PICK d : d = conv'
    OBVIOUS
  <2>6. d \in Conversation /\ TurnsIn(d)'
    BY <1>6, <2>2, <2>3, <2>4, <2>5, QuestionIsSaid
  <2>7. d.id = c.id
    BY <2>2, <2>5 DEF Said, Conversation
  <2>8. \A i \in JobsOf("chat")' : jobs'[i].about \in 1..made'
    <3>1. \A i \in JobsOf("chat")' : jobs'[i] = new \/ (i \in JobsOf("chat") /\ jobs'[i] = jobs[i])
      BY <2>4 DEF Filed, JobsOf
    <3> QED
      BY <1>5, <1>6, <1>7, <2>3, <3>1
  <2>9. TurnsOK'
    BY <1>5, <1>6, <2>5, <2>6, <2>7, <2>8, TurnsWillMean
  <2> QED
    BY <1>5, <1>6, <1>9, <2>2, <2>3, <2>5, <2>6, <2>9
<1> QED
  BY <1>8, <1>9
-----------------------------------------------------------------------------
(* Syntheses.                                                              *)

SynthesesOK == TextsAreOld /\ SynthesesAreReady /\ SynthesisIsOfOneText

LEMMA CompleteStays ==
  ASSUME JobsGoOn, NEW from, Complete(from)
  PROVE  /\ Complete(from)'
         /\ \A i \in from : i \in DOMAIN jobs /\ jobs'[i].text = jobs[i].text
                            /\ jobs'[i].status = "succeeded"
<1>1. \A i \in from : /\ i \in JobsOf("evaluation")' /\ i \in DOMAIN jobs
                      /\ jobs'[i].text = jobs[i].text /\ jobs'[i].about = jobs[i].about
                      /\ jobs'[i].status = "succeeded"
  BY DEF Complete, JobsOf, JobsGoOn, GoesOn, SameRequest
<1>2. {jobs'[i].about : i \in from} = {jobs[i].about : i \in from}
  BY <1>1
<1> QED
  BY <1>1, <1>2 DEF Complete

(* What a request for a synthesis has.                                     *)
Ready(r) ==
    /\ Complete(r.from)
    /\ \E i \in r.from : r.text = jobs[i].text
    /\ \A i \in r.from, j \in r.from \ r.todo : jobs[i].text <= jobs[j].text

OneText(s) ==
    /\ Complete(jobs[s].from)
    /\ \A i \in jobs[s].from : jobs[i].text = jobs[s].text

LEMMA SynthesesMean ==
  SynthesesOK <=>
    /\ TextsAreOld
    /\ \A t \in Tabs : Asks(t, "synthesis") => Ready(request[t])
    /\ \A s \in JobsOf("synthesis") : OneText(s)
BY DEF SynthesesOK, SynthesesAreReady, SynthesisIsOfOneText, Ready, OneText, Complete

LEMMA SynthesesWillMean ==
  ASSUME TextsAreOld',
         \A t \in Tabs : Asks(t, "synthesis")' => Ready(request[t])',
         \A s \in JobsOf("synthesis")' : OneText(s)'
  PROVE  SynthesesOK'
BY DEF SynthesesOK, SynthesesAreReady, SynthesisIsOfOneText, Ready, OneText, Complete

LEMMA ReadyStays ==
  ASSUME JobsGoOn, NEW r, Ready(r)
  PROVE  Ready(r)'
<1>1. PICK from : from = r.from
  OBVIOUS
<1>2. /\ Complete(from)'
      /\ \A i \in from : jobs'[i].text = jobs[i].text
  BY <1>1, CompleteStays DEF Ready
<1> QED
  BY <1>1, <1>2 DEF Ready

LEMMA OneTextStays ==
  ASSUME JobsGoOn, NEW s \in DOMAIN jobs, OneText(s)
  PROVE  OneText(s)'
<1>1. PICK from : from = jobs[s].from
  OBVIOUS
<1>2. jobs'[s].from = from /\ jobs'[s].text = jobs[s].text
  BY <1>1 DEF JobsGoOn, GoesOn, SameRequest
<1>3. /\ Complete(from)'
      /\ \A i \in from : jobs'[i].text = jobs[i].text
  BY <1>1, CompleteStays DEF OneText
<1>4. \A i \in from : jobs'[i].text = jobs'[s].text
  BY <1>1, <1>2, <1>3 DEF OneText
<1> QED
  BY <1>2, <1>3, <1>4 DEF OneText, Complete

LEMMA TextsStayOld ==
  ASSUME TextsAreOld, RequestsTypeOK, JobsGoOn, text <= text', text' \in Nat,
         \A i \in DOMAIN jobs' \ DOMAIN jobs : jobs'[i].text <= text',
         \A t \in Tabs : request'[t] # Nothing =>
            request'[t] = request[t] \/ request'[t].text <= text'
  PROVE  TextsAreOld'
<1>1. text \in Nat
  BY BoundAssumption DEF RequestsTypeOK
<1>2. \A i \in DOMAIN jobs : jobs[i].text \in Nat
  BY JobsAreNumbered DEF Job
<1>3. \A t \in Tabs : request[t] # Nothing => request[t].text \in Nat
  BY DEF RequestsTypeOK, Request
<1>4. ASSUME NEW i \in DOMAIN jobs' PROVE jobs'[i].text <= text'
  <2>1. CASE i \in DOMAIN jobs
    <3>1. jobs'[i].text = jobs[i].text /\ jobs[i].text <= text
      BY <2>1 DEF TextsAreOld, JobsGoOn, GoesOn, SameRequest
    <3> QED
      BY <1>1, <1>2, <2>1, <3>1
  <2>2. CASE i \notin DOMAIN jobs
    BY <1>4, <2>2
  <2> QED
    BY <2>1, <2>2
<1>5. ASSUME NEW t \in Tabs, request'[t] # Nothing PROVE request'[t].text <= text'
  <2>1. CASE request'[t] = request[t]
    <3>1. request[t].text <= text
      BY <1>5, <2>1 DEF TextsAreOld
    <3> QED
      BY <1>1, <1>3, <1>5, <2>1, <3>1
  <2>2. CASE request'[t] # request[t]
    BY <1>5, <2>2
  <2> QED
    BY <2>1, <2>2
<1> QED
  BY <1>4, <1>5 DEF TextsAreOld

(* No request for a synthesis comes, and none is answered by a new job.    *)
LEMMA SynthesesGoOn ==
  ASSUME RequestsTypeOK, SynthesesOK, JobsGoOn, text <= text', text' \in Nat,
         \A i \in DOMAIN jobs' \ DOMAIN jobs :
            jobs'[i].feature # "synthesis" /\ jobs'[i].text <= text',
         \A t \in Tabs : request'[t] # Nothing =>
            \/ request'[t] = request[t]
            \/ request'[t].feature # "synthesis" /\ request'[t].text <= text'
  PROVE  SynthesesOK'
<1>1. TextsAreOld'
  BY TextsStayOld DEF SynthesesOK
<1>2. ASSUME NEW t \in Tabs, Asks(t, "synthesis")'
      PROVE  Ready(request[t])'
  <2>1. PICK r : r = request'[t]
    OBVIOUS
  <2>2. r = request[t] /\ Asks(t, "synthesis")
    BY <1>2, <2>1 DEF Asks
  <2>3. Ready(r)'
    BY <2>2, ReadyStays, SynthesesMean
  <2> QED
    BY <2>1, <2>3 DEF Ready, Complete
<1>3. ASSUME NEW s \in JobsOf("synthesis")'
      PROVE  OneText(s)'
  <2>1. s \in JobsOf("synthesis") /\ s \in DOMAIN jobs
    BY <1>3 DEF JobsOf, JobsGoOn, GoesOn, SameRequest
  <2> QED
    BY <2>1, OneTextStays, SynthesesMean
<1> QED
  BY <1>1, <1>2, <1>3, SynthesesWillMean

LEMMA CandidatesAreThere ==
  ASSUME RequestsTypeOK, NEW p \in Personas, Candidates(p) # {}
  PROVE  LatestOf(p) \in Candidates(p)
<1>1. PICK ids : ids = IF {i \in Candidates(p) : IsActive(i)} # {}
                       THEN {i \in Candidates(p) : IsActive(i)} ELSE Candidates(p)
  OBVIOUS
<1>2. ids \subseteq Candidates(p) /\ ids # {} /\ ids \subseteq DOMAIN jobs
  BY <1>1 DEF Candidates, JobsOf
<1>3. LatestOf(p) = Newest(ids)
  BY <1>1 DEF LatestOf
<1> QED
  BY <1>2, <1>3, NewestIsThere

LEMMA SynthesisIsAsked ==
  ASSUME RequestsTypeOK, SynthesesOK, NEW t \in Tabs, NEW key, AskSynthesis(t, key)
  PROVE  /\ SynthesesOK'
         /\ \E from \in SUBSET DOMAIN jobs : \E i \in DOMAIN jobs :
              Begin(t, [Asking("synthesis", key) EXCEPT
                          !.from = from, !.todo = from, !.text = jobs[i].text])
<1>1. PICK from : from = {LatestOf(p) : p \in Personas}
  OBVIOUS
<1>2. \A p \in Personas : Candidates(p) # {} /\ ~IsActive(LatestOf(p))
  BY DEF AskSynthesis
<1>3. ASSUME NEW p \in Personas
      PROVE  /\ LatestOf(p) \in JobsOf("evaluation") /\ LatestOf(p) \in DOMAIN jobs
             /\ jobs[LatestOf(p)].about = p /\ jobs[LatestOf(p)].status = "succeeded"
  BY <1>2, CandidatesAreThere DEF Candidates, IsActive, JobsOf
<1>4. from \subseteq DOMAIN jobs /\ from # {}
  BY <1>1, <1>3, PersonaAssumption
<1>5. Complete(from)
  <2>1. {jobs[i].about : i \in from} = Personas
    BY <1>1, <1>3
  <2>2. Cardinality(from) = Cardinality(Personas)
    <3> DEFINE f == [p \in Personas |-> LatestOf(p)]
    <3>1. f \in Injection(Personas, from) /\ f \in Surjection(Personas, from)
      <4>1. f \in [Personas -> from]
        BY <1>1
      <4>2. \A p, q \in Personas : f[p] = f[q] => p = q
        BY <1>3
      <4>3. \A i \in from : \E p \in Personas : f[p] = i
        BY <1>1
      <4> HIDE DEF f
      <4> QED
        BY <4>1, <4>2, <4>3 DEF Injection, IsInjective, Surjection
    <3>2. ExistsBijection(Personas, from)
      <4> HIDE DEF f
      <4> QED
        BY <3>1 DEF ExistsBijection, Bijection
    <3> QED
      BY <3>2, FS_Bijection, PersonaAssumption
  <2> QED
    BY <1>1, <1>3, <2>1, <2>2 DEF Complete
<1>6. PICK i : i = Newest(from)
  OBVIOUS
<1>7. i \in from /\ i \in DOMAIN jobs
  BY <1>4, <1>6, NewestIsThere
<1>8. PICK r : r = [Asking("synthesis", key) EXCEPT
                      !.from = from, !.todo = from, !.text = jobs[i].text]
  OBVIOUS
<1>9. r.feature = "synthesis" /\ r.from = from /\ r.todo = from /\ r.text = jobs[i].text
  BY <1>8 DEF Asking
<1>10. /\ Begin(t, r) /\ request'[t] = r /\ \A u \in Tabs \ {t} : request'[u] = request[u]
       /\ jobs' = jobs /\ text' = text
  BY <1>1, <1>6, <1>8 DEF AskSynthesis, Begin, RequestsTypeOK
<1>11. JobsGoOn
  BY <1>10 DEF JobsGoOn, GoesOn, SameRequest
<1>12. Ready(r)
  BY <1>5, <1>7, <1>9 DEF Ready
<1>13. TextsAreOld'
  <2>1. TextsAreOld
    BY DEF SynthesesOK
  <2>2. jobs[i].text <= text
    BY <1>7, <2>1 DEF TextsAreOld
  <2> QED
    BY <1>9, <1>10, <2>1, <2>2 DEF TextsAreOld
<1>14. ASSUME NEW u \in Tabs, Asks(u, "synthesis")'
       PROVE  Ready(request[u])'
  <2>1. PICK q : q = request'[u]
    OBVIOUS
  <2>2. Ready(q)
    <3>1. CASE u = t
      BY <1>10, <1>12, <2>1, <3>1
    <3>2. CASE u # t
      BY <1>10, <1>14, <2>1, <3>2, SynthesesMean DEF Asks
    <3> QED
      BY <3>1, <3>2
  <2>3. Ready(q)'
    BY <1>11, <2>2, ReadyStays
  <2> QED
    BY <2>1, <2>3 DEF Ready, Complete
<1>15. ASSUME NEW s \in JobsOf("synthesis")'
       PROVE  OneText(s)'
  <2>1. s \in JobsOf("synthesis") /\ s \in DOMAIN jobs
    BY <1>10, <1>15 DEF JobsOf
  <2> QED
    BY <1>11, <2>1, OneTextStays, SynthesesMean
<1>16. SynthesesOK'
  BY <1>13, <1>14, <1>15, SynthesesWillMean
<1>17. Begin(t, [Asking("synthesis", key) EXCEPT
                   !.from = from, !.todo = from, !.text = jobs[i].text])
  BY <1>8, <1>10
<1>18. \E x \in SUBSET DOMAIN jobs : \E y \in DOMAIN jobs :
         Begin(t, [Asking("synthesis", key) EXCEPT
                     !.from = x, !.todo = x, !.text = jobs[y].text])
  <2> from \in SUBSET DOMAIN jobs /\ i \in DOMAIN jobs
    BY <1>4, <1>7
  <2> WITNESS from \in SUBSET DOMAIN jobs
  <2> WITNESS i \in DOMAIN jobs
  <2> QED
    BY <1>17
<1> QED
  BY <1>16, <1>18

(* The newest text is that of the diagnosis just found to be current.      *)
LEMMA TextIsCompared ==
  ASSUME RequestsTypeOK, SynthesesOK, NEW t \in Tabs, CheckIsCurrent(t),
         Asks(t, "synthesis")
  PROVE  SynthesesOK'
<1>1. PICK r : r = request[t]
  OBVIOUS
<1>2. r \in Request
  BY <1>1 DEF CheckIsCurrent, RequestsTypeOK
<1>3. PICK i \in r.todo : /\ jobs[i].text = text
                          /\ request' = [request EXCEPT ![t].todo = @ \ {i}]
  BY <1>1 DEF CheckIsCurrent, IsCurrent
<1>4. PICK q : q = request'[t]
  OBVIOUS
<1>5. /\ q.feature = r.feature /\ q.from = r.from /\ q.text = r.text /\ q.todo = r.todo \ {i}
      /\ \A u \in Tabs \ {t} : request'[u] = request[u]
      /\ jobs' = jobs /\ text' = text
  BY <1>1, <1>2, <1>3, <1>4 DEF CheckIsCurrent, RequestsTypeOK, Request
<1>6. JobsGoOn
  BY <1>5 DEF JobsGoOn, GoesOn, SameRequest
<1>7. Ready(r) /\ TextsAreOld
  BY <1>1, SynthesesMean
<1>8. Ready(q)
  <2>1. \A j \in r.from : jobs[j].text <= jobs[i].text
    BY <1>3, <1>7 DEF Ready, Complete, TextsAreOld, JobsOf
  <2> QED
    BY <1>5, <1>7, <2>1 DEF Ready
<1>9. TextsAreOld'
  BY <1>1, <1>4, <1>5, <1>7 DEF TextsAreOld, Asks
<1>10. ASSUME NEW u \in Tabs, Asks(u, "synthesis")'
       PROVE  Ready(request[u])'
  <2>1. PICK x : x = request'[u]
    OBVIOUS
  <2>2. Ready(x)
    <3>1. CASE u = t
      BY <1>4, <1>8, <2>1, <3>1
    <3>2. CASE u # t
      BY <1>5, <1>10, <2>1, <3>2, SynthesesMean DEF Asks
    <3> QED
      BY <3>1, <3>2
  <2>3. Ready(x)'
    BY <1>6, <2>2, ReadyStays
  <2> QED
    BY <2>1, <2>3 DEF Ready, Complete
<1>11. ASSUME NEW s \in JobsOf("synthesis")'
       PROVE  OneText(s)'
  <2>1. s \in JobsOf("synthesis") /\ s \in DOMAIN jobs
    BY <1>5, <1>11 DEF JobsOf
  <2> QED
    BY <1>6, <2>1, OneTextStays, SynthesesMean
<1> QED
  BY <1>9, <1>10, <1>11, SynthesesWillMean

LEMMA SynthesisIsFiled ==
  ASSUME RequestsTypeOK, SynthesesOK, NEW t \in Tabs, Asks(t, "synthesis"),
         request[t].todo = {}, NEW new \in Job, Filed(new), JobsGoOn, new.feature = "synthesis",
         new.from = request[t].from, new.text = request[t].text, text' = text,
         request' = [request EXCEPT ![t] = Nothing]
  PROVE  SynthesesOK'
<1>1. PICK r : r = request[t]
  OBVIOUS
<1>2. Ready(r) /\ r.todo = {} /\ TextsAreOld
  BY <1>1, SynthesesMean
<1>3. PICK from : from = r.from
  OBVIOUS
<1>4. \A i \in from : jobs[i].text = r.text
  <2>1. \A i \in from : jobs[i].text \in Nat
    BY <1>2, <1>3, JobsAreNumbered DEF Ready, Complete, JobsOf, Job
  <2>2. \A i \in from, j \in from : jobs[i].text <= jobs[j].text
    BY <1>2, <1>3 DEF Ready
  <2>3. \E i \in from : r.text = jobs[i].text
    BY <1>2, <1>3 DEF Ready
  <2> QED
    BY <2>1, <2>2, <2>3
<1>5. /\ Complete(from)'
      /\ \A i \in from : jobs'[i].text = jobs[i].text
  BY <1>2, <1>3, CompleteStays DEF Ready
<1>6. request'[t] = Nothing /\ \A u \in Tabs \ {t} : request'[u] = request[u]
  BY DEF RequestsTypeOK
<1>7. TextsAreOld'
  <2>1. \A i \in DOMAIN jobs' \ DOMAIN jobs : jobs'[i] = new
    BY DEF Filed
  <2>2. new.text <= text
    BY <1>2 DEF Asks, TextsAreOld
  <2>3. text \in Nat /\ text <= text
    BY BoundAssumption DEF RequestsTypeOK
  <2> QED
    BY <1>2, <1>6, <2>1, <2>2, <2>3, TextsStayOld
<1>8. ASSUME NEW u \in Tabs, Asks(u, "synthesis")'
      PROVE  Ready(request[u])'
  <2>1. PICK x : x = request'[u]
    OBVIOUS
  <2>2. Ready(x)
    BY <1>6, <1>8, <2>1, SynthesesMean DEF Asks
  <2>3. Ready(x)'
    BY <2>2, ReadyStays
  <2> QED
    BY <2>1, <2>3 DEF Ready, Complete
<1>9. ASSUME NEW s \in JobsOf("synthesis")'
      PROVE  OneText(s)'
  <2>1. CASE s \in DOMAIN jobs
    <3>1. s \in JobsOf("synthesis")
      BY <1>9, <2>1 DEF JobsOf, JobsGoOn, GoesOn, SameRequest
    <3> QED
      BY <2>1, <3>1, OneTextStays, SynthesesMean
  <2>2. CASE s \notin DOMAIN jobs
    <3>1. jobs'[s] = new
      BY <1>9, <2>2 DEF Filed, JobsOf
    <3>2. jobs'[s].from = from /\ jobs'[s].text = r.text
      BY <1>1, <1>3, <3>1
    <3>3. \A i \in from : jobs'[i].text = jobs'[s].text
      BY <1>4, <1>5, <3>2
    <3> QED
      BY <1>5, <3>2, <3>3 DEF OneText, Complete
  <2> QED
    BY <2>1, <2>2
<1> QED
  BY <1>7, <1>8, <1>9, SynthesesWillMean
-----------------------------------------------------------------------------
(* The steps.                                                              *)

LEMMA RequestsMean ==
  RequestsInv <=> /\ RequestsTypeOK /\ SynthesesCompare
                  /\ AnalysesOK /\ TurnsOK /\ SynthesesOK
BY DEF RequestsInv, AnalysesOK, TurnsOK, SynthesesOK

LEMMA RequestsWillMean ==
  ASSUME RequestsTypeOK', SynthesesCompare', AnalysesOK', TurnsOK', SynthesesOK'
  PROVE  RequestsInv'
BY DEF RequestsInv, AnalysesOK, TurnsOK, SynthesesOK

(* A tab asks, or is answered.                                             *)
LEMMA RequestIsMade ==
  ASSUME RequestsInv, NEW t \in Tabs, NEW r \in {Nothing} \cup Request, Begin(t, r),
         r # Nothing => r.feature = "synthesis" \/ r.todo = {},
         UNCHANGED <<text, jobs, conv, made, swept>>
  PROVE  /\ RequestsTypeOK' /\ SynthesesCompare' /\ TurnsOK'
         /\ (r # Nothing => r.feature # "analysis") => AnalysesOK'
         /\ (r # Nothing => r.feature # "synthesis" /\ r.text <= text) => SynthesesOK'
<1>1. RequestsTypeOK /\ SynthesesCompare /\ AnalysesOK /\ TurnsOK /\ SynthesesOK
  BY RequestsMean
<1>2. request' \in [Tabs -> {Nothing} \cup Request]
  BY <1>1 DEF Begin, RequestsTypeOK
<1>3. request'[t] = r /\ \A u \in Tabs \ {t} : request'[u] = request[u]
  BY <1>1 DEF Begin, RequestsTypeOK
<1>4. RequestsTypeOK'
  BY <1>1, <1>2 DEF RequestsTypeOK, KeysAreUnique
<1>5. SynthesesCompare'
  BY <1>1, <1>3 DEF SynthesesCompare
<1>6. JobsGoOn /\ DOMAIN jobs' = DOMAIN jobs
  BY DEF JobsGoOn, GoesOn, SameRequest
<1>7. TurnsOK'
  <2>1. conv' = Nothing \/ (conv # Nothing /\ conv'.id = conv.id /\ conv'.messages = conv.messages)
    OBVIOUS
  <2>2. \A i \in JobsOf("chat") : jobs'[i].status = "succeeded" <=> jobs[i].status = "succeeded"
    OBVIOUS
  <2> QED
    BY <1>1, <1>6, <2>1, <2>2, TurnsGoOn
<1>8. ASSUME r # Nothing => r.feature # "analysis"
      PROVE  AnalysesOK'
  <2>1. \A u \in Tabs : Asks(u, "analysis")' => request'[u] = request[u]
    BY <1>3, <1>8 DEF Asks
  <2> QED
    BY <1>1, <1>6, <2>1, AnalysesGoOn
<1>9. ASSUME r # Nothing => r.feature # "synthesis" /\ r.text <= text
      PROVE  SynthesesOK'
  <2>1. text' \in Nat /\ text <= text' /\ text' = text
    BY <1>1, BoundAssumption DEF RequestsTypeOK
  <2>2. \A u \in Tabs : request'[u] # Nothing =>
           \/ request'[u] = request[u]
           \/ request'[u].feature # "synthesis" /\ request'[u].text <= text'
    BY <1>3, <1>9
  <2> QED
    BY <1>1, <1>6, <2>1, <2>2, SynthesesGoOn
<1> QED
  BY <1>4, <1>5, <1>7, <1>8, <1>9

LEMMA AskingKeeps ==
  ASSUME RequestsInv, NEW t \in Tabs, AskAi(t)
  PROVE  RequestsInv'
<1>1. /\ RequestsTypeOK /\ AnalysesOK /\ SynthesesOK
      /\ text \in 1..MaxText /\ text <= text /\ MaxText \in Nat
  BY RequestsMean, BoundAssumption DEF RequestsTypeOK
<1>2. ASSUME NEW key \in Keys, AskCoach(t, key) PROVE RequestsInv'
  <2>1. PICK seen : seen = IF conv = Nothing THEN Nothing
                           ELSE [id |-> conv.id, expired |-> conv.expired]
    OBVIOUS
  <2>2. seen \in {Nothing} \cup [id : Conversations, expired : BOOLEAN]
    BY <1>1, <2>1 DEF RequestsTypeOK, Conversation
  <2>3. PICK r : r = [Asking("chat", key) EXCEPT !.seen = seen]
    OBVIOUS
  <2>4. r \in Request /\ r.feature = "chat" /\ r.todo = {} /\ r.text = text
    BY <1>1, <2>2, <2>3 DEF Asking, Request, Features
  <2>5. Begin(t, r) /\ UNCHANGED <<text, jobs, conv, made, swept>>
    BY <1>2, <2>1, <2>3 DEF AskCoach
  <2> QED
    BY <1>1, <2>4, <2>5, RequestIsMade, RequestsWillMean
<1>3. ASSUME NEW key \in Keys, NEW b \in Boards, AskAnalysis(t, key, b) PROVE RequestsInv'
  <2>1. PICK r : r = [Asking("analysis", key) EXCEPT !.about = b]
    OBVIOUS
  <2>2. r \in Request /\ r.feature = "analysis" /\ r.todo = {} /\ r.text = text
    BY <1>1, <2>1 DEF Asking, Request, Features
  <2>3. Begin(t, r) /\ UNCHANGED <<text, jobs, conv, made, swept>>
    BY <1>3, <2>1 DEF AskAnalysis
  <2>4. AnalysesOK'
    BY <1>1, <1>3, AnalysisIsAsked
  <2> QED
    BY <1>1, <2>2, <2>3, <2>4, RequestIsMade, RequestsWillMean
<1>4. ASSUME NEW key \in Keys, NEW p \in Personas, AskEvaluation(t, key, p) PROVE RequestsInv'
  <2>1. PICK r : r = [Asking("evaluation", key) EXCEPT !.about = p]
    OBVIOUS
  <2>2. r \in Request /\ r.feature = "evaluation" /\ r.todo = {} /\ r.text = text
    BY <1>1, <2>1 DEF Asking, Request, Features
  <2>3. Begin(t, r) /\ UNCHANGED <<text, jobs, conv, made, swept>>
    BY <1>4, <2>1 DEF AskEvaluation
  <2> QED
    BY <1>1, <2>2, <2>3, RequestIsMade, RequestsWillMean
<1>5. ASSUME NEW key \in Keys, AskSynthesis(t, key) PROVE RequestsInv'
  <2>1. /\ SynthesesOK'
        /\ \E from \in SUBSET DOMAIN jobs : \E i \in DOMAIN jobs :
              Begin(t, [Asking("synthesis", key) EXCEPT
                          !.from = from, !.todo = from, !.text = jobs[i].text])
    BY <1>1, <1>5, SynthesisIsAsked
  <2>2. PICK from \in SUBSET DOMAIN jobs : \E i \in DOMAIN jobs :
           Begin(t, [Asking("synthesis", key) EXCEPT
                       !.from = from, !.todo = from, !.text = jobs[i].text])
    BY <2>1
  <2>3. PICK i \in DOMAIN jobs :
           Begin(t, [Asking("synthesis", key) EXCEPT
                       !.from = from, !.todo = from, !.text = jobs[i].text])
    BY <2>2
  <2>4. PICK r : r = [Asking("synthesis", key) EXCEPT
                        !.from = from, !.todo = from, !.text = jobs[i].text]
    OBVIOUS
  <2>5. jobs[i].text \in 1..MaxText /\ from \in SUBSET JobIds
    BY <1>1, JobsAreNumbered DEF Job
  <2>6. r \in Request /\ r.feature = "synthesis"
    BY <1>1, <2>4, <2>5 DEF Asking, Request, Features
  <2>7. Begin(t, r) /\ UNCHANGED <<text, jobs, conv, made, swept>>
    BY <1>5, <2>3, <2>4 DEF AskSynthesis
  <2> QED
    BY <1>1, <2>1, <2>6, <2>7, RequestIsMade, RequestsWillMean
<1> QED
  BY <1>2, <1>3, <1>4, <1>5 DEF AskAi

LEMMA ComparingKeeps ==
  ASSUME RequestsInv, NEW t \in Tabs, CheckIsCurrent(t)
  PROVE  RequestsInv'
<1>1. RequestsTypeOK /\ SynthesesCompare /\ SynthesesOK
  BY RequestsMean
<1>2. /\ request[t] \in Request /\ request[t] # Nothing /\ request[t].todo # {}
      /\ UNCHANGED <<text, jobs, conv, made, swept>>
  BY <1>1 DEF CheckIsCurrent, RequestsTypeOK
<1>3. request[t].feature = "synthesis"
  BY <1>1, <1>2 DEF SynthesesCompare
<1>4. PICK i \in request[t].todo : request' = [request EXCEPT ![t].todo = @ \ {i}]
  BY DEF CheckIsCurrent
<1>5. PICK r : r = [request[t] EXCEPT !.todo = @ \ {i}]
  OBVIOUS
<1>6. r \in Request /\ r.feature = "synthesis"
  BY <1>2, <1>3, <1>5 DEF Request
<1>7. Begin(t, r)
  BY <1>1, <1>4, <1>5 DEF Begin, RequestsTypeOK
<1>8. SynthesesOK'
  BY <1>1, <1>2, <1>3, TextIsCompared DEF Asks
<1> QED
  BY <1>2, <1>6, <1>7, <1>8, RequestIsMade, RequestsWillMean

LEMMA GivingUpKeeps ==
  ASSUME RequestsInv, NEW t \in Tabs, Answer(t), UNCHANGED <<text, jobs, conv, made, swept>>
  PROVE  RequestsInv'
<1>1. Begin(t, Nothing)
  BY DEF Answer, Begin
<1> QED
  BY <1>1, RequestIsMade, RequestsWillMean

(* A request is answered by a new job.                                     *)
LEMMA FilingKeeps ==
  ASSUME RequestsInv, NEW t \in Tabs, Enqueue(t), jobs' # jobs
  PROVE  RequestsInv'
<1>1. RequestsTypeOK /\ SynthesesCompare /\ AnalysesOK /\ TurnsOK /\ SynthesesOK
  BY RequestsMean
<1>2. PICK r : r = request[t]
  OBVIOUS
<1>3. r \in Request /\ r # Nothing /\ r.feature # "chat" /\ r.todo = {}
  BY <1>1, <1>2 DEF Enqueue, RequestsTypeOK
<1>4. PICK new : new = NewJob(r)
  OBVIOUS
<1>5. /\ Found(r) = {} /\ Len(jobs) < MaxJobs /\ jobs' = Append(jobs, new)
      /\ Answer(t) /\ UNCHANGED <<text, conv, made, swept>>
  BY <1>2, <1>4 DEF Enqueue, MayFile
<1>6. /\ new \in Job /\ new.feature = r.feature /\ new.key = r.key /\ new.about = r.about
      /\ new.text = r.text /\ new.from = r.from /\ new.status = "active"
  BY <1>3, <1>4 DEF NewJob, Job, Request
<1>7. ByKey(new.feature, new.key) = {}
  BY <1>5, <1>6 DEF Found
<1>8. /\ jobs' \in Seq(Job) /\ Len(jobs') <= MaxJobs /\ KeysAreUnique'
      /\ Filed(new) /\ JobsGoOn
  BY <1>1, <1>5, <1>6, <1>7, JobIsFiled
<1>9. request' = [request EXCEPT ![t] = Nothing]
  BY <1>5 DEF Answer
<1>10. request'[t] = Nothing /\ \A u \in Tabs \ {t} : request'[u] = request[u]
  BY <1>1, <1>9 DEF RequestsTypeOK
<1>11. RequestsTypeOK' /\ SynthesesCompare'
  BY <1>1, <1>5, <1>8, <1>9, <1>10 DEF RequestsTypeOK, SynthesesCompare
<1>12. \A i \in DOMAIN jobs' \ DOMAIN jobs : jobs'[i] = new
  BY <1>8 DEF Filed
<1>13. AnalysesOK'
  <2>1. CASE r.feature = "analysis"
    BY <1>1, <1>2, <1>3, <1>6, <1>8, <1>9, <2>1, AnalysisIsFiled DEF Asks
  <2>2. CASE r.feature # "analysis"
    <3>1. \A u \in Tabs : Asks(u, "analysis")' => request'[u] = request[u]
      BY <1>10 DEF Asks
    <3> QED
      BY <1>1, <1>6, <1>8, <1>12, <2>2, <3>1, AnalysesGoOn
  <2> QED
    BY <2>1, <2>2
<1>14. SynthesesOK'
  <2>1. CASE r.feature = "synthesis"
    BY <1>1, <1>2, <1>3, <1>5, <1>6, <1>8, <1>9, <2>1, SynthesisIsFiled DEF Asks
  <2>2. CASE r.feature # "synthesis"
    <3>1. text' \in Nat /\ text <= text' /\ text' = text
      BY <1>1, <1>5, BoundAssumption DEF RequestsTypeOK
    <3>2. new.text <= text'
      BY <1>1, <1>2, <1>3, <1>6, <3>1 DEF SynthesesOK, TextsAreOld
    <3>3. \A u \in Tabs : request'[u] # Nothing => request'[u] = request[u]
      BY <1>10
    <3> QED
      BY <1>1, <1>6, <1>8, <1>12, <2>2, <3>1, <3>2, <3>3, SynthesesGoOn
  <2> QED
    BY <2>1, <2>2
<1>15. TurnsOK'
  <2>1. conv' = Nothing \/ (conv # Nothing /\ conv'.id = conv.id /\ conv'.messages = conv.messages)
    BY <1>5
  <2>2. \A i \in JobsOf("chat") : jobs'[i].status = "succeeded" <=> jobs[i].status = "succeeded"
    BY <1>8 DEF Filed, JobsOf
  <2> QED
    BY <1>1, <1>3, <1>5, <1>6, <1>8, <1>12, <2>1, <2>2, TurnsGoOn
<1> QED
  BY <1>11, <1>13, <1>14, <1>15, RequestsWillMean

LEMMA AnsweringKeeps ==
  ASSUME RequestsInv, NEW t \in Tabs, Enqueue(t)
  PROVE  RequestsInv'
<1>1. CASE jobs' # jobs
  BY <1>1, FilingKeeps
<1>2. CASE jobs' = jobs
  BY <1>2, GivingUpKeeps DEF Enqueue
<1> QED
  BY <1>1, <1>2

LEMMA CoachKeeps ==
  ASSUME RequestsInv, NEW t \in Tabs, SendToCoach(t)
  PROVE  RequestsInv'
<1>1. RequestsTypeOK /\ SynthesesCompare /\ AnalysesOK /\ TurnsOK /\ SynthesesOK
  BY RequestsMean
<1>2. /\ TurnsOK'
      /\ conv' \in Conversation /\ made' \in 0..MaxConversations
      /\ \/ jobs' = jobs
         \/ \E new \in Job : /\ jobs' = Append(jobs, new) /\ Len(jobs) < MaxJobs
                             /\ ByKey(new.feature, new.key) = {}
                             /\ new.feature = "chat" /\ new.text = text
  BY <1>1, CoachIsSent
<1>3. request' = [request EXCEPT ![t] = Nothing] /\ text' = text /\ swept' = swept
  BY DEF SendToCoach, Answer
<1>4. request'[t] = Nothing /\ \A u \in Tabs \ {t} : request'[u] = request[u]
  BY <1>1, <1>3 DEF RequestsTypeOK
<1>5. /\ jobs' \in Seq(Job) /\ Len(jobs') <= MaxJobs /\ KeysAreUnique' /\ JobsGoOn
      /\ \A i \in DOMAIN jobs' \ DOMAIN jobs : jobs'[i].feature = "chat" /\ jobs'[i].text = text
  <2>1. CASE jobs' = jobs
    BY <1>1, <2>1 DEF RequestsTypeOK, KeysAreUnique, JobsGoOn, GoesOn, SameRequest
  <2>2. ASSUME NEW new \in Job, jobs' = Append(jobs, new), Len(jobs) < MaxJobs,
               ByKey(new.feature, new.key) = {}, new.feature = "chat", new.text = text
        PROVE  /\ jobs' \in Seq(Job) /\ Len(jobs') <= MaxJobs /\ KeysAreUnique' /\ JobsGoOn
               /\ \A i \in DOMAIN jobs' \ DOMAIN jobs :
                    jobs'[i].feature = "chat" /\ jobs'[i].text = text
    <3>1. /\ jobs' \in Seq(Job) /\ Len(jobs') <= MaxJobs /\ KeysAreUnique'
          /\ Filed(new) /\ JobsGoOn
      BY <1>1, <2>2, JobIsFiled
    <3> QED
      BY <2>2, <3>1 DEF Filed
  <2> QED
    BY <1>2, <2>1, <2>2
<1>6. RequestsTypeOK' /\ SynthesesCompare'
  BY <1>1, <1>2, <1>3, <1>4, <1>5 DEF RequestsTypeOK, SynthesesCompare
<1>7. AnalysesOK'
  <2>1. \A u \in Tabs : Asks(u, "analysis")' => request'[u] = request[u]
    BY <1>4 DEF Asks
  <2> QED
    BY <1>1, <1>5, <2>1, AnalysesGoOn
<1>8. SynthesesOK'
  <2>1. text' \in Nat /\ text <= text' /\ text' = text
    BY <1>1, <1>3, BoundAssumption DEF RequestsTypeOK
  <2>2. \A u \in Tabs : request'[u] # Nothing => request'[u] = request[u]
    BY <1>4
  <2> QED
    BY <1>1, <1>5, <2>1, <2>2, SynthesesGoOn
<1> QED
  BY <1>2, <1>6, <1>7, <1>8, RequestsWillMean

(* A job is marked, finished, stopped or tried again.                      *)
LEMMA JobChanges ==
  ASSUME RequestsInv, NEW i \in DOMAIN jobs, NEW new \in Job, GoesOn(jobs[i], new),
         jobs' = [jobs EXCEPT ![i] = new],
         conv' = Nothing \/ conv' \in Conversation, UNCHANGED <<text, made, swept, request>>
  PROVE  /\ RequestsTypeOK' /\ SynthesesCompare' /\ AnalysesOK' /\ SynthesesOK'
         /\ conv' = conv /\ (jobs[i].feature = "chat" =>
                               (new.status = "succeeded" <=> jobs[i].status = "succeeded"))
               => TurnsOK'
<1>1. RequestsTypeOK /\ SynthesesCompare /\ AnalysesOK /\ TurnsOK /\ SynthesesOK
  BY RequestsMean
<1>2. /\ jobs' \in Seq(Job) /\ Len(jobs') <= MaxJobs /\ KeysAreUnique'
      /\ DOMAIN jobs' = DOMAIN jobs /\ jobs'[i] = new
      /\ \A j \in DOMAIN jobs \ {i} : jobs'[j] = jobs[j]
  BY <1>1, JobIsEdited DEF GoesOn
<1>3. JobsGoOn
  BY <1>2 DEF JobsGoOn, GoesOn, SameRequest
<1>4. RequestsTypeOK' /\ SynthesesCompare'
  BY <1>1, <1>2 DEF RequestsTypeOK, SynthesesCompare
<1>5. AnalysesOK'
  BY <1>1, <1>2, <1>3, AnalysesGoOn
<1>6. SynthesesOK'
  <2>1. text' \in Nat /\ text <= text'
    BY <1>1, BoundAssumption DEF RequestsTypeOK
  <2> QED
    BY <1>1, <1>2, <1>3, <2>1, SynthesesGoOn
<1>7. ASSUME conv' = conv, jobs[i].feature = "chat" =>
                 (new.status = "succeeded" <=> jobs[i].status = "succeeded")
      PROVE  TurnsOK'
  <2>1. conv' = Nothing \/ (conv # Nothing /\ conv'.id = conv.id /\ conv'.messages = conv.messages)
    BY <1>7
  <2>2. \A j \in JobsOf("chat") : jobs'[j].status = "succeeded" <=> jobs[j].status = "succeeded"
    BY <1>2, <1>7 DEF JobsOf
  <2> QED
    BY <1>1, <1>2, <1>3, <2>1, <2>2, TurnsGoOn
<1> QED
  BY <1>4, <1>5, <1>6, <1>7

LEMMA JobStepsKeep ==
  ASSUME RequestsInv, NEW i \in DOMAIN jobs, PassWindow(i) \/ Succeed(i) \/ Fail(i) \/ Retry(i)
  PROVE  RequestsInv'
<1>1. RequestsTypeOK /\ TurnsOK
  BY RequestsMean
<1>2. jobs[i] \in Job
  BY <1>1, JobsAreNumbered
<1>3. conv = Nothing \/ conv \in Conversation
  BY <1>1 DEF RequestsTypeOK
<1>4. CASE PassWindow(i)
  <2>1. PICK new : new = [jobs[i] EXCEPT !.stale = TRUE]
    OBVIOUS
  <2>2. new \in Job /\ GoesOn(jobs[i], new) /\ new.status = jobs[i].status
    BY <1>2, <2>1 DEF Job, GoesOn, SameRequest
  <2>3. jobs' = [jobs EXCEPT ![i] = new] /\ UNCHANGED <<text, conv, made, swept, request>>
    BY <1>4, <2>1 DEF PassWindow
  <2> QED
    BY <1>3, <2>2, <2>3, JobChanges, RequestsWillMean
<1>5. CASE Succeed(i)
  <2>1. PICK new : new = [jobs[i] EXCEPT !.status = "succeeded"]
    OBVIOUS
  <2>2. new \in Job /\ GoesOn(jobs[i], new)
    BY <1>2, <2>1 DEF Job, GoesOn, SameRequest
  <2>3. jobs' = [jobs EXCEPT ![i] = new] /\ UNCHANGED <<text, made, swept, request>>
    BY <1>5, <2>1 DEF Succeed
  <2>4. CASE jobs[i].feature = "chat"
    <3>1. TurnsOK' /\ conv' \in Conversation
      BY <1>1, <1>5, <2>4, AnswerIsSaid DEF JobsOf
    <3> QED
      BY <2>2, <2>3, <3>1, JobChanges, RequestsWillMean
  <2>5. CASE jobs[i].feature # "chat"
    <3>1. conv' = conv
      BY <1>5, <2>5 DEF Succeed
    <3> QED
      BY <1>3, <2>2, <2>3, <2>5, <3>1, JobChanges, RequestsWillMean
  <2> QED
    BY <2>4, <2>5
<1>6. CASE Fail(i)
  <2>1. PICK status \in {"failed", "cancelled"} : jobs' = [jobs EXCEPT ![i].status = status]
    BY <1>6 DEF Fail
  <2>2. PICK new : new = [jobs[i] EXCEPT !.status = status]
    OBVIOUS
  <2>3. jobs[i].status = "active"
    BY <1>6 DEF Fail, IsActive
  <2>4. new \in Job /\ GoesOn(jobs[i], new) /\ new.status # "succeeded"
    BY <1>2, <2>1, <2>2, <2>3 DEF Job, GoesOn, SameRequest
  <2>5. jobs' = [jobs EXCEPT ![i] = new] /\ UNCHANGED <<text, conv, made, swept, request>>
    BY <1>6, <2>1, <2>2 DEF Fail
  <2> QED
    BY <1>3, <2>3, <2>4, <2>5, JobChanges, RequestsWillMean
<1>7. CASE Retry(i)
  <2>1. PICK new : new = [jobs[i] EXCEPT !.status = "active", !.retried = TRUE]
    OBVIOUS
  <2>2. jobs[i].status = "failed"
    BY <1>7 DEF Retry
  <2>3. new \in Job /\ GoesOn(jobs[i], new) /\ new.status # "succeeded"
    BY <1>2, <2>1, <2>2 DEF Job, GoesOn, SameRequest
  <2>4. jobs' = [jobs EXCEPT ![i] = new] /\ UNCHANGED <<text, conv, made, swept, request>>
    BY <1>1, <1>2, <1>7, <2>1 DEF Retry
  <2> QED
    BY <1>3, <2>2, <2>3, <2>4, JobChanges, RequestsWillMean
<1> QED
  BY <1>4, <1>5, <1>6, <1>7

(* Conversations expire and are cleaned up, people write, or nothing.      *)
LEMMA TheRestKeeps ==
  ASSUME RequestsInv,
         Expire \/ CollectExpired \/ DeleteCollected \/ Write \/ UNCHANGED requestVars
  PROVE  RequestsInv'
<1>1. RequestsTypeOK /\ SynthesesCompare /\ AnalysesOK /\ TurnsOK /\ SynthesesOK
  BY RequestsMean
<1>2. jobs' = jobs /\ request' = request /\ made' = made
  BY DEF Expire, CollectExpired, DeleteCollected, Write, requestVars
<1>3. JobsGoOn
  BY <1>2 DEF JobsGoOn, GoesOn, SameRequest
<1>4. text' \in 1..MaxText /\ text <= text'
  <2>1. text \in 1..MaxText /\ MaxText \in Nat
    BY <1>1, BoundAssumption DEF RequestsTypeOK
  <2>2. text' = text \/ (text < MaxText /\ text' = text + 1)
    BY DEF Expire, CollectExpired, DeleteCollected, Write, requestVars
  <2> QED
    BY <2>1, <2>2
<1>5. \/ conv' = Nothing
      \/ /\ conv # Nothing /\ conv'.id = conv.id /\ conv'.messages = conv.messages
         /\ conv \in Conversation => conv' \in Conversation
  <2>1. CASE Expire
    <3>1. conv \in Conversation /\ conv # Nothing /\ conv' = [conv EXCEPT !.expired = TRUE]
      BY <1>1, <2>1 DEF Expire, RequestsTypeOK
    <3> QED
      BY <3>1 DEF Conversation
  <2>2. CASE ~Expire
    <3>1. conv' = conv \/ conv' = Nothing
      BY <2>2 DEF CollectExpired, DeleteCollected, Write, requestVars
    <3> QED
      BY <3>1
  <2> QED
    BY <2>1, <2>2
<1>6. swept' \in {Nothing} \cup [id : Conversations]
  <2>1. CASE CollectExpired
    <3>1. conv.id \in Conversations /\ swept' = [id |-> conv.id]
      BY <1>1, <2>1 DEF CollectExpired, RequestsTypeOK, Conversation
    <3> QED
      BY <3>1
  <2>2. CASE ~CollectExpired
    BY <1>1, <2>2 DEF Expire, DeleteCollected, Write, requestVars, RequestsTypeOK
  <2> QED
    BY <2>1, <2>2
<1>7. RequestsTypeOK' /\ SynthesesCompare'
  BY <1>1, <1>2, <1>4, <1>5, <1>6 DEF RequestsTypeOK, KeysAreUnique, SynthesesCompare
<1>8. AnalysesOK'
  BY <1>1, <1>2, <1>3, AnalysesGoOn
<1>9. TurnsOK'
  BY <1>1, <1>2, <1>3, <1>5, TurnsGoOn
<1>10. SynthesesOK'
  <2>1. text' \in Nat
    BY <1>4, BoundAssumption
  <2> QED
    BY <1>1, <1>2, <1>3, <1>4, <2>1, SynthesesGoOn
<1> QED
  BY <1>7, <1>8, <1>9, <1>10, RequestsWillMean

LEMMA RequestsStart == RequestsInit => RequestsInv
<1> SUFFICES ASSUME RequestsInit PROVE RequestsInv
  OBVIOUS
<1>1. /\ text = 1 /\ jobs = <<>> /\ conv = Nothing /\ made = 0 /\ swept = Nothing
      /\ \A t \in Tabs : request[t] = Nothing
  BY DEF RequestsInit
<1>2. {MaxText, MaxJobs, MaxConversations} \subseteq Nat \ {0}
  BY BoundAssumption
<1>3. DOMAIN jobs = {} /\ Len(jobs) = 0 /\ jobs \in Seq(Job)
  BY <1>1
<1>4. RequestsTypeOK
  <2>1. text \in 1..MaxText /\ Len(jobs) <= MaxJobs /\ made \in 0..MaxConversations
    BY <1>1, <1>2, <1>3
  <2>2. request \in [Tabs -> {Nothing} \cup Request]
    BY DEF RequestsInit
  <2> QED
    BY <1>1, <1>3, <2>1, <2>2 DEF RequestsTypeOK, KeysAreUnique
<1>5. \A feature : JobsOf(feature) = {}
  BY <1>3 DEF JobsOf
<1>6. AnalysesOK
  BY <1>1, <1>5 DEF AnalysesOK, AnalysesAreApart, OneAnalysisAtATime, Asks
<1>7. TurnsOK
  BY <1>1, <1>5, TurnsMean
<1>8. SynthesesOK /\ SynthesesCompare
  BY <1>1, <1>3, <1>5, SynthesesMean DEF TextsAreOld, Asks, SynthesesCompare
<1> QED
  BY <1>4, <1>6, <1>7, <1>8, RequestsMean

LEMMA RequestsAreKept == RequestsInv /\ [RequestsNext]_requestVars => RequestsInv'
<1> SUFFICES ASSUME RequestsInv, [RequestsNext]_requestVars PROVE RequestsInv'
  OBVIOUS
<1>1. ASSUME NEW t \in Tabs,
             AskAi(t) \/ SendToCoach(t) \/ CheckIsCurrent(t) \/ Enqueue(t) \/ GiveUp(t)
      PROVE  RequestsInv'
  BY <1>1, AskingKeeps, CoachKeeps, ComparingKeeps, AnsweringKeeps, GivingUpKeeps DEF GiveUp
<1>2. ASSUME NEW i \in DOMAIN jobs, PassWindow(i) \/ Succeed(i) \/ Fail(i) \/ Retry(i)
      PROVE  RequestsInv'
  BY <1>2, JobStepsKeep
<1>3. CASE Expire \/ CollectExpired \/ DeleteCollected \/ Write \/ UNCHANGED requestVars
  BY <1>3, TheRestKeeps
<1> QED
  BY <1>1, <1>2, <1>3 DEF RequestsNext

LEMMA RequestsInvHolds == RequestsSpec => []RequestsInv
BY RequestsStart, RequestsAreKept, PTL DEF RequestsSpec

(* Jobs, conversations and requests keep their types, with at most one job *)
(* for a key of a feature (unique constraint of AiJob, AiJobService.       *)
(* enqueue), for any tabs, keys, boards and personas.                      *)
THEOREM RequestTypes == RequestsSpec => []RequestsTypeOK
<1>1. RequestsInv => RequestsTypeOK
  BY DEF RequestsInv
<1> QED
  BY <1>1, RequestsInvHolds, PTL

(* However the requests of several tabs overlap with each other, with new  *)
(* text, with the worker and with the clean-up of conversations: one       *)
(* analysis of a board at a time, complete turns in every conversation and *)
(* syntheses of one text (request_analysis, request_chat, _process_chat    *)
(* and PrdEvaluationSynthesisService.request).                             *)
THEOREM RequestsStaySound == RequestsSpec => []RequestsAreSound
<1>1. RequestsInv => RequestsAreSound
  BY DEF RequestsInv, RequestsAreSound
<1> QED
  BY <1>1, RequestsInvHolds, PTL
=============================================================================
