----------------------- MODULE ContributionEvaluation -----------------------
(***************************************************************************)
(* Contribution evaluations of one PRD (apps/ai/contribution.py): what is  *)
(* scheduled after each completion commits, the evaluation rows, the AI    *)
(* job of each and the contribution_status the PRD shows.                  *)
(*                                                                         *)
(* The PRD behaves as PrdContract and the jobs as AiJobContract, the       *)
(* abstract specifications that PrdLifecycle and AiJobQueue implement;     *)
(* this module adds what contribution.py does at their steps and between   *)
(* them.  Completion c is the c-th completion of the PRD, and the job of   *)
(* its evaluation has the same number (the idempotency key of the job is   *)
(* made from the evaluation).                                              *)
(***************************************************************************)
EXTENDS Integers, FiniteSets, FiniteSetsExt

CONSTANTS MaxCompletions,  (* bound: how often the PRD is completed        *)
          Limit,           (* AI_JOB_MAX_ATTEMPTS                          *)
          MaxRetries       (* bound: retries of one job                    *)

ASSUME CompletionsAssumption == MaxCompletions \in Nat
ASSUME LimitAssumption == Limit \in Nat \ {0}
ASSUME MaxRetriesAssumption == MaxRetries \in Nat

VARIABLES phase, trashed, cycle,    (* the PRD, see PrdContract            *)
          job, tries, results,      (* the jobs, see AiJobContract         *)
          contribution,  (* prds.contribution_status                       *)
          evaluation,    (* contribution_evaluations, one per completion   *)
          scheduler,     (* where schedule_for_completion is for each      *)
          saw,           (* what a syncing transaction has read of the PRD *)
          retries        (* of each job                                    *)

Completions == 1..MaxCompletions

prdVars == <<phase, trashed, cycle>>
jobVars == <<job, tries, results>>
vars == <<prdVars, jobVars, contribution, evaluation, scheduler, saw, retries>>

Prd == INSTANCE PrdContract
Ai == INSTANCE AiJobContract WITH Jobs <- Completions, phase <- job
-----------------------------------------------------------------------------
(* A calculation_version of 0 is a row that does not exist.  snapshot says *)
(* whether the input was taken, or holds nothing but an error.             *)
Evaluation == [version : Completions \cup {0}, status : {"pending", "succeeded", "failed"},
               linked : BOOLEAN, comments : BOOLEAN, snapshot : BOOLEAN]

NoEvaluation == [version |-> 0, status |-> "pending", linked |-> FALSE,
                 comments |-> FALSE, snapshot |-> FALSE]

Steps == {"none", "started", "snapshot", "created", "enqueued", "failing", "done", "dead"}
Contributions == {"not_started", "pending", "succeeded", "failed"}

TypeOK ==
    /\ phase \in {"open", "completed", "gone"}
    /\ trashed \in BOOLEAN
    /\ cycle \in Completions \cup {0}
    /\ job \in [Completions -> {"none", "pending", "stopping", "delivered", "failed", "cancelled"}]
    /\ tries \in [Completions -> 0..Limit]
    /\ results \in [Completions -> Nat]
    /\ contribution \in Contributions
    /\ evaluation \in [Completions -> Evaluation]
    /\ scheduler \in [Completions -> Steps]
    /\ saw \in [Completions -> {"nothing", "current", "outdated"}]
    /\ retries \in [Completions -> 0..MaxRetries]

Init ==
    /\ Prd!Init
    /\ Ai!Init
    /\ contribution = "not_started"
    /\ evaluation = [c \in Completions |-> NoEvaluation]
    /\ scheduler = [c \in Completions |-> "none"]
    /\ saw = [c \in Completions |-> "nothing"]
    /\ retries = [c \in Completions |-> 0]
-----------------------------------------------------------------------------
Exists(c) == evaluation[c].version > 0
Versions == {evaluation[c].version : c \in Completions}

(* Faulty variant: numbering by completions.                               *)
NextVersionByCompletion == cycle + 1

NextVersion == Max(Versions) + 1
Latest(c) == evaluation[c].version = Max(Versions)

At(c, step) == scheduler[c] = step
Goto(c, step) == scheduler' = [scheduler EXCEPT ![c] = step]
Set(c, status) == evaluation' = [evaluation EXCEPT ![c].status = status]

(* _sync_current_prd_status asks whether the PRD is completed and whether  *)
(* the evaluation is its latest, and then updates the PRD.                 *)

(* Faulty variant: any evaluation of the PRD writes its status.            *)
SyncAnyway(c, status) ==
    contribution' = IF phase = "completed" THEN status ELSE contribution

(* Under the lock of the PRD.                                              *)
Sync(c, status) ==
    contribution' = IF Latest(c) /\ phase = "completed" THEN status ELSE contribution

(* Between reading the PRD and its commit, a transaction that did not lock *)
(* the PRD holds the lock of the evaluation row.                           *)
Unlocked(c) == saw[c] = "nothing"

Read(c) ==
    saw' = [saw EXCEPT ![c] = IF Latest(c) /\ phase = "completed" THEN "current" ELSE "outdated"]

(* Without the lock, a newer evaluation may have come since; it is noticed *)
(* only if it came between the two questions.                              *)
SyncLate(c, status) ==
    \/ saw[c] = "current" /\ contribution' = status
    \/ (saw[c] = "current" => ~Latest(c)) /\ UNCHANGED contribution
-----------------------------------------------------------------------------
(* The PRD.                                                                *)

CompletePrd ==
    /\ cycle + 1 \in Completions
    /\ Prd!Complete
    /\ contribution' = "pending"
    /\ Goto(cycle + 1, "started")
    /\ UNCHANGED <<jobVars, evaluation, saw, retries>>

ReopenPrd ==
    /\ Prd!Reopen
    /\ contribution' = "not_started"
    /\ UNCHANGED <<jobVars, evaluation, scheduler, saw, retries>>

TrashPrd ==
    /\ Prd!Trash
    /\ Ai!AskToStop({c \in Completions : job[c] = "pending"})
    /\ UNCHANGED <<contribution, evaluation, scheduler, saw, retries>>

RestorePrd ==
    /\ Prd!Restore
    /\ UNCHANGED <<jobVars, contribution, evaluation, scheduler, saw, retries>>

(* By the time a PRD is purged nothing of it is in progress any more.      *)
PurgePrd ==
    /\ Prd!Purge
    /\ \A c \in Completions : scheduler[c] \in {"none", "done", "dead"} /\ Unlocked(c)
    /\ Ai!Forget(Completions)
    /\ evaluation' = [c \in Completions |-> NoEvaluation]
    /\ UNCHANGED <<contribution, scheduler, saw, retries>>
-----------------------------------------------------------------------------
(* schedule_for_completion, after the completion has committed.  It runs   *)
(* without a lock between its transactions and may fail at each of them.   *)

(* The snapshot is of the PRD as it is now, which may be a later one than  *)
(* was completed.  That taking it gives notes back to their authors is     *)
(* modelled where the notes are (People, BoardVersions, BoardPolling,      *)
(* BrainstormBoard).                                                       *)
TakeSnapshot(c) ==
    /\ At(c, "started")
    /\ phase # "gone"
    /\ \E comments \in BOOLEAN :
         evaluation' = [evaluation EXCEPT ![c].comments = comments, ![c].snapshot = TRUE]
    /\ Goto(c, "snapshot")
    /\ UNCHANGED <<prdVars, jobVars, contribution, saw, retries>>

(* _create_evaluation; the version follows the order of this step, not of  *)
(* the completions.                                                        *)
CreateEvaluation(c) ==
    /\ At(c, "snapshot")
    /\ evaluation' = [evaluation EXCEPT ![c].version = NextVersion, ![c].status = "pending"]
    /\ contribution' = "pending"
    /\ Goto(c, "created")
    /\ UNCHANGED <<prdVars, jobVars, saw, retries>>

(* Without comments nothing is asked of the AI: persist stores the scores. *)
StoreWithoutAi(c) ==
    /\ At(c, "created")
    /\ ~evaluation[c].comments
    /\ Set(c, "succeeded")
    /\ Sync(c, "succeeded")
    /\ Goto(c, "done")
    /\ UNCHANGED <<prdVars, jobVars, saw, retries>>

EnqueueJob(c) ==
    /\ At(c, "created")
    /\ evaluation[c].comments
    /\ Ai!Submit(c)
    /\ Goto(c, "enqueued")
    /\ UNCHANGED <<prdVars, contribution, evaluation, saw, retries>>

LinkJob(c) ==
    /\ At(c, "enqueued")
    /\ evaluation' = [evaluation EXCEPT ![c].linked = TRUE]
    /\ Goto(c, "done")
    /\ UNCHANGED <<prdVars, jobVars, contribution, saw, retries>>

(* Any exception ends in _record_scheduling_failure; a process that dies   *)
(* records nothing.                                                        *)
SchedulingFails(c) ==
    /\ scheduler[c] \in {"started", "snapshot", "created", "enqueued"}
    /\ \E step \in {"failing", "dead"} : Goto(c, step)
    /\ UNCHANGED <<prdVars, jobVars, contribution, evaluation, saw, retries>>

(* The row exists: only it is locked, the PRD is read without a lock.      *)
ReadForFailure(c) ==
    /\ At(c, "failing")
    /\ Exists(c)
    /\ Unlocked(c)
    /\ Read(c)
    /\ UNCHANGED <<prdVars, jobVars, contribution, evaluation, scheduler, retries>>

(* The row does not exist: it is created under the lock of the PRD, with a *)
(* snapshot that holds nothing but the error.                              *)
RecordFailure(c) ==
    /\ At(c, "failing")
    /\ \/ /\ Exists(c)
          /\ ~Unlocked(c)
          /\ Set(c, "failed")
          /\ SyncLate(c, "failed")
       \/ /\ ~Exists(c)
          /\ evaluation' = [evaluation EXCEPT ![c] =
                              [NoEvaluation EXCEPT !.version = NextVersion, !.status = "failed"]]
          /\ contribution' = IF phase = "completed" THEN "failed" ELSE contribution
    /\ saw' = [saw EXCEPT ![c] = "nothing"]
    /\ Goto(c, "done")
    /\ UNCHANGED <<prdVars, jobVars, retries>>
-----------------------------------------------------------------------------
(* The job and its owner.  The worker holds the locks of job and PRD while *)
(* it settles a job.                                                       *)

TryJob(c) ==
    /\ Ai!Try(c)
    /\ UNCHANGED <<prdVars, contribution, evaluation, scheduler, saw, retries>>

(* Faulty variant: a job that finds no evaluation still succeeds.          *)
DeliverUnlinkedToo(c) ==
    /\ Unlocked(c)
    /\ Ai!Deliver(c)
    /\ IF evaluation[c].linked /\ evaluation[c].status # "succeeded"
       THEN Set(c, "succeeded") /\ Sync(c, "succeeded")
       ELSE UNCHANGED <<evaluation, contribution>>
    /\ UNCHANGED <<prdVars, scheduler, saw, retries>>

(* process and persist; a job without its evaluation is a failed attempt.  *)
DeliverJob(c) ==
    /\ evaluation[c].linked
    /\ Unlocked(c)
    /\ Ai!Deliver(c)
    /\ Set(c, "succeeded")
    /\ IF evaluation[c].status = "succeeded"
       THEN UNCHANGED contribution
       ELSE Sync(c, "succeeded")
    /\ UNCHANGED <<prdVars, scheduler, saw, retries>>

(* mark_contribution_job_failed finds the evaluation through its job.      *)
MarkFailed(c) ==
    IF evaluation[c].linked
    THEN Set(c, "failed") /\ Sync(c, "failed")
    ELSE UNCHANGED <<evaluation, contribution>>

FailJob(c) ==
    /\ evaluation[c].linked => Unlocked(c)
    /\ Ai!Fail(c)
    /\ MarkFailed(c)
    /\ UNCHANGED <<prdVars, scheduler, saw, retries>>

WorkerConfirmsStop(c) ==
    /\ evaluation[c].linked => Unlocked(c)
    /\ job[c] = "stopping"
    /\ tries[c] > 0
    /\ Ai!Stop(c)
    /\ MarkFailed(c)
    /\ UNCHANGED <<prdVars, scheduler, saw, retries>>

(* AiJobService.cancel: a job no worker holds is cancelled on the spot.    *)
CancelJob(c) ==
    /\ ~trashed
    /\ job[c] = "pending"
    /\ Ai!Stop(c) \/ (tries[c] > 0 /\ Ai!AskToStop({c}))
    /\ UNCHANGED <<prdVars, contribution, evaluation, scheduler, saw, retries>>

(* retry_job of the API, which a completed PRD refuses.                    *)
RetryJob(c) ==
    /\ phase = "open"
    /\ ~trashed
    /\ job[c] = "failed"
    /\ retries[c] < MaxRetries
    /\ Ai!Submit(c)
    /\ retries' = [retries EXCEPT ![c] = @ + 1]
    /\ UNCHANGED <<prdVars, contribution, evaluation, scheduler, saw>>
-----------------------------------------------------------------------------
(* retry_same_input, an administrator's transaction: it locks the          *)
(* evaluation and reads the PRD without a lock; then it submits the job,   *)
(* the old one or one under the same idempotency key, and commits.  Only   *)
(* making a new job locks the PRD.                                         *)

Retryable(c) ==
    /\ Exists(c)
    /\ evaluation[c].status = "failed"
    /\ evaluation[c].snapshot

CanResubmit(c) == evaluation[c].linked => job[c] = "failed"

BeginRetry(c) ==
    /\ ~trashed
    /\ scheduler[c] \in {"done", "dead"}
    /\ Unlocked(c)
    /\ Retryable(c)
    /\ CanResubmit(c)
    /\ retries[c] < MaxRetries
    /\ Read(c)
    /\ retries' = [retries EXCEPT ![c] = @ + 1]
    /\ UNCHANGED <<prdVars, jobVars, contribution, evaluation, scheduler>>

CommitRetry(c) ==
    /\ scheduler[c] \in {"done", "dead"}
    /\ ~Unlocked(c)
    /\ IF evaluation[c].linked \/ job[c] = "none"
       THEN Ai!Submit(c)
       ELSE UNCHANGED jobVars
    /\ evaluation' = [evaluation EXCEPT ![c].status = "pending", ![c].linked = TRUE]
    /\ SyncLate(c, "pending")
    /\ job[c] = "none" /\ ~Latest(c) => contribution' = contribution
    /\ saw' = [saw EXCEPT ![c] = "nothing"]
    /\ UNCHANGED <<prdVars, scheduler, retries>>

(* A usage limit, or somebody who resubmitted the job meanwhile, rolls the *)
(* retry back.                                                             *)
AbortRetry(c) ==
    /\ scheduler[c] \in {"done", "dead"}
    /\ ~Unlocked(c)
    /\ saw' = [saw EXCEPT ![c] = "nothing"]
    /\ UNCHANGED <<prdVars, jobVars, contribution, evaluation, scheduler, retries>>
-----------------------------------------------------------------------------
Schedule(c) ==
    \/ TakeSnapshot(c) \/ CreateEvaluation(c) \/ StoreWithoutAi(c)
    \/ EnqueueJob(c) \/ LinkJob(c) \/ SchedulingFails(c)
    \/ ReadForFailure(c) \/ RecordFailure(c)

Work(c) == TryJob(c) \/ DeliverJob(c) \/ FailJob(c) \/ WorkerConfirmsStop(c)

Ask(c) ==
    \/ CancelJob(c) \/ RetryJob(c)
    \/ BeginRetry(c) \/ CommitRetry(c) \/ AbortRetry(c)

Next ==
    \/ CompletePrd \/ ReopenPrd \/ TrashPrd \/ RestorePrd \/ PurgePrd
    \/ \E c \in Completions : Schedule(c) \/ Work(c) \/ Ask(c)

Spec == Init /\ [][Next]_vars
-----------------------------------------------------------------------------
(* Safety.                                                                 *)

(* Scores are never lost or replaced: whatever schedulers, workers,        *)
(* cancellations, reopenings and administrators do afterwards, a succeeded *)
(* evaluation stays as it is for as long as the PRD exists.                *)
ScoresAreFinal == [][\A c \in Completions :
    Exists(c) /\ evaluation[c].status = "succeeded" /\ phase' # "gone"
      => evaluation'[c] = evaluation[c]]_vars

(* An answer the AI was paid for is scored, and scores that need the AI    *)
(* come from an answer.                                                    *)
AnswersAreScored == \A c \in Completions :
    /\ job[c] = "delivered" => Exists(c) /\ evaluation[c].status = "succeeded"
    /\ Exists(c) /\ evaluation[c].status = "succeeded"
         => job[c] = "delivered" \/ ~evaluation[c].comments

(* uniq_contribution_calculation_version: evaluations are numbered 1, 2,   *)
(* ... however their schedulers overtake each other.                       *)
VersionsAreConsecutive ==
    LET existing == {c \in Completions : Exists(c)}
    IN  {evaluation[c].version : c \in existing} = 1..Cardinality(existing)

(* Every answer becomes one numbered evaluation.                           *)
AnswersAreAccountedFor == AnswersAreScored /\ VersionsAreConsecutive

(* The completed PRD shows the status of its newest evaluation, from the   *)
(* moment its completion has one.                                          *)
ShowsNewest ==
    phase = "completed" /\ (\E c \in Completions : c = cycle /\ Exists(c))
      => \A c \in Completions :
           Exists(c) /\ Latest(c) => contribution = evaluation[c].status

(* A sync without the lock that writes although it has been overtaken.     *)
OvertakenSync == \E c \in Completions :
    /\ saw[c] = "current" /\ saw'[c] = "nothing"
    /\ ~Latest(c)
    /\ contribution' = evaluation'[c].status

NewestStatusStays == \A c \in Completions :
    Exists(c)' /\ Latest(c)'
      => Exists(c) /\ evaluation'[c].status = evaluation[c].status

(* However schedulers, workers and administrators overtake each other and  *)
(* completions, one thing alone makes a completed PRD show another status  *)
(* than its newest evaluation has: a retry or a failing scheduler that     *)
(* looked for the latest evaluation before a newer one came, and writes    *)
(* afterwards.  The next change of the newest evaluation puts that right.  *)
ContributionFollowsNewest ==
    [][ShowsNewest' \/ OvertakenSync \/ (~ShowsNewest /\ NewestStatusStays)]_vars
-----------------------------------------------------------------------------
(* What the documents say, and the code does not do.                       *)

(* docs/specs/brainstorm-backend-scenario.md:769: a failed evaluation      *)
(* allows an administrator to retry it.                                    *)
FailedEvaluationCanBeRetried == \A c \in Completions :
    Retryable(c) /\ scheduler[c] = "done" /\ phase = "completed" /\ ~trashed
      => CanResubmit(c) \/ job[c] = "pending"
=============================================================================
