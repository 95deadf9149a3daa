----------------------------- MODULE AiJobQueue -----------------------------
(***************************************************************************)
(* The AI job queue: rows of the ai_jobs table, the web requests that      *)
(* write them (apps/ai/services.py, apps/prds/detail_views.py) and the     *)
(* worker processes that claim and execute them (apps/ai/worker.py).       *)
(*                                                                         *)
(* Every action is one database transaction, or one step a worker makes    *)
(* between two of them.  A worker keeps only the primary key of its job    *)
(* while it talks to the provider, so everything it does afterwards is     *)
(* decided by the row as it finds it then.                                 *)
(***************************************************************************)
EXTENDS Integers

CONSTANTS Jobs,         (* the requests that may become rows of ai_jobs        *)
          Prds,         (* the PRDs the jobs belong to                         *)
          PrdOf,        (* AiJob.prd                                           *)
          Workers,      (* run_job_worker processes                            *)
          NoWorker,     (* an empty locked_by                                  *)
          NoJob,        (* what an idle worker works on                        *)
          MaxAttempts,  (* AI_JOB_MAX_ATTEMPTS                                 *)
          MaxRetries    (* bound: how often a user retries one finished job    *)

ASSUME PrdOfAssumption == PrdOf \in [Jobs -> Prds]
ASSUME NoWorkerAssumption == NoWorker \notin Workers
ASSUME NoJobAssumption == NoJob \notin Jobs
ASSUME MaxAttemptsAssumption == MaxAttempts \in Nat \ {0}
ASSUME MaxRetriesAssumption == MaxRetries \in Nat

VARIABLES job,      (* the row of each job                                     *)
          prd,      (* where each PRD is in its deletion life cycle            *)
          worker,   (* what each worker process is doing                       *)
          usage,    (* rows of ai_usage_logs of each job, counted by status    *)
          history   (* of each job: claims made, retries asked, results stored *)

vars == <<job, prd, worker, usage, history>>
-----------------------------------------------------------------------------
Waiting == {"queued", "retry_wait"}
Finished == {"succeeded", "failed", "cancelled", "timed_out"}
Statuses == Waiting \cup Finished \cup {"absent", "running", "cancel_requested"}

(* lease_expires_at compared with the clock: NULL, in the future, passed.  *)
Leases == {"none", "live", "expired"}

(* due: the row waits and available_at is not in the future.               *)
JobRow == [status : Statuses, attempt_count : 0..MaxAttempts,
           locked_by : Workers \cup {NoWorker}, lease : Leases,
           due : BOOLEAN, finished_at : BOOLEAN]

NoRow == [status |-> "absent", attempt_count |-> 0, locked_by |-> NoWorker,
          lease |-> "none", due |-> FALSE, finished_at |-> FALSE]

NewRow == [NoRow EXCEPT !.status = "queued", !.due = TRUE]

Failures == {"fail_timeout", "fail_retry", "fail_final"}
WorkerState == [pc : {"idle", "claimed", "calling", "answered"} \cup Failures,
                job : Jobs \cup {NoJob}]
Idle == [pc |-> "idle", job |-> NoJob]

Outcomes == {"success", "failed", "cancelled"}
NoUsage == [o \in Outcomes |-> 0]
NoHistory == [claims |-> 0, retries |-> 0, results |-> 0]

TypeOK ==
    /\ job \in [Jobs -> JobRow]
    /\ prd \in [Prds -> {"active", "trash", "gone"}]
    /\ worker \in [Workers -> WorkerState]
    /\ usage \in [Jobs -> [Outcomes -> Nat]]
    /\ history \in [Jobs -> [claims : Nat, retries : 0..MaxRetries, results : Nat]]

Init ==
    /\ job = [j \in Jobs |-> NoRow]
    /\ prd = [p \in Prds |-> "active"]
    /\ worker = [w \in Workers |-> Idle]
    /\ usage = [j \in Jobs |-> NoUsage]
    /\ history = [j \in Jobs |-> NoHistory]

JobsOf(p) == {j \in Jobs : PrdOf[j] = p}
Logged(u, outcome) == [u EXCEPT ![outcome] = @ + 1]
LogUsage(j, outcome) == usage' = [usage EXCEPT ![j] = Logged(@, outcome)]
-----------------------------------------------------------------------------
(* What the transactions write to a row.                                   *)

Withdrawn(row) == [row EXCEPT !.status = "cancelled", !.due = FALSE, !.finished_at = TRUE]

AskedToStop(row) == [row EXCEPT !.status = "cancel_requested", !.due = FALSE]

ClaimedBy(row, w) ==
    [status |-> "running", attempt_count |-> row.attempt_count + 1, locked_by |-> w,
     lease |-> "live", due |-> FALSE, finished_at |-> FALSE]

(* Faulty variant: ending an attempt without clearing lease_expires_at.    *)
ReleasedWithLease(row, status) ==
    [row EXCEPT !.status = status, !.finished_at = TRUE, !.locked_by = NoWorker]

Released(row, status) ==
    [row EXCEPT !.status = status, !.finished_at = TRUE,
                !.locked_by = NoWorker, !.lease = "none"]

(* Faulty variant: one attempt too many.                                   *)
AfterFailureOneMore(row, retryable, end, waits) ==
    IF retryable /\ row.attempt_count <= MaxAttempts
    THEN [row EXCEPT !.status = "retry_wait", !.due = ~waits,
                     !.locked_by = NoWorker, !.lease = "none"]
    ELSE Released(row, end)

(* What a failed attempt makes of the row: wait for another attempt while  *)
(* the limit allows one, otherwise end with the given status.              *)
AfterFailure(row, retryable, end, waits) ==
    IF retryable /\ row.attempt_count < MaxAttempts
    THEN [row EXCEPT !.status = "retry_wait", !.due = ~waits,
                     !.locked_by = NoWorker, !.lease = "none"]
    ELSE Released(row, end)
-----------------------------------------------------------------------------
(* Web requests.  Access to the PRD is checked before the transaction that *)
(* writes, so a request admitted while the PRD was active may write after  *)
(* it went to the trash, but never after the row is gone.                  *)

Enqueue(j) ==
    /\ job[j].status = "absent"
    /\ prd[PrdOf[j]] # "gone"
    /\ job' = [job EXCEPT ![j] = NewRow]
    /\ UNCHANGED <<prd, worker, usage, history>>

(* A waiting job ends at once; a claimed one is only marked and its worker *)
(* or the recovery of its lease ends it.                                   *)
Cancel(j) ==
    /\ job[j].status \notin Finished \cup {"absent"}
    /\ \/ /\ job[j].status \in Waiting
          /\ job' = [job EXCEPT ![j] = Withdrawn(@)]
          /\ LogUsage(j, "cancelled")
       \/ /\ job[j].status \notin Waiting
          /\ job' = [job EXCEPT ![j] = AskedToStop(@)]
          /\ UNCHANGED usage
    /\ UNCHANGED <<prd, worker, history>>

Retry(j) ==
    /\ job[j].status \in {"failed", "timed_out"}
    /\ history[j].retries < MaxRetries
    /\ job' = [job EXCEPT ![j] = NewRow]
    /\ history' = [history EXCEPT ![j].retries = @ + 1]
    /\ UNCHANGED <<prd, worker, usage>>

(* Moving a PRD to the trash asks every unfinished job of it to stop with  *)
(* one bulk UPDATE of status and cancel_requested_at.                      *)
DeletePrd(p) ==
    /\ prd[p] = "active"
    /\ prd' = [prd EXCEPT ![p] = "trash"]
    /\ job' = [j \in Jobs |->
                 IF j \in JobsOf(p) /\ job[j].status \in Waiting \cup {"running"}
                 THEN AskedToStop(job[j])
                 ELSE job[j]]
    /\ UNCHANGED <<worker, usage, history>>

RestorePrd(p) ==
    /\ prd[p] = "trash"
    /\ prd' = [prd EXCEPT ![p] = "active"]
    /\ UNCHANGED <<job, worker, usage, history>>

(* Midnight maintenance deletes a PRD 30 days after it went to the trash,  *)
(* with its jobs and usage rows; no worker is still busy with one by then. *)
PurgePrd(p) ==
    /\ prd[p] = "trash"
    /\ \A w \in Workers : worker[w].job \notin JobsOf(p)
    /\ prd' = [prd EXCEPT ![p] = "gone"]
    /\ job' = [j \in Jobs |-> IF j \in JobsOf(p) THEN NoRow ELSE job[j]]
    /\ usage' = [j \in Jobs |-> IF j \in JobsOf(p) THEN NoUsage ELSE usage[j]]
    /\ history' = [j \in Jobs |-> IF j \in JobsOf(p) THEN NoHistory ELSE history[j]]
    /\ UNCHANGED worker
-----------------------------------------------------------------------------
(* Time.                                                                   *)

BackoffElapses(j) ==
    /\ job[j].status = "retry_wait"
    /\ ~job[j].due
    /\ job' = [job EXCEPT ![j].due = TRUE]
    /\ UNCHANGED <<prd, worker, usage, history>>

LeaseExpires(j) ==
    /\ job[j].lease = "live"
    /\ job' = [job EXCEPT ![j].lease = "expired"]
    /\ UNCHANGED <<prd, worker, usage, history>>
-----------------------------------------------------------------------------
(* The worker.  skip_locked passes over a row another transaction holds,   *)
(* so any due row, or any row with an expired lease, may be the one taken. *)

Claim(w, j) ==
    /\ worker[w].pc = "idle"
    /\ job[j].status \in Waiting
    /\ job[j].due
    /\ job' = [job EXCEPT ![j] = ClaimedBy(@, w)]
    /\ worker' = [worker EXCEPT ![w] = [pc |-> "claimed", job |-> j]]
    /\ history' = [history EXCEPT ![j].claims = @ + 1]
    /\ UNCHANGED <<prd, usage>>

(* Building the request may fail, the provider may be unconfigured, and a  *)
(* request to stop is noticed before the HTTP call starts.                 *)
BeginCall(w) ==
    /\ worker[w].pc = "claimed"
    /\ \E next \in {"calling", "fail_retry", "fail_final"} :
         /\ next = "calling" => job[worker[w].job].status # "cancel_requested"
         /\ worker' = [worker EXCEPT ![w].pc = next]
    /\ UNCHANGED <<job, prd, usage, history>>

(* The call answers, times out or fails; an answer to a job asked to stop  *)
(* is dropped, and one that fails a check is a failed attempt.             *)
EndCall(w) ==
    /\ worker[w].pc = "calling"
    /\ \E next \in {"answered"} \cup Failures :
         /\ next = "answered" => job[worker[w].job].status # "cancel_requested"
         /\ worker' = [worker EXCEPT ![w].pc = next]
    /\ UNCHANGED <<job, prd, usage, history>>

MarkCancelled(j) ==
    /\ job' = [job EXCEPT ![j] = Released(@, "cancelled")]
    /\ LogUsage(j, "cancelled")

StoreResult(j) ==
    /\ job' = [job EXCEPT ![j] = Released(@, "succeeded")]
    /\ LogUsage(j, "success")
    /\ history' = [history EXCEPT ![j].results = @ + 1]

(* Faulty variant: storing an answer after looking only for a row that is  *)
(* settled already.                                                        *)
FinishSuccessUnlessSettled(w) ==
    LET j == worker[w].job IN
    /\ worker[w].pc = "answered"
    /\ IF job[j].status \in {"running", "cancel_requested"}
       THEN StoreResult(j)
       ELSE UNCHANGED <<job, usage, history>>
    /\ worker' = [worker EXCEPT ![w] = Idle]
    /\ UNCHANGED prd

(* _finish_success; a result processor that raises rolls the transaction   *)
(* back and the worker goes on to _finish_failure with a retryable error.  *)
FinishSuccess(w) ==
    LET j == worker[w].job IN
    /\ worker[w].pc = "answered"
    /\ \/ /\ job[j].status = "cancel_requested"
          /\ MarkCancelled(j)
          /\ worker' = [worker EXCEPT ![w] = Idle]
          /\ UNCHANGED history
       \/ /\ job[j].status \notin {"cancel_requested", "running"}
          /\ worker' = [worker EXCEPT ![w] = Idle]
          /\ UNCHANGED <<job, usage, history>>
       \/ /\ job[j].status = "running"
          /\ StoreResult(j)
          /\ worker' = [worker EXCEPT ![w] = Idle]
       \/ /\ job[j].status = "running"
          /\ worker' = [worker EXCEPT ![w].pc = "fail_retry"]
          /\ UNCHANGED <<job, usage, history>>
    /\ UNCHANGED prd

(* Faulty variant: a failure is logged although the attempt was settled.   *)
FinishFailureLoggedAnyway(w) ==
    LET j == worker[w].job IN
    /\ worker[w].pc \in Failures
    /\ \/ /\ job[j].status = "cancel_requested"
          /\ MarkCancelled(j)
       \/ /\ job[j].status # "cancel_requested"
          /\ job' = [job EXCEPT ![j] = IF @.status = "running"
                                       THEN AfterFailure(@, TRUE, "failed", TRUE) ELSE @]
          /\ LogUsage(j, "failed")
    /\ worker' = [worker EXCEPT ![w] = Idle]
    /\ UNCHANGED <<prd, history>>

FinishFailure(w) ==
    LET j == worker[w].job IN
    /\ worker[w].pc \in Failures
    /\ \/ /\ job[j].status = "cancel_requested"
          /\ MarkCancelled(j)
       \/ /\ job[j].status \notin {"cancel_requested", "running"}
          /\ UNCHANGED <<job, usage>>
       \/ /\ job[j].status = "running"
          /\ job' = [job EXCEPT ![j] =
                       AfterFailure(@, worker[w].pc # "fail_final",
                                    IF worker[w].pc = "fail_timeout"
                                    THEN "timed_out" ELSE "failed", TRUE)]
          /\ LogUsage(j, "failed")
    /\ worker' = [worker EXCEPT ![w] = Idle]
    /\ UNCHANGED <<prd, history>>

(* Faulty variant: recovery that looks for running jobs only.              *)
RecoverRunningOnly(w, j) ==
    /\ worker[w].pc = "idle"
    /\ job[j].lease = "expired"
    /\ job[j].status = "running"
    /\ job' = [job EXCEPT ![j] = AfterFailure(@, TRUE, "timed_out", FALSE)]
    /\ LogUsage(j, "failed")
    /\ UNCHANGED <<prd, worker, history>>

RecoverExpired(w, j) ==
    /\ worker[w].pc = "idle"
    /\ job[j].lease = "expired"
    /\ \/ /\ job[j].status = "cancel_requested"
          /\ MarkCancelled(j)
       \/ /\ job[j].status = "running"
          /\ job' = [job EXCEPT ![j] = AfterFailure(@, TRUE, "timed_out", FALSE)]
          /\ LogUsage(j, "failed")
    /\ UNCHANGED <<prd, worker, history>>

(* The process dies between two transactions and is started again.         *)
WorkerCrash(w) ==
    /\ worker[w].pc # "idle"
    /\ worker' = [worker EXCEPT ![w] = Idle]
    /\ UNCHANGED <<job, prd, usage, history>>
-----------------------------------------------------------------------------
Execute(w) == BeginCall(w) \/ EndCall(w) \/ FinishSuccess(w) \/ FinishFailure(w)

Next ==
    \/ \E j \in Jobs : \/ Enqueue(j) \/ Cancel(j) \/ Retry(j)
                       \/ BackoffElapses(j) \/ LeaseExpires(j)
    \/ \E p \in Prds : DeletePrd(p) \/ RestorePrd(p) \/ PurgePrd(p)
    \/ \E w \in Workers, j \in Jobs : Claim(w, j) \/ RecoverExpired(w, j)
    \/ \E w \in Workers : Execute(w) \/ WorkerCrash(w)

(* Workers run run_once in a loop, every provider call ends within its     *)
(* timeout, clocks advance and midnight maintenance runs every day.        *)
(* Nothing is assumed of users, and nothing of crashes.                    *)
Fairness ==
    /\ WF_vars(\E w \in Workers, j \in Jobs : Claim(w, j))
    /\ WF_vars(\E w \in Workers, j \in Jobs : RecoverExpired(w, j))
    /\ \A w \in Workers : WF_vars(Execute(w))
    /\ \A j \in Jobs : WF_vars(BackoffElapses(j)) /\ WF_vars(LeaseExpires(j))
    /\ \A p \in Prds : WF_vars(PurgePrd(p))

Spec == Init /\ [][Next]_vars
FairSpec == Spec /\ Fairness
-----------------------------------------------------------------------------
(* Safety.                                                                 *)

Claimed(j) == job[j].lease # "none"

(* A row holds a lease exactly while an attempt on it is open: a running   *)
(* row without one could never be recovered (worker.py:285), and a lease   *)
(* left on a settled row would be recovered although nothing is running.   *)
LeaseTracksAttempt == \A j \in Jobs :
    /\ job[j].status = "running" => Claimed(j)
    /\ Claimed(j) => job[j].status \in {"running", "cancel_requested"}
    /\ Claimed(j) <=> job[j].locked_by # NoWorker

(* Claiming adds an attempt without looking at max_attempts (worker.py:84) *)
(* and the table refuses a row above it: no waiting row has used them up,  *)
(* and a row that is running or ended by an attempt has used at least one. *)
AttemptsWithinLimit == \A j \in Jobs :
    /\ job[j].status \in Waiting => job[j].attempt_count < MaxAttempts
    /\ job[j].status \in {"running", "succeeded", "failed", "timed_out"}
         => job[j].attempt_count > 0

(* However workers, leases and users interleave, each claim of a job ends  *)
(* up as exactly one usage row once it is over, the rows the daily limits  *)
(* are computed from; one further row stands for a cancellation that ended *)
(* a job no worker was holding.                                            *)
UsageAccountsForClaims == \A j \in Jobs :
    LET open == IF Claimed(j) THEN 1 ELSE 0
        logged == usage[j]["success"] + usage[j]["failed"] + usage[j]["cancelled"]
    IN  \/ logged + open = history[j].claims
        \/ /\ job[j].status = "cancelled"
           /\ logged = history[j].claims + 1

(* The result processor commits once for a job that succeeded and never    *)
(* for another, although a worker whose lease ran out still answers later  *)
(* and a failed job may be queued again.                                   *)
ResultStoredOnce == \A j \in Jobs :
    history[j].results = IF job[j].status = "succeeded" THEN 1 ELSE 0

(* The retention cleanup and the screens read finished_at: it is set on    *)
(* the settled rows and on no other, through retries and recoveries.       *)
FinishedAtTracksStatus == \A j \in Jobs :
    job[j].finished_at <=> job[j].status \in Finished

(* The fields of a row agree with each other and with what was done: no    *)
(* row is left that no worker could recover, claim or clean up, or whose   *)
(* result is not what its status says.                                     *)
RowsAreConsistent ==
    LeaseTracksAttempt /\ AttemptsWithinLimit /\ ResultStoredOnce /\ FinishedAtTracksStatus

(* The invariant the proofs carry through every step.                      *)
QueueInv == TypeOK /\ RowsAreConsistent /\ UsageAccountsForClaims

(* Once a stop was asked for, no step of any worker or user turns the job  *)
(* back into one that runs, waits, succeeds or fails.                      *)
StopIsNeverUndone == [][\A j \in Jobs :
    job[j].status = "cancel_requested"
      => job'[j].status \in {"cancel_requested", "cancelled", "absent"}]_vars

(* Refinement.                                                             *)
PhaseOf(status) ==
    CASE status = "absent" -> "none"
      [] status \in Waiting \cup {"running"} -> "pending"
      [] status = "cancel_requested" -> "stopping"
      [] status = "succeeded" -> "delivered"
      [] status \in {"failed", "timed_out"} -> "failed"
      [] status = "cancelled" -> "cancelled"

Contract == INSTANCE AiJobContract
              WITH Limit <- MaxAttempts,
                   phase <- [j \in Jobs |-> PhaseOf(job[j].status)],
                   tries <- [j \in Jobs |-> job[j].attempt_count],
                   results <- [j \in Jobs |-> history[j].results]

(* The queue with its workers, leases and crashes keeps the contract.      *)
ImplementsContract == Contract!Spec
-----------------------------------------------------------------------------
(* Liveness, under Fairness.                                               *)

(* No job waits or runs for ever: crashes, expired leases, retryable       *)
(* errors and back-off still end in a settled row or in a request to stop. *)
WaitingJobsSettle == \A j \in Jobs :
    job[j].status \in Waiting \cup {"running"}
      ~> job[j].status \in Finished \cup {"cancel_requested", "absent"}

(* A request to stop a job a worker holds ends in cancelled, even if that  *)
(* worker dies: its lease runs out and another run confirms it.            *)
ClaimedStopIsConfirmed == \A j \in Jobs :
    job[j].status = "cancel_requested" /\ Claimed(j)
      ~> job[j].status \in {"cancelled", "absent"}

(* What users asked for comes to an end.                                   *)
JobsSettle == WaitingJobsSettle /\ ClaimedStopIsConfirmed
-----------------------------------------------------------------------------
(* What the documents say, and the code does not do.                       *)

(* docs/report/STATE_DIAGRAMS.md:98 gives every cancel_requested job one   *)
(* way on: the worker confirms the cancellation.                           *)
EveryStopIsConfirmed == \A j \in Jobs :
    job[j].status = "cancel_requested" ~> job[j].status \in {"cancelled", "absent"}
=============================================================================
