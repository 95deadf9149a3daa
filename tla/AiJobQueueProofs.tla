-------------------------- MODULE AiJobQueueProofs --------------------------
(***************************************************************************)
(* Proofs about the AI job queue, for any numbers of jobs, PRDs, workers,  *)
(* attempts and retries.                                                   *)
(*                                                                         *)
(* All safety invariants of the queue speak of one job at a time, so they  *)
(* are proved row by row: Safe collects what they say of one row together  *)
(* with its usage and its history, the first lemmas show that every write  *)
(* of a transaction keeps a row safe, and the step theorem only has to     *)
(* tell which row each action writes.                                      *)
(***************************************************************************)
EXTENDS AiJobQueue, TLAPS

UsageRow == [Outcomes -> Nat]
HistoryRow == [claims : Nat, retries : 0..MaxRetries, results : Nat]

LoggedOf(u) == u["success"] + u["failed"] + u["cancelled"]
OpenOf(row) == IF row.lease # "none" THEN 1 ELSE 0

Safe(row, u, h) ==
    /\ row.status = "running" => row.lease # "none"
    /\ row.lease # "none" => row.status \in {"running", "cancel_requested"}
    /\ row.lease # "none" <=> row.locked_by # NoWorker
    /\ row.status \in Waiting => row.attempt_count < MaxAttempts
    /\ row.status \in {"running", "succeeded", "failed", "timed_out"}
         => row.attempt_count > 0
    /\ \/ LoggedOf(u) + OpenOf(row) = h.claims
       \/ row.status = "cancelled" /\ LoggedOf(u) = h.claims + 1
    /\ h.results = IF row.status = "succeeded" THEN 1 ELSE 0
    /\ row.finished_at <=> row.status \in Finished

RowOK(row, u, h) ==
    /\ row \in JobRow
    /\ u \in UsageRow
    /\ h \in HistoryRow
    /\ Safe(row, u, h)

(* The queue is correct exactly when each of its rows is.                  *)
Shape ==
    /\ prd \in [Prds -> {"active", "trash", "gone"}]
    /\ worker \in [Workers -> WorkerState]
    /\ job = [j \in Jobs |-> job[j]]
    /\ usage = [j \in Jobs |-> usage[j]]
    /\ history = [j \in Jobs |-> history[j]]

AllRowsOK == \A j \in Jobs : RowOK(job[j], usage[j], history[j])

LEMMA RowWise == QueueInv <=> Shape /\ AllRowsOK
<1>1. QueueInv => Shape
  BY DEF QueueInv, TypeOK, Shape
<1>2. QueueInv => AllRowsOK
  <2> SUFFICES ASSUME QueueInv, NEW j \in Jobs
               PROVE  RowOK(job[j], usage[j], history[j])
    BY DEF AllRowsOK
  <2>1. /\ job[j] \in JobRow
        /\ usage[j] \in UsageRow
        /\ history[j] \in HistoryRow
    BY DEF QueueInv, TypeOK, UsageRow, HistoryRow
  <2>2. Safe(job[j], usage[j], history[j])
    BY DEF QueueInv, RowsAreConsistent, Safe, LoggedOf, OpenOf, Claimed,
           LeaseTracksAttempt, AttemptsWithinLimit, UsageAccountsForClaims, ResultStoredOnce,
           FinishedAtTracksStatus
  <2> QED BY <2>1, <2>2 DEF RowOK
<1>3. ASSUME Shape, AllRowsOK PROVE QueueInv
  <2>1. TypeOK
    BY <1>3 DEF Shape, AllRowsOK, RowOK, TypeOK, UsageRow, HistoryRow
  <2>2. \A j \in Jobs : Safe(job[j], usage[j], history[j])
    BY <1>3 DEF AllRowsOK, RowOK
  <2>3. LeaseTracksAttempt
    BY <2>2 DEF Safe, LeaseTracksAttempt, Claimed
  <2>4. AttemptsWithinLimit
    BY <2>2 DEF Safe, AttemptsWithinLimit
  <2>5. UsageAccountsForClaims
    BY <2>2 DEF Safe, UsageAccountsForClaims, LoggedOf, OpenOf, Claimed
  <2>6. ResultStoredOnce
    BY <2>2 DEF Safe, ResultStoredOnce
  <2>7. FinishedAtTracksStatus
    BY <2>2 DEF Safe, FinishedAtTracksStatus
  <2> QED BY <2>1, <2>3, <2>4, <2>5, <2>6, <2>7 DEF QueueInv, RowsAreConsistent
<1> QED BY <1>1, <1>2, <1>3
-----------------------------------------------------------------------------
(* One row.                                                                *)

(* A usage row of any outcome adds one to what is logged.                  *)
LEMMA LoggedAddsOne ==
  ASSUME NEW u \in UsageRow, NEW o \in Outcomes
  PROVE  /\ Logged(u, o) \in UsageRow
         /\ LoggedOf(Logged(u, o)) = LoggedOf(u) + 1
         /\ LoggedOf(u) \in Nat
BY DEF UsageRow, Logged, LoggedOf, Outcomes

LEMMA NoRowOK == RowOK(NoRow, NoUsage, NoHistory)
BY NoWorkerAssumption, MaxAttemptsAssumption, MaxRetriesAssumption
   DEF RowOK, Safe, NoRow, NoUsage, NoHistory, JobRow, UsageRow, HistoryRow,
       LoggedOf, OpenOf, Waiting, Finished, Statuses, Leases, Outcomes

(* A queued row is safe once nothing is owed on the row it replaces.       *)
LEMMA NewRowOK ==
  ASSUME NEW u \in UsageRow, NEW h \in HistoryRow,
         LoggedOf(u) = h.claims, h.results = 0
  PROVE  RowOK(NewRow, u, h)
<1>1. LoggedOf(u) \in Nat
  BY LoggedAddsOne DEF Outcomes
<1>2. NoRow \in JobRow
  BY NoRowOK DEF RowOK
<1>3. NewRow \in JobRow
  BY <1>2 DEF NewRow, JobRow, Statuses, Waiting
<1> QED
  BY <1>1, <1>2, <1>3, MaxAttemptsAssumption
     DEF RowOK, Safe, NewRow, NoRow, JobRow, HistoryRow, OpenOf, Waiting, Finished

LEMMA WithdrawnOK ==
  ASSUME NEW row, NEW u, NEW h, RowOK(row, u, h), row.status \in Waiting
  PROVE  RowOK(Withdrawn(row), Logged(u, "cancelled"), h)
<1>1. /\ Logged(u, "cancelled") \in UsageRow
      /\ LoggedOf(Logged(u, "cancelled")) = LoggedOf(u) + 1
      /\ LoggedOf(u) \in Nat
  BY LoggedAddsOne DEF RowOK, Outcomes
<1>2. Withdrawn(row) \in JobRow
  BY DEF RowOK, Withdrawn, JobRow, Statuses, Finished
<1> QED
  BY <1>1, <1>2 DEF RowOK, Safe, Withdrawn, JobRow, HistoryRow, OpenOf, Waiting, Finished

LEMMA AskedToStopOK ==
  ASSUME NEW row, NEW u, NEW h, RowOK(row, u, h),
         row.status \in Waiting \cup {"running", "cancel_requested"}
  PROVE  RowOK(AskedToStop(row), u, h)
<1>1. AskedToStop(row) \in JobRow
  BY DEF RowOK, AskedToStop, JobRow, Statuses
<1> QED
  BY <1>1 DEF RowOK, Safe, AskedToStop, JobRow, OpenOf, Waiting, Finished

LEMMA ClaimedByOK ==
  ASSUME NEW row, NEW u, NEW h, NEW w \in Workers, RowOK(row, u, h),
         row.status \in Waiting
  PROVE  RowOK(ClaimedBy(row, w), u, [h EXCEPT !.claims = @ + 1])
<1>1. ClaimedBy(row, w) \in JobRow
  BY MaxAttemptsAssumption
     DEF RowOK, Safe, ClaimedBy, JobRow, Statuses, Leases
<1>2. [h EXCEPT !.claims = @ + 1] \in HistoryRow
  BY DEF RowOK, HistoryRow
<1>3. LoggedOf(u) = h.claims
  BY LoggedAddsOne, SMTT(20) DEF RowOK, Safe, OpenOf, Waiting, HistoryRow, Outcomes
<1> QED
  BY <1>1, <1>2, <1>3, NoWorkerAssumption
     DEF RowOK, Safe, ClaimedBy, JobRow, HistoryRow, OpenOf, Waiting, Finished

(* An attempt that ends settles its lease and adds its usage row.  A row   *)
(* that was asked to stop before any worker took it has no lease: then the *)
(* usage row stands for the cancellation itself.                           *)
LEMMA CancelledOK ==
  ASSUME NEW row, NEW u, NEW h, RowOK(row, u, h), row.status = "cancel_requested"
  PROVE  RowOK(Released(row, "cancelled"), Logged(u, "cancelled"), h)
<1>1. /\ Logged(u, "cancelled") \in UsageRow
      /\ LoggedOf(Logged(u, "cancelled")) = LoggedOf(u) + 1
      /\ LoggedOf(u) \in Nat
  BY LoggedAddsOne DEF RowOK, Outcomes
<1>2. Released(row, "cancelled") \in JobRow
  BY DEF RowOK, Released, JobRow, Statuses, Leases, Finished
<1> QED
  BY <1>1, <1>2 DEF RowOK, Safe, Released, JobRow, HistoryRow, OpenOf, Waiting, Finished

LEMMA EndedOK ==
  ASSUME NEW row, NEW u, NEW h, RowOK(row, u, h), row.status = "running",
         NEW end \in {"failed", "timed_out"}
  PROVE  RowOK(Released(row, end), Logged(u, "failed"), h)
<1>1. /\ Logged(u, "failed") \in UsageRow
      /\ LoggedOf(Logged(u, "failed")) = LoggedOf(u) + 1
      /\ LoggedOf(u) \in Nat
  BY LoggedAddsOne DEF RowOK, Outcomes
<1>2. Released(row, end) \in JobRow
  BY DEF RowOK, Released, JobRow, Statuses, Leases, Finished
<1> QED
  BY <1>1, <1>2 DEF RowOK, Safe, Released, JobRow, HistoryRow, OpenOf, Waiting, Finished

LEMMA AfterFailureOK ==
  ASSUME NEW row, NEW u, NEW h, RowOK(row, u, h), row.status = "running",
         NEW retryable \in BOOLEAN, NEW waits \in BOOLEAN,
         NEW end \in {"failed", "timed_out"}
  PROVE  RowOK(AfterFailure(row, retryable, end, waits), Logged(u, "failed"), h)
<1>1. /\ Logged(u, "failed") \in UsageRow
      /\ LoggedOf(Logged(u, "failed")) = LoggedOf(u) + 1
      /\ LoggedOf(u) \in Nat
  BY LoggedAddsOne DEF RowOK, Outcomes
<1>2. CASE retryable /\ row.attempt_count < MaxAttempts
  <2> DEFINE new == [row EXCEPT !.status = "retry_wait", !.due = ~waits,
                                !.locked_by = NoWorker, !.lease = "none"]
  <2>1. new \in JobRow
    BY DEF RowOK, JobRow, Statuses, Leases, Waiting
  <2>2. RowOK(new, Logged(u, "failed"), h)
    BY <1>1, <1>2, <2>1 DEF RowOK, Safe, JobRow, HistoryRow, OpenOf, Waiting, Finished
  <2> QED BY <1>2, <2>2 DEF AfterFailure
<1>3. CASE ~(retryable /\ row.attempt_count < MaxAttempts)
  BY <1>3, EndedOK DEF AfterFailure
<1> QED BY <1>2, <1>3

LEMMA ResultOK ==
  ASSUME NEW row, NEW u, NEW h, RowOK(row, u, h), row.status = "running"
  PROVE  RowOK(Released(row, "succeeded"), Logged(u, "success"),
               [h EXCEPT !.results = @ + 1])
<1>1. /\ Logged(u, "success") \in UsageRow
      /\ LoggedOf(Logged(u, "success")) = LoggedOf(u) + 1
      /\ LoggedOf(u) \in Nat
  BY LoggedAddsOne DEF RowOK, Outcomes
<1>2. Released(row, "succeeded") \in JobRow
  BY DEF RowOK, Released, JobRow, Statuses, Leases, Finished
<1>3. [h EXCEPT !.results = @ + 1] \in HistoryRow
  BY DEF RowOK, HistoryRow
<1> QED
  BY <1>1, <1>2, <1>3
     DEF RowOK, Safe, Released, JobRow, HistoryRow, OpenOf, Waiting, Finished
-----------------------------------------------------------------------------
(* One step.                                                               *)

(* Nothing but the row of job j changes.                                   *)
WritesOnly(j) ==
    /\ job' = [k \in Jobs |-> IF k = j THEN job'[j] ELSE job[k]]
    /\ usage' = [k \in Jobs |-> IF k = j THEN usage'[j] ELSE usage[k]]
    /\ history' = [k \in Jobs |-> IF k = j THEN history'[j] ELSE history[k]]

WorkersOK == worker \in [Workers -> WorkerState]
PrdsOK == prd \in [Prds -> {"active", "trash", "gone"}]

(* A step that leaves the rows alone, and one that writes one safe row.    *)
LEMMA NoRowWritten ==
  ASSUME QueueInv, UNCHANGED <<job, usage, history>>, WorkersOK', PrdsOK'
  PROVE  QueueInv'
<1>1. Shape /\ AllRowsOK
  BY RowWise
<1>2. Shape' /\ AllRowsOK'
  BY <1>1 DEF Shape, AllRowsOK, RowOK, WorkersOK, PrdsOK
<1>3. (Shape /\ AllRowsOK => QueueInv)'
  BY RowWise, PTL
<1> QED BY <1>2, <1>3

LEMMA OneRowWritten ==
  ASSUME QueueInv, NEW j \in Jobs, WritesOnly(j), WorkersOK', PrdsOK',
         RowOK(job'[j], usage'[j], history'[j])
  PROVE  QueueInv'
<1>1. Shape /\ AllRowsOK
  BY RowWise
<1>2. Shape'
  BY <1>1 DEF Shape, WritesOnly, WorkersOK, PrdsOK
<1>3. ASSUME NEW k \in Jobs PROVE RowOK(job'[k], usage'[k], history'[k])
  <2>1. CASE k = j BY <2>1
  <2>2. CASE k # j
    <3>1. job'[k] = job[k] /\ usage'[k] = usage[k] /\ history'[k] = history[k]
      BY <2>2 DEF WritesOnly
    <3> QED BY <1>1, <3>1 DEF AllRowsOK
  <2> QED BY <2>1, <2>2
<1>4. AllRowsOK'
  BY <1>3 DEF AllRowsOK
<1>5. (Shape /\ AllRowsOK => QueueInv)'
  BY RowWise, PTL
<1> QED BY <1>2, <1>4, <1>5

(* Initially no row exists.                                                *)
LEMMA InitSafe == Init => QueueInv
<1> SUFFICES ASSUME Init PROVE Shape /\ AllRowsOK
  BY RowWise
<1>1. Shape
  BY DEF Init, Shape, Idle, WorkerState
<1>2. AllRowsOK
  BY NoRowOK DEF Init, AllRowsOK
<1> QED BY <1>1, <1>2

(* A worker takes its next step and keeps its job, or becomes idle.        *)
LEMMA WorkerMoves ==
  ASSUME WorkersOK, NEW w \in Workers
  PROVE  /\ worker' = [worker EXCEPT ![w] = Idle] => WorkersOK'
         /\ \A pc \in {"calling", "answered"} \cup Failures :
              worker' = [worker EXCEPT ![w].pc = pc] => WorkersOK'
<1>1. Idle \in WorkerState
  BY DEF Idle, WorkerState
<1>2. ASSUME NEW pc \in {"calling", "answered"} \cup Failures
      PROVE  [worker[w] EXCEPT !.pc = pc] \in WorkerState
  BY DEF WorkersOK, WorkerState
<1> QED BY <1>1, <1>2 DEF WorkersOK

(* An update at a key a function does not have changes nothing.            *)
LEMMA OutsideDomain ==
  ASSUME NEW S, NEW T, NEW f \in [S -> T], NEW x, x \notin S, NEW v
  PROVE  [f EXCEPT ![x] = v] = f
OBVIOUS

(* What the steps below use of the invariant.                              *)
LEMMA RowFacts ==
  ASSUME QueueInv, NEW j \in Jobs
  PROVE  /\ RowOK(job[j], usage[j], history[j])
         /\ job[j] \in JobRow /\ usage[j] \in UsageRow /\ history[j] \in HistoryRow
BY RowWise DEF AllRowsOK, RowOK

LEMMA EnqueueSafe ==
  ASSUME QueueInv, NEW j \in Jobs, Enqueue(j) PROVE QueueInv'
<1>1. /\ RowOK(job[j], usage[j], history[j])
      /\ usage[j] \in UsageRow /\ history[j] \in HistoryRow
  BY RowFacts
<1>2. LoggedOf(usage[j]) = history[j].claims /\ history[j].results = 0
  BY <1>1, LoggedAddsOne
     DEF Enqueue, RowOK, Safe, OpenOf, Waiting, Finished, Outcomes
<1>3. RowOK(NewRow, usage[j], history[j])
  BY <1>1, <1>2, NewRowOK
<1>4. WritesOnly(j) /\ WorkersOK' /\ PrdsOK' /\ job'[j] = NewRow
      /\ usage'[j] = usage[j] /\ history'[j] = history[j]
  BY DEF Enqueue, WritesOnly, QueueInv, TypeOK, WorkersOK, PrdsOK
<1> QED BY <1>3, <1>4, OneRowWritten

(* A step on row j is safe when the row it leaves is.                      *)
LEMMA CancelSafe ==
  ASSUME QueueInv, NEW j \in Jobs, Cancel(j) PROVE QueueInv'
<1>1. /\ RowOK(job[j], usage[j], history[j])
      /\ job[j].status \in Statuses
  BY RowFacts DEF JobRow
<1>2. CASE /\ job[j].status \in Waiting
           /\ job' = [job EXCEPT ![j] = Withdrawn(@)]
           /\ LogUsage(j, "cancelled")
  <2>1. RowOK(Withdrawn(job[j]), Logged(usage[j], "cancelled"), history[j])
    BY <1>1, <1>2, WithdrawnOK
  <2>2. WritesOnly(j) /\ WorkersOK' /\ PrdsOK' /\ job'[j] = Withdrawn(job[j])
        /\ usage'[j] = Logged(usage[j], "cancelled") /\ history'[j] = history[j]
    BY <1>2 DEF Cancel, LogUsage, WritesOnly, QueueInv, TypeOK, WorkersOK, PrdsOK
  <2> QED BY <2>1, <2>2, OneRowWritten
<1>3. CASE /\ job[j].status \notin Waiting
           /\ job' = [job EXCEPT ![j] = AskedToStop(@)]
           /\ UNCHANGED usage
  <2>1. RowOK(AskedToStop(job[j]), usage[j], history[j])
    BY <1>1, <1>3, AskedToStopOK DEF Cancel, Statuses
  <2>2. WritesOnly(j) /\ WorkersOK' /\ PrdsOK' /\ job'[j] = AskedToStop(job[j])
        /\ usage'[j] = usage[j] /\ history'[j] = history[j]
    BY <1>3 DEF Cancel, WritesOnly, QueueInv, TypeOK, WorkersOK, PrdsOK
  <2> QED BY <2>1, <2>2, OneRowWritten
<1> QED BY <1>2, <1>3 DEF Cancel

LEMMA RetrySafe ==
  ASSUME QueueInv, NEW j \in Jobs, Retry(j) PROVE QueueInv'
<1> DEFINE h == [history[j] EXCEPT !.retries = @ + 1]
<1>1. /\ RowOK(job[j], usage[j], history[j])
      /\ usage[j] \in UsageRow /\ history[j] \in HistoryRow
  BY RowFacts
<1>2. h \in HistoryRow
  BY <1>1, MaxRetriesAssumption DEF Retry, HistoryRow
<1>3. LoggedOf(usage[j]) = h.claims /\ h.results = 0
  <2>1. job[j].status \in {"failed", "timed_out"} /\ LoggedOf(usage[j]) \in Nat
    BY <1>1, LoggedAddsOne DEF Retry, Outcomes
  <2>3. OpenOf(job[j]) = 0 /\ history[j].results = 0
    BY <1>1, <2>1 DEF RowOK, Safe, OpenOf
  <2>4. LoggedOf(usage[j]) = history[j].claims /\ history[j].results = 0
    BY <1>1, <2>1, <2>3 DEF RowOK, Safe
  <2>2. h.claims = history[j].claims /\ h.results = history[j].results
    BY <1>1 DEF HistoryRow
  <2> QED BY <2>4, <2>2
<1>4. RowOK(NewRow, usage[j], h)
  BY <1>1, <1>2, <1>3, NewRowOK
<1>5. WritesOnly(j) /\ WorkersOK' /\ PrdsOK' /\ job'[j] = NewRow
      /\ usage'[j] = usage[j] /\ history'[j] = h
  BY DEF Retry, WritesOnly, QueueInv, TypeOK, WorkersOK, PrdsOK
<1> QED BY <1>4, <1>5, OneRowWritten

LEMMA TimeSafe ==
  ASSUME QueueInv, NEW j \in Jobs, BackoffElapses(j) \/ LeaseExpires(j)
  PROVE  QueueInv'
<1>1. /\ RowOK(job[j], usage[j], history[j])
      /\ job[j] \in JobRow
  BY RowFacts
<1>2. RowOK(job'[j], usage[j], history[j])
  <2>1. CASE BackoffElapses(j)
    <3>1. job'[j] = [job[j] EXCEPT !.due = TRUE]
      BY <2>1 DEF BackoffElapses, QueueInv, TypeOK
    <3>2. job'[j] \in JobRow
      BY <1>1, <3>1 DEF JobRow
    <3> QED BY <1>1, <3>1, <3>2 DEF RowOK, Safe, JobRow, OpenOf
  <2>2. CASE LeaseExpires(j)
    <3>1. job'[j] = [job[j] EXCEPT !.lease = "expired"]
      BY <2>2 DEF LeaseExpires, QueueInv, TypeOK
    <3>2. job'[j] \in JobRow
      BY <1>1, <3>1 DEF JobRow, Leases
    <3> QED BY <1>1, <2>2, <3>1, <3>2 DEF LeaseExpires, RowOK, Safe, JobRow, OpenOf
  <2> QED BY <2>1, <2>2
<1>3. WritesOnly(j) /\ WorkersOK' /\ PrdsOK'
      /\ usage'[j] = usage[j] /\ history'[j] = history[j]
  BY DEF BackoffElapses, LeaseExpires, WritesOnly, QueueInv, TypeOK, WorkersOK, PrdsOK
<1> QED BY <1>2, <1>3, OneRowWritten

LEMMA ClaimSafe ==
  ASSUME QueueInv, NEW w \in Workers, NEW j \in Jobs, Claim(w, j) PROVE QueueInv'
<1>1. RowOK(job[j], usage[j], history[j])
  BY RowFacts
<1>2. RowOK(ClaimedBy(job[j], w), usage[j], [history[j] EXCEPT !.claims = @ + 1])
  BY <1>1, ClaimedByOK DEF Claim
<1>3. WorkersOK'
  BY DEF Claim, QueueInv, TypeOK, WorkersOK, WorkerState
<1>4. WritesOnly(j) /\ PrdsOK' /\ job'[j] = ClaimedBy(job[j], w)
      /\ usage'[j] = usage[j] /\ history'[j] = [history[j] EXCEPT !.claims = @ + 1]
  BY DEF Claim, WritesOnly, QueueInv, TypeOK, PrdsOK
<1> QED BY <1>2, <1>3, <1>4, OneRowWritten

(* The two transactions a finished attempt may write.                      *)
LEMMA MarkCancelledSafe ==
  ASSUME QueueInv, NEW j \in Jobs, job[j].status = "cancel_requested",
         MarkCancelled(j), UNCHANGED history, WorkersOK', PrdsOK'
  PROVE  QueueInv'
<1>1. RowOK(job[j], usage[j], history[j])
  BY RowFacts
<1>2. RowOK(Released(job[j], "cancelled"), Logged(usage[j], "cancelled"), history[j])
  BY <1>1, CancelledOK
<1>3. WritesOnly(j) /\ job'[j] = Released(job[j], "cancelled")
      /\ usage'[j] = Logged(usage[j], "cancelled") /\ history'[j] = history[j]
  BY DEF MarkCancelled, LogUsage, WritesOnly, QueueInv, TypeOK
<1> QED BY <1>2, <1>3, OneRowWritten

LEMMA FailedAttemptSafe ==
  ASSUME QueueInv, NEW j \in Jobs, job[j].status = "running",
         NEW retryable \in BOOLEAN, NEW waits \in BOOLEAN,
         NEW end \in {"failed", "timed_out"},
         job' = [job EXCEPT ![j] = AfterFailure(@, retryable, end, waits)],
         LogUsage(j, "failed"), UNCHANGED history, WorkersOK', PrdsOK'
  PROVE  QueueInv'
<1>1. RowOK(job[j], usage[j], history[j])
  BY RowFacts
<1>2. RowOK(AfterFailure(job[j], retryable, end, waits),
            Logged(usage[j], "failed"), history[j])
  BY <1>1, AfterFailureOK
<1>3. WritesOnly(j) /\ job'[j] = AfterFailure(job[j], retryable, end, waits)
      /\ usage'[j] = Logged(usage[j], "failed") /\ history'[j] = history[j]
  BY DEF LogUsage, WritesOnly, QueueInv, TypeOK
<1> QED BY <1>2, <1>3, OneRowWritten

LEMMA FinishSuccessSafe ==
  ASSUME QueueInv, NEW w \in Workers, FinishSuccess(w) PROVE QueueInv'
<1> DEFINE j == worker[w].job
<1>1. WorkersOK' /\ PrdsOK'
  <2>1. worker' = [worker EXCEPT ![w] = Idle] \/ worker' = [worker EXCEPT ![w].pc = "fail_retry"]
    BY DEF FinishSuccess
  <2>2. WorkersOK /\ PrdsOK
    BY DEF QueueInv, TypeOK, WorkersOK, PrdsOK
  <2>3. WorkersOK'
    BY <2>1, <2>2, WorkerMoves DEF Failures
  <2> QED BY <2>2, <2>3 DEF FinishSuccess, PrdsOK
<1>2. CASE j \in Jobs
  <2>1. CASE job[j].status = "cancel_requested" /\ MarkCancelled(j) /\ UNCHANGED history
    BY <1>1, <1>2, <2>1, MarkCancelledSafe
  <2>2. CASE job[j].status = "running" /\ StoreResult(j)
    <3>1. RowOK(job[j], usage[j], history[j])
      BY <1>2, RowFacts
    <3>2. RowOK(Released(job[j], "succeeded"), Logged(usage[j], "success"),
                [history[j] EXCEPT !.results = @ + 1])
      BY <2>2, <3>1, ResultOK
    <3>3. WritesOnly(j) /\ job'[j] = Released(job[j], "succeeded")
          /\ usage'[j] = Logged(usage[j], "success")
          /\ history'[j] = [history[j] EXCEPT !.results = @ + 1]
      BY <1>2, <2>2 DEF StoreResult, LogUsage, WritesOnly, QueueInv, TypeOK
    <3> QED BY <1>1, <1>2, <3>2, <3>3, OneRowWritten
  <2>3. CASE UNCHANGED <<job, usage, history>>
    BY <1>1, <2>3, NoRowWritten
  <2> QED BY <2>1, <2>2, <2>3 DEF FinishSuccess
<1>3. CASE j \notin Jobs
  <2>1. UNCHANGED <<job, usage, history>>
    <3>1. /\ \A x : [job EXCEPT ![j] = x] = job
          /\ \A x : [usage EXCEPT ![j] = x] = usage
          /\ \A x : [history EXCEPT ![j] = x] = history
      BY <1>3, OutsideDomain DEF QueueInv, TypeOK
    <3> QED BY <3>1 DEF FinishSuccess, StoreResult, MarkCancelled, LogUsage
  <2> QED BY <1>1, <2>1, NoRowWritten
<1> QED BY <1>2, <1>3

LEMMA FinishFailureSafe ==
  ASSUME QueueInv, NEW w \in Workers, FinishFailure(w) PROVE QueueInv'
<1> DEFINE j == worker[w].job
           end == IF worker[w].pc = "fail_timeout" THEN "timed_out" ELSE "failed"
           retryable == worker[w].pc # "fail_final"
<1>1. WorkersOK' /\ PrdsOK'
  BY DEF FinishFailure, QueueInv, TypeOK, WorkersOK, PrdsOK, WorkerState, Idle
<1>2. CASE j \in Jobs
  <2>1. CASE job[j].status = "cancel_requested" /\ MarkCancelled(j)
    BY <1>1, <1>2, <2>1, MarkCancelledSafe DEF FinishFailure
  <2>2. CASE /\ job[j].status = "running"
             /\ job' = [job EXCEPT ![j] = AfterFailure(@, retryable, end, TRUE)]
             /\ LogUsage(j, "failed")
    <3>1. retryable \in BOOLEAN /\ end \in {"failed", "timed_out"}
      OBVIOUS
    <3>2. UNCHANGED history
      BY DEF FinishFailure
    <3> HIDE DEF retryable, end
    <3> QED BY <1>1, <1>2, <2>2, <3>1, <3>2, FailedAttemptSafe
  <2>3. CASE UNCHANGED <<job, usage>>
    BY <1>1, <2>3, NoRowWritten DEF FinishFailure
  <2> QED BY <2>1, <2>2, <2>3 DEF FinishFailure
<1>3. CASE j \notin Jobs
  <2>1. UNCHANGED <<job, usage, history>>
    <3>1. /\ \A x : [job EXCEPT ![j] = x] = job
          /\ \A x : [usage EXCEPT ![j] = x] = usage
      BY <1>3, OutsideDomain DEF QueueInv, TypeOK
    <3> QED BY <3>1 DEF FinishFailure, MarkCancelled, LogUsage
  <2> QED BY <1>1, <2>1, NoRowWritten
<1> QED BY <1>2, <1>3

LEMMA RecoverExpiredSafe ==
  ASSUME QueueInv, NEW w \in Workers, NEW j \in Jobs, RecoverExpired(w, j)
  PROVE  QueueInv'
<1>1. WorkersOK' /\ PrdsOK' /\ UNCHANGED history
  BY DEF RecoverExpired, QueueInv, TypeOK, WorkersOK, PrdsOK
<1>2. CASE job[j].status = "cancel_requested" /\ MarkCancelled(j)
  BY <1>1, <1>2, MarkCancelledSafe
<1>3. CASE /\ job[j].status = "running"
           /\ job' = [job EXCEPT ![j] = AfterFailure(@, TRUE, "timed_out", FALSE)]
           /\ LogUsage(j, "failed")
  BY <1>1, <1>3, FailedAttemptSafe
<1> QED BY <1>2, <1>3 DEF RecoverExpired

(* The rest of a worker's steps and of a PRD's life leave the rows alone.  *)
LEMMA QuietSafe ==
  ASSUME QueueInv,
         \/ \E w \in Workers : BeginCall(w) \/ EndCall(w) \/ WorkerCrash(w)
         \/ \E p \in Prds : RestorePrd(p)
         \/ UNCHANGED vars
  PROVE  QueueInv'
<1>1. UNCHANGED <<job, usage, history>>
  BY DEF BeginCall, EndCall, WorkerCrash, RestorePrd, vars
<1>2. WorkersOK /\ PrdsOK
  BY DEF QueueInv, TypeOK, WorkersOK, PrdsOK
<1>3. PrdsOK'
  BY <1>2 DEF BeginCall, EndCall, WorkerCrash, RestorePrd, vars, PrdsOK
<1>4. WorkersOK'
  <2>1. ASSUME NEW w \in Workers, BeginCall(w) \/ EndCall(w) PROVE WorkersOK'
    BY <1>2, <2>1, WorkerMoves DEF BeginCall, EndCall, Failures
  <2>2. ASSUME NEW w \in Workers, WorkerCrash(w) PROVE WorkersOK'
    BY <1>2, <2>2, WorkerMoves DEF WorkerCrash
  <2>3. CASE (\E p \in Prds : RestorePrd(p)) \/ UNCHANGED vars
    BY <1>2, <2>3 DEF RestorePrd, vars, WorkersOK
  <2> QED BY <2>1, <2>2, <2>3
<1> QED BY <1>1, <1>3, <1>4, NoRowWritten

(* Deleting a PRD writes the rows of all its jobs, safely each of them.    *)
LEMMA DeletePrdSafe ==
  ASSUME QueueInv, NEW p \in Prds, DeletePrd(p) PROVE QueueInv'
<1>1. ASSUME NEW j \in Jobs PROVE RowOK(job'[j], usage'[j], history'[j])
  <2>1. RowOK(job[j], usage[j], history[j])
    BY RowFacts
  <2>2. CASE job'[j] = AskedToStop(job[j]) /\ job[j].status \in Waiting \cup {"running"}
    BY <2>1, <2>2, AskedToStopOK DEF DeletePrd
  <2>3. CASE job'[j] = job[j]
    BY <2>1, <2>3 DEF DeletePrd
  <2> QED BY <2>2, <2>3 DEF DeletePrd
<1>2. Shape' /\ AllRowsOK'
  BY <1>1, RowWise DEF DeletePrd, Shape, AllRowsOK
<1>3. (Shape /\ AllRowsOK => QueueInv)'
  BY RowWise, PTL
<1> QED BY <1>2, <1>3

LEMMA PurgePrdSafe ==
  ASSUME QueueInv, NEW p \in Prds, PurgePrd(p) PROVE QueueInv'
<1>1. ASSUME NEW j \in Jobs PROVE RowOK(job'[j], usage'[j], history'[j])
  BY RowFacts, NoRowOK DEF PurgePrd
<1>2. Shape' /\ AllRowsOK'
  BY <1>1, RowWise DEF PurgePrd, Shape, AllRowsOK
<1>3. (Shape /\ AllRowsOK => QueueInv)'
  BY RowWise, PTL
<1> QED BY <1>2, <1>3
-----------------------------------------------------------------------------
(* The theorems.                                                           *)

LEMMA StepSafe == QueueInv /\ [Next]_vars => QueueInv'
<1> SUFFICES ASSUME QueueInv, [Next]_vars PROVE QueueInv'
  OBVIOUS
<1>1. ASSUME NEW j \in Jobs, Enqueue(j) PROVE QueueInv'
  BY <1>1, EnqueueSafe
<1>2. ASSUME NEW j \in Jobs, Cancel(j) PROVE QueueInv'
  BY <1>2, CancelSafe
<1>3. ASSUME NEW j \in Jobs, Retry(j) PROVE QueueInv'
  BY <1>3, RetrySafe
<1>4. ASSUME NEW j \in Jobs, BackoffElapses(j) \/ LeaseExpires(j) PROVE QueueInv'
  BY <1>4, TimeSafe
<1>5. ASSUME NEW p \in Prds, DeletePrd(p) PROVE QueueInv'
  BY <1>5, DeletePrdSafe
<1>6. ASSUME NEW p \in Prds, PurgePrd(p) PROVE QueueInv'
  BY <1>6, PurgePrdSafe
<1>7. ASSUME NEW w \in Workers, NEW j \in Jobs, Claim(w, j) PROVE QueueInv'
  BY <1>7, ClaimSafe
<1>8. ASSUME NEW w \in Workers, NEW j \in Jobs, RecoverExpired(w, j) PROVE QueueInv'
  BY <1>8, RecoverExpiredSafe
<1>9. ASSUME NEW w \in Workers, FinishSuccess(w) PROVE QueueInv'
  BY <1>9, FinishSuccessSafe
<1>10. ASSUME NEW w \in Workers, FinishFailure(w) PROVE QueueInv'
  BY <1>10, FinishFailureSafe
<1>11. ASSUME NEW w \in Workers, BeginCall(w) \/ EndCall(w) \/ WorkerCrash(w)
       PROVE  QueueInv'
  BY <1>11, QuietSafe
<1>12. ASSUME NEW p \in Prds, RestorePrd(p) PROVE QueueInv'
  BY <1>12, QuietSafe
<1>13. CASE UNCHANGED vars
  BY <1>13, QuietSafe
<1> QED
  BY <1>1, <1>2, <1>3, <1>4, <1>5, <1>6, <1>7, <1>8, <1>9, <1>10, <1>11, <1>12, <1>13
     DEF Next, Execute

(* All invariants of the queue, carried together through every transaction *)
(* of apps/ai/services.py, apps/ai/worker.py and the deletion of PRDs.     *)
THEOREM QueueIsSafe == Spec => []QueueInv
BY InitSafe, StepSafe, PTL DEF Spec

(* Every reachable state is well typed; in particular no claim takes       *)
(* attempt_count above max_attempts.                                       *)
THEOREM TypeCorrect == Spec => []TypeOK
<1>1. QueueInv => TypeOK
  BY DEF QueueInv
<1> QED BY <1>1, QueueIsSafe, PTL

(* A running row can always be recovered, a waiting one claimed, a settled *)
(* one cleaned up, and a result is stored once, for a job that succeeded.  *)
THEOREM RowsStayConsistent == Spec => []RowsAreConsistent
<1>1. QueueInv => RowsAreConsistent
  BY DEF QueueInv
<1> QED BY <1>1, QueueIsSafe, PTL

(* Each claim becomes one usage row, however many workers and crashes.     *)
THEOREM UsageIsComplete == Spec => []UsageAccountsForClaims
<1>1. QueueInv => UsageAccountsForClaims
  BY DEF QueueInv
<1> QED BY <1>1, QueueIsSafe, PTL
-----------------------------------------------------------------------------
(* No step takes back a request to stop.                                   *)
StopKept == \A j \in Jobs :
    job[j].status = "cancel_requested"
      => job'[j].status \in {"cancel_requested", "cancelled", "absent"}

LEMMA StepKeepsStop == QueueInv /\ [Next]_vars => StopKept
<1> SUFFICES ASSUME QueueInv, [Next]_vars, NEW j \in Jobs, job[j].status = "cancel_requested"
             PROVE  job'[j].status \in {"cancel_requested", "cancelled", "absent"}
  BY DEF StopKept
<1> USE DEF QueueInv, TypeOK
<1>0. job[j] \in JobRow
  OBVIOUS
<1>1. ASSUME NEW k \in Jobs,
             Enqueue(k) \/ Retry(k) \/ BackoffElapses(k) \/ \E w \in Workers : Claim(w, k)
      PROVE  job'[j] = job[j]
  BY <1>1 DEF Enqueue, Retry, BackoffElapses, Claim, Waiting
<1>2. ASSUME NEW k \in Jobs, LeaseExpires(k) PROVE job'[j].status = job[j].status
  <2>1. job'[j] = IF k = j THEN [job[j] EXCEPT !.lease = "expired"] ELSE job[j]
    BY <1>2 DEF LeaseExpires
  <2> QED BY <1>0, <2>1 DEF JobRow
<1>3. ASSUME NEW k \in Jobs, Cancel(k) PROVE job'[j].status = "cancel_requested"
  <2>1. \/ job'[j] = job[j]
        \/ k = j /\ job'[j] = AskedToStop(job[j])
    BY <1>3 DEF Cancel, Waiting
  <2> QED BY <1>0, <2>1 DEF AskedToStop, JobRow
<1>4. ASSUME NEW k, MarkCancelled(k) PROVE job'[j].status \in {"cancel_requested", "cancelled"}
  <2>1. job'[j] = IF k = j THEN Released(job[j], "cancelled") ELSE job[j]
    BY <1>4 DEF MarkCancelled
  <2> QED BY <1>0, <2>1 DEF Released, JobRow
<1>5. ASSUME NEW w \in Workers, Execute(w)
      PROVE  job'[j] = job[j] \/ MarkCancelled(worker[w].job)
  BY <1>5 DEF Execute, BeginCall, EndCall, FinishSuccess, FinishFailure, StoreResult
<1>6. ASSUME NEW w \in Workers, NEW k \in Jobs, RecoverExpired(w, k)
      PROVE  job'[j] = job[j] \/ MarkCancelled(k)
  BY <1>6 DEF RecoverExpired
<1>7. ASSUME NEW p \in Prds, DeletePrd(p) \/ RestorePrd(p) \/ PurgePrd(p)
      PROVE  job'[j] = job[j] \/ job'[j] = NoRow
  BY <1>7 DEF DeletePrd, RestorePrd, PurgePrd, Waiting
<1>8. NoRow.status = "absent"
  BY DEF NoRow
<1>9. CASE UNCHANGED vars \/ \E w \in Workers : WorkerCrash(w)
  BY <1>9 DEF vars, WorkerCrash
<1> QED
  BY <1>1, <1>2, <1>3, <1>4, <1>5, <1>6, <1>7, <1>8, <1>9 DEF Next

(* Once a stop was asked for, the job never runs, waits or delivers again: *)
(* _finish_success, _finish_failure and _recover_one_expired_job look at   *)
(* the status before anything else, and neither claim nor retry takes it.  *)
THEOREM StopIsFinal == Spec => StopIsNeverUndone
<1>1. QueueInv /\ [Next]_vars => [StopKept]_vars
  BY StepKeepsStop
<1>2. Spec => [][StopKept]_vars
  BY <1>1, QueueIsSafe, PTL DEF Spec
<1> QED BY <1>2 DEF StopIsNeverUndone, StopKept
-----------------------------------------------------------------------------
(* The refinement.  The contract sees the phase of each job, the attempts  *)
(* of its present submission and the results stored for it.                *)

Phases == [j \in Jobs |-> PhaseOf(job[j].status)]
Tries == [j \in Jobs |-> job[j].attempt_count]
Results == [j \in Jobs |-> history[j].results]

(* Most steps leave all jobs but one as the contract sees them.            *)
SeenOnly(j) ==
    \A k \in Jobs \ {j} : /\ job'[k].status = job[k].status
                          /\ job'[k].attempt_count = job[k].attempt_count
                          /\ history'[k].results = history[k].results

LEMMA PhaseCases ==
  /\ PhaseOf("absent") = "none"
  /\ \A s \in Waiting \cup {"running"} : PhaseOf(s) = "pending"
  /\ PhaseOf("cancel_requested") = "stopping"
  /\ PhaseOf("succeeded") = "delivered"
  /\ \A s \in {"failed", "timed_out"} : PhaseOf(s) = "failed"
  /\ PhaseOf("cancelled") = "cancelled"
BY DEF PhaseOf, Waiting

LEMMA Seen ==
  ASSUME NEW j \in Jobs, SeenOnly(j)
  PROVE  /\ Phases' = [Phases EXCEPT ![j] = PhaseOf(job'[j].status)]
         /\ Tries' = [Tries EXCEPT ![j] = job'[j].attempt_count]
         /\ Results' = [Results EXCEPT ![j] = history'[j].results]
BY DEF SeenOnly, Phases, Tries, Results

LEMMA InitKeepsContract == Init => Contract!Init
BY PhaseCases DEF Init, Contract!Init, NoRow, NoHistory

(* The steps of the contract, in the terms of the queue: job j moves to a  *)
(* phase, with so many tries and results.                                  *)
MovesTo(j, phase, tries, results) ==
    /\ SeenOnly(j)
    /\ PhaseOf(job'[j].status) = phase
    /\ job'[j].attempt_count = tries
    /\ history'[j].results = results

LEMMA ContractSteps ==
  ASSUME NEW j \in Jobs
  PROVE  LET old == PhaseOf(job[j].status)
             n == job[j].attempt_count
             r == history[j].results
         IN  /\ MovesTo(j, old, n, r) => UNCHANGED Contract!vars
             /\ old \in {"none", "failed"} /\ MovesTo(j, "pending", 0, r) => Contract!Submit(j)
             /\ old = "pending" /\ n < MaxAttempts /\ MovesTo(j, "pending", n + 1, r)
                  => Contract!Try(j)
             /\ old = "pending" /\ n > 0 /\ MovesTo(j, "delivered", n, r + 1)
                  => Contract!Deliver(j)
             /\ old = "pending" /\ n > 0 /\ MovesTo(j, "failed", n, r) => Contract!Fail(j)
             /\ old = "pending" /\ MovesTo(j, "stopping", n, r) => Contract!AskToStop({j})
             /\ old \in {"pending", "stopping"} /\ MovesTo(j, "cancelled", n, r)
                  => Contract!Stop(j)
<1> DEFINE old == PhaseOf(job[j].status)
           n == job[j].attempt_count
           r == history[j].results
<1>1. ASSUME NEW p, NEW t, NEW q, MovesTo(j, p, t, q)
      PROVE  /\ Phases' = [Phases EXCEPT ![j] = p]
             /\ Tries' = [Tries EXCEPT ![j] = t]
             /\ Results' = [Results EXCEPT ![j] = q]
  BY <1>1, Seen DEF MovesTo
<1>2. /\ Phases[j] = old /\ [Phases EXCEPT ![j] = old] = Phases
      /\ Tries[j] = n /\ [Tries EXCEPT ![j] = n] = Tries
      /\ Results[j] = r /\ [Results EXCEPT ![j] = r] = Results
  BY DEF Phases, Tries, Results
<1>3. MovesTo(j, old, n, r) => UNCHANGED Contract!vars
  BY <1>1, <1>2 DEF Contract!vars, Phases, Tries, Results
<1>4. old \in {"none", "failed"} /\ MovesTo(j, "pending", 0, r) => Contract!Submit(j)
  <2>1. /\ Phases[j] \in {"none", "failed"}
        /\ Phases' = [Phases EXCEPT ![j] = "pending"]
        /\ Tries' = [Tries EXCEPT ![j] = 0]
        /\ Results' = Results
        => Contract!Submit(j)
    BY DEF Contract!Submit, Phases, Tries, Results
  <2> HIDE DEF old, n, r
  <2> QED BY <1>1, <1>2, <2>1
<1>5. old = "pending" /\ n < MaxAttempts /\ MovesTo(j, "pending", n + 1, r) => Contract!Try(j)
  BY <1>1, <1>2 DEF Contract!Try, Phases, Tries, Results
<1>6. old = "pending" /\ n > 0 /\ MovesTo(j, "delivered", n, r + 1) => Contract!Deliver(j)
  <2>1. /\ Phases[j] = "pending" /\ Tries[j] > 0
        /\ Phases' = [Phases EXCEPT ![j] = "delivered"]
        /\ Results' = [Results EXCEPT ![j] = Results[j] + 1]
        /\ Tries' = Tries
        => Contract!Deliver(j)
    BY DEF Contract!Deliver, Phases, Tries, Results
  <2> HIDE DEF old, n, r
  <2> QED BY <1>1, <1>2, <2>1
<1>7. old = "pending" /\ n > 0 /\ MovesTo(j, "failed", n, r) => Contract!Fail(j)
  <2>1. /\ Phases[j] = "pending" /\ Tries[j] > 0
        /\ Phases' = [Phases EXCEPT ![j] = "failed"]
        /\ Tries' = Tries /\ Results' = Results
        => Contract!Fail(j)
    BY DEF Contract!Fail, Phases, Tries, Results
  <2> HIDE DEF old, n, r
  <2> QED BY <1>1, <1>2, <2>1
<1>8. old = "pending" /\ MovesTo(j, "stopping", n, r) => Contract!AskToStop({j})
  <2>1. /\ Phases[j] = "pending"
        /\ Phases' = [k \in Jobs |-> IF k \in {j} THEN "stopping" ELSE Phases[k]]
        /\ Tries' = Tries /\ Results' = Results
        => Contract!AskToStop({j})
    BY DEF Contract!AskToStop, Phases, Tries, Results
  <2>2. [k \in Jobs |-> IF k \in {j} THEN "stopping" ELSE Phases[k]]
          = [Phases EXCEPT ![j] = "stopping"]
    BY DEF Phases
  <2> HIDE DEF old, n, r
  <2> QED BY <1>1, <1>2, <2>1, <2>2
<1>9. old \in {"pending", "stopping"} /\ MovesTo(j, "cancelled", n, r) => Contract!Stop(j)
  <2>1. /\ Phases[j] \in {"pending", "stopping"}
        /\ Phases' = [Phases EXCEPT ![j] = "cancelled"]
        /\ Tries' = Tries /\ Results' = Results
        => Contract!Stop(j)
    BY DEF Contract!Stop, Phases, Tries, Results
  <2> HIDE DEF old, n, r
  <2> QED BY <1>1, <1>2, <2>1
<1> QED BY <1>3, <1>4, <1>5, <1>6, <1>7, <1>8, <1>9

(* The same, once the step is known to be one the contract allows.         *)
LEMMA AllowedMove ==
  ASSUME NEW j \in Jobs, job[j].attempt_count \in Nat, NEW t, NEW r,
         LET old == PhaseOf(job[j].status)
             n == job[j].attempt_count
             k == history[j].results
         IN  \/ t = n /\ r = k /\ MovesTo(j, old, t, r)
             \/ old \in {"none", "failed"} /\ t = 0 /\ r = k /\ MovesTo(j, "pending", t, r)
             \/ old = "pending" /\ n < MaxAttempts /\ t = n + 1 /\ r = k
                  /\ MovesTo(j, "pending", t, r)
             \/ old = "pending" /\ n > 0 /\ t = n /\ r = k + 1 /\ MovesTo(j, "delivered", t, r)
             \/ old = "pending" /\ n > 0 /\ t = n /\ r = k /\ MovesTo(j, "failed", t, r)
             \/ old = "pending" /\ t = n /\ r = k /\ MovesTo(j, "stopping", t, r)
             \/ old \in {"pending", "stopping"} /\ t = n /\ r = k
                  /\ MovesTo(j, "cancelled", t, r)
  PROVE  Contract!Next \/ UNCHANGED Contract!vars
<1> DEFINE old == PhaseOf(job[j].status)
           n == job[j].attempt_count
           k == history[j].results
<1>1. \/ UNCHANGED Contract!vars
      \/ Contract!Submit(j) \/ Contract!Try(j) \/ Contract!Deliver(j) \/ Contract!Fail(j)
      \/ Contract!Stop(j) \/ Contract!AskToStop({j})
  BY ContractSteps
<1> QED BY <1>1 DEF Contract!Next

LEMMA StepKeepsContract ==
  ASSUME QueueInv, [Next]_vars PROVE Contract!Next \/ UNCHANGED Contract!vars
<1> USE DEF QueueInv, TypeOK
<1>0. ASSUME NEW j \in Jobs
      PROVE  /\ job[j] \in JobRow /\ job[j].attempt_count \in Nat
             /\ RowOK(job[j], usage[j], history[j])
             /\ history[j] \in HistoryRow
  <2>1. QueueInv
    OBVIOUS
  <2> QED BY <2>1, RowFacts, MaxAttemptsAssumption DEF JobRow
<1>1. ASSUME NEW j \in Jobs, Enqueue(j) PROVE Contract!Next \/ UNCHANGED Contract!vars
  <2>1. PhaseOf(job[j].status) = "none"
    BY <1>1, PhaseCases DEF Enqueue
  <2>2. MovesTo(j, "pending", 0, history[j].results)
    BY <1>1, PhaseCases DEF Enqueue, MovesTo, SeenOnly, NewRow, NoRow, Waiting
  <2> QED BY <1>0, <2>1, <2>2, AllowedMove
<1>2. ASSUME NEW j \in Jobs, Cancel(j) PROVE Contract!Next \/ UNCHANGED Contract!vars
  <2>1. CASE job[j].status \in Waiting
    <3>1. job'[j] = Withdrawn(job[j])
      BY <1>2, <2>1 DEF Cancel
    <3>2. job'[j].status = "cancelled" /\ job'[j].attempt_count = job[j].attempt_count
      BY <1>0, <3>1 DEF Withdrawn, JobRow
    <3>3. MovesTo(j, "cancelled", job[j].attempt_count, history[j].results)
      BY <1>2, <3>2, PhaseCases DEF Cancel, MovesTo, SeenOnly
    <3> QED BY <1>0, <2>1, <3>3, PhaseCases, AllowedMove
  <2>2. CASE job[j].status \notin Waiting
    <3>1. job'[j] = AskedToStop(job[j]) /\ job[j].status \in {"running", "cancel_requested"}
      BY <1>0, <1>2, <2>2 DEF Cancel, JobRow, Statuses
    <3>2. job'[j].status = "cancel_requested" /\ job'[j].attempt_count = job[j].attempt_count
      BY <1>0, <3>1 DEF AskedToStop, JobRow
    <3>3. MovesTo(j, "stopping", job[j].attempt_count, history[j].results)
      BY <1>2, <3>2, PhaseCases DEF Cancel, MovesTo, SeenOnly
    <3> QED BY <1>0, <3>1, <3>3, PhaseCases, AllowedMove
  <2> QED BY <2>1, <2>2
<1>3. ASSUME NEW j \in Jobs, Retry(j) PROVE Contract!Next \/ UNCHANGED Contract!vars
  <2>1. PhaseOf(job[j].status) = "failed"
    BY <1>3, PhaseCases DEF Retry
  <2>2. history'[j].results = history[j].results
    BY <1>0, <1>3 DEF Retry, HistoryRow
  <2>3. MovesTo(j, "pending", 0, history[j].results)
    BY <1>3, <2>2, PhaseCases DEF Retry, MovesTo, SeenOnly, NewRow, NoRow, Waiting
  <2> QED BY <1>0, <2>1, <2>3, AllowedMove
<1>4. ASSUME NEW j \in Jobs, BackoffElapses(j) \/ LeaseExpires(j)
      PROVE  Contract!Next \/ UNCHANGED Contract!vars
  <2>1. job'[j].status = job[j].status /\ job'[j].attempt_count = job[j].attempt_count
    BY <1>0, <1>4 DEF BackoffElapses, LeaseExpires, JobRow
  <2>2. MovesTo(j, PhaseOf(job[j].status), job[j].attempt_count, history[j].results)
    BY <1>4, <2>1 DEF BackoffElapses, LeaseExpires, MovesTo, SeenOnly
  <2> QED BY <1>0, <2>2, AllowedMove
<1>5. ASSUME NEW p \in Prds, DeletePrd(p) PROVE Contract!Next \/ UNCHANGED Contract!vars
  <2> DEFINE S == {j \in JobsOf(p) : job[j].status \in Waiting \cup {"running"}}
  <2>1. ASSUME NEW j \in Jobs
        PROVE  /\ job'[j].attempt_count = job[j].attempt_count
               /\ job'[j].status = IF j \in S THEN "cancel_requested" ELSE job[j].status
    BY <1>0, <1>5 DEF DeletePrd, AskedToStop, JobRow, JobsOf
  <2>2. \A j \in S : Phases[j] = "pending"
    BY PhaseCases DEF Phases, JobsOf
  <2>3. Phases' = [j \in Jobs |-> IF j \in S THEN "stopping" ELSE Phases[j]]
    BY <2>1, PhaseCases DEF Phases
  <2>4. Tries' = Tries /\ Results' = Results
    BY <1>5, <2>1 DEF Tries, Results, DeletePrd
  <2>5. Contract!AskToStop(S)
    <3> HIDE DEF S
    <3> QED BY <2>2, <2>3, <2>4 DEF Contract!AskToStop, Phases, Tries, Results
  <2>6. S \in SUBSET Jobs
    BY DEF JobsOf
  <2> QED BY <2>5, <2>6 DEF Contract!Next
<1>6. ASSUME NEW p \in Prds, PurgePrd(p) PROVE Contract!Next \/ UNCHANGED Contract!vars
  <2>1. Phases' = [j \in Jobs |-> IF j \in JobsOf(p) THEN "none" ELSE Phases[j]]
    BY <1>6, PhaseCases DEF PurgePrd, Phases, NoRow
  <2>2. Tries' = [j \in Jobs |-> IF j \in JobsOf(p) THEN 0 ELSE Tries[j]]
    BY <1>6 DEF PurgePrd, Tries, NoRow
  <2>3. Results' = [j \in Jobs |-> IF j \in JobsOf(p) THEN 0 ELSE Results[j]]
    BY <1>6 DEF PurgePrd, Results, NoHistory
  <2>4. Contract!Forget(JobsOf(p))
    BY <2>1, <2>2, <2>3 DEF Contract!Forget, Phases, Tries, Results
  <2>5. JobsOf(p) \in SUBSET Jobs
    BY DEF JobsOf
  <2> QED BY <2>4, <2>5 DEF Contract!Next
<1>7. ASSUME NEW w \in Workers, NEW j \in Jobs, Claim(w, j)
      PROVE  Contract!Next \/ UNCHANGED Contract!vars
  <2>1. PhaseOf(job[j].status) = "pending" /\ job[j].attempt_count < MaxAttempts
    BY <1>0, <1>7, PhaseCases DEF Claim, RowOK, Safe
  <2>2. history'[j].results = history[j].results
    BY <1>0, <1>7 DEF Claim, HistoryRow
  <2>3. MovesTo(j, "pending", job[j].attempt_count + 1, history[j].results)
    BY <1>7, <2>2, PhaseCases DEF Claim, MovesTo, SeenOnly, ClaimedBy
  <2> QED BY <1>0, <2>1, <2>3, AllowedMove
<1>8. ASSUME NEW j \in Jobs, MarkCancelled(j), job[j].status = "cancel_requested",
             UNCHANGED history
      PROVE  Contract!Next \/ UNCHANGED Contract!vars
  <2>1. job'[j] = Released(job[j], "cancelled")
    BY <1>8 DEF MarkCancelled
  <2>2. job'[j].status = "cancelled" /\ job'[j].attempt_count = job[j].attempt_count
    BY <1>0, <2>1 DEF Released, JobRow
  <2>3. MovesTo(j, "cancelled", job[j].attempt_count, history[j].results)
    BY <1>8, <2>2, PhaseCases DEF MarkCancelled, MovesTo, SeenOnly
  <2> QED BY <1>0, <1>8, <2>3, PhaseCases, AllowedMove
<1>9. ASSUME NEW j \in Jobs, job[j].status = "running", UNCHANGED history,
             NEW retryable \in BOOLEAN, NEW waits \in BOOLEAN,
             NEW end \in {"failed", "timed_out"},
             job' = [job EXCEPT ![j] = AfterFailure(@, retryable, end, waits)]
      PROVE  Contract!Next \/ UNCHANGED Contract!vars
  <2>1. job'[j] = AfterFailure(job[j], retryable, end, waits)
    BY <1>9
  <2>2. /\ job'[j].status \in {"retry_wait", end}
        /\ job'[j].attempt_count = job[j].attempt_count
    BY <1>0, <2>1 DEF AfterFailure, Released, JobRow
  <2>3. job[j].attempt_count > 0 /\ PhaseOf(job[j].status) = "pending"
    BY <1>0, <1>9, PhaseCases DEF RowOK, Safe
  <2>4. \/ MovesTo(j, "pending", job[j].attempt_count, history[j].results)
        \/ MovesTo(j, "failed", job[j].attempt_count, history[j].results)
    BY <1>9, <2>2, PhaseCases DEF MovesTo, SeenOnly, Waiting
  <2> QED BY <1>0, <2>3, <2>4, AllowedMove
<1>10. ASSUME NEW j \in Jobs, job[j].status = "running", StoreResult(j)
       PROVE  Contract!Next \/ UNCHANGED Contract!vars
  <2>1. job'[j] = Released(job[j], "succeeded")
    BY <1>10 DEF StoreResult
  <2>2. job'[j].status = "succeeded" /\ job'[j].attempt_count = job[j].attempt_count
    BY <1>0, <2>1 DEF Released, JobRow
  <2>3. history'[j].results = history[j].results + 1
    BY <1>0, <1>10 DEF StoreResult, HistoryRow
  <2>4. job[j].attempt_count > 0 /\ PhaseOf(job[j].status) = "pending"
    BY <1>0, <1>10, PhaseCases DEF RowOK, Safe
  <2>5. MovesTo(j, "delivered", job[j].attempt_count, history[j].results + 1)
    BY <1>10, <2>2, <2>3, PhaseCases DEF StoreResult, MovesTo, SeenOnly
  <2> QED BY <1>0, <2>4, <2>5, AllowedMove
<1>11. ASSUME UNCHANGED <<job, history>> PROVE UNCHANGED Contract!vars
  BY <1>11 DEF Contract!vars
<1>12. ASSUME NEW w \in Workers, FinishSuccess(w)
       PROVE  Contract!Next \/ UNCHANGED Contract!vars
  <2> DEFINE j == worker[w].job
  <2>1. CASE j \in Jobs
    BY <1>8, <1>10, <1>11, <1>12, <2>1 DEF FinishSuccess
  <2>2. CASE j \notin Jobs
    <3>1. /\ \A x : [job EXCEPT ![j] = x] = job
          /\ \A x : [history EXCEPT ![j] = x] = history
      BY <2>2, OutsideDomain
    <3>2. UNCHANGED <<job, history>>
      BY <1>12, <3>1 DEF FinishSuccess, StoreResult, MarkCancelled
    <3> QED BY <1>11, <3>2
  <2> QED BY <2>1, <2>2
<1>13. ASSUME NEW w \in Workers, FinishFailure(w)
       PROVE  Contract!Next \/ UNCHANGED Contract!vars
  <2> DEFINE j == worker[w].job
             end == IF worker[w].pc = "fail_timeout" THEN "timed_out" ELSE "failed"
             retryable == worker[w].pc # "fail_final"
  <2>1. CASE j \in Jobs
    <3>1. UNCHANGED history
      BY <1>13 DEF FinishFailure
    <3>2. CASE job[j].status = "cancel_requested" /\ MarkCancelled(j)
      BY <1>8, <2>1, <3>1, <3>2
    <3>3. CASE UNCHANGED job
      BY <1>11, <3>1, <3>3
    <3>4. CASE /\ job[j].status = "running"
               /\ job' = [job EXCEPT ![j] = AfterFailure(@, retryable, end, TRUE)]
      <4>1. retryable \in BOOLEAN /\ end \in {"failed", "timed_out"}
        OBVIOUS
      <4> HIDE DEF retryable, end
      <4> QED BY <1>9, <2>1, <3>1, <3>4, <4>1
    <3> QED BY <1>13, <3>2, <3>3, <3>4 DEF FinishFailure
  <2>2. CASE j \notin Jobs
    <3>1. \A x : [job EXCEPT ![j] = x] = job
      BY <2>2, OutsideDomain
    <3>2. UNCHANGED <<job, history>>
      BY <1>13, <3>1 DEF FinishFailure, MarkCancelled
    <3> QED BY <1>11, <3>2
  <2> QED BY <2>1, <2>2
<1>14. ASSUME NEW w \in Workers, NEW j \in Jobs, RecoverExpired(w, j)
       PROVE  Contract!Next \/ UNCHANGED Contract!vars
  BY <1>8, <1>9, <1>14 DEF RecoverExpired
<1>15. CASE \/ \E w \in Workers : BeginCall(w) \/ EndCall(w) \/ WorkerCrash(w)
            \/ \E p \in Prds : RestorePrd(p)
            \/ UNCHANGED vars
  BY <1>11, <1>15 DEF BeginCall, EndCall, WorkerCrash, RestorePrd, vars
<1> QED
  BY <1>1, <1>2, <1>3, <1>4, <1>5, <1>6, <1>7, <1>12, <1>13, <1>14, <1>15
     DEF Next, Execute

(* The queue keeps the contract of AiJobContract: bounded tries, at most   *)
(* one result, none after a stop, however its workers and users interleave.*)
THEOREM QueueKeepsContract == Spec => ImplementsContract
<1>1. QueueInv /\ [Next]_vars => [Contract!Next]_(Contract!vars)
  BY StepKeepsContract
<1>2. Spec => Contract!Init
  BY InitKeepsContract DEF Spec
<1>3. Spec => [][Contract!Next]_(Contract!vars)
  BY <1>1, QueueIsSafe, PTL DEF Spec
<1> QED BY <1>2, <1>3 DEF ImplementsContract, Contract!Spec
=============================================================================
