# Idea Developer in TLA+

Idea Developer is a Django service in which teams write product requirement
documents (PRDs): an owner and invited editors answer guided questions, comment,
brainstorm on a shared board and let an AI coach, evaluate, draft and summarise.
One PostgreSQL database holds everything; web processes write to it in short
transactions, worker processes execute AI jobs out of a table, a maintenance
command runs at midnight, and browsers poll.  Nothing but row locks, versions and
unique constraints keeps these apart, and that is what this project is about.

Every path below is relative to `src/`; `apps/` holds the Django applications.

## Inventory

| component | state | operations | works with | module |
|---|---|---|---|---|
| AI job queue (`apps/ai/services.py`, `worker.py`) | `ai_jobs`, `ai_usage_logs` | enqueue, cancel, retry; claim, execute, finish, recover an expired lease | every AI feature through a result processor; the trash (bulk stop); Gemini | `AiJobQueue` |
| Requests for AI (`apps/ai/services.py:227-343`, `brainstorm.py`, `coaching.py`, `evaluation.py`) | fingerprints, idempotency keys, conversations and their messages | ask the coach, the analysis of a board, a diagnosis, a synthesis; retry; expire | job queue | `AiRequests` |
| AI results (`apps/ai/coaching.py`, `perspective_draft.py`, `prd_apply.py`, `apps/brainstorm/ai_views.py`) | results of jobs and what was made of them | store, approve, decline, apply to answers or notes | answers, boards, life cycle | `AiApplication` |
| Answers and questions (`apps/prds/detail_views.py`) | answers with optimistic versions | save, hold | AI results, write page | `QuestionRows`, `AiApplication` |
| Write page (`static/prds/js/write.js`) | copy of a question, editor, unsaved text | type, save, hold, accept a proposal, reload, settle a conflict | answers | `AnswerEditing` |
| PRD life cycle and trash (`apps/prds/status_services.py`, `detail_views.py`, `apps/jobs/cleanup.py`) | `prds` and two audit logs | metadata edits, complete, reopen, automatic completion, trash, restore, confirm, purge | everything: a completed or trashed PRD locks what belongs to it | `PrdLifecycle` |
| Contribution evaluation (`apps/ai/contribution.py`) | `contribution_evaluations`, `prds.contribution_status` | schedule after a completion, store scores, fail, retry | life cycle (after commit), job queue | `ContributionEvaluation` |
| Participants and comments (`apps/prds/services.py`, `comment_services.py`) | `prd_participants`, comments | create a PRD, add, change role, remove; comment, change, delete | life cycle, assignees of notes, contributions | `People` |
| Brainstorm board (`apps/brainstorm/services.py`, `models.py`) | notes, lines, change log | create, edit, assign, move, lay out, hold, release, delete, restore, connect, disconnect, undo, redo, purge | board versions, polling, AI, participants | `BrainstormBoard` |
| Board versions (same file) | `brainstorm_canvases` | first board, clone, reorder, delete | board, life cycle | `BoardVersions` |
| Board polling (`apps/brainstorm/views.py`, `static/brainstorm/js/app.js`) | the page's copy of the board and its cursor | full load, poll, show own change, reconnect | board | `BoardPolling` |
| OTP login (`apps/accounts/services.py`) | challenges, attempts, sessions | request, verify | mail | - |
| Home, export, integration, Slack, Gemini client, infrastructure | none of their own | reads, calls | - | - |

### What is hard

* **Requests read before they lock.**  Permissions, roles and status are read
  without a lock, the row is locked later.  Some handlers look again, some rely on
  a version, some do neither.
* **Workers that are too late.**  A worker holds no transaction while it talks to
  the provider.  Its lease may run out, its job may be cancelled, retried, taken
  by another worker or deleted before it comes back.
* **Chains of transactions.**  What is scheduled after a completion is five
  transactions; a process may die, fail or be overtaken between any two.
* **Notes that are given back.**  Removing a participant and scheduling after a
  completion write notes without the lock of a board and without an entry in its log.
* **Results that are old.**  An AI result is made from rows that people go on
  changing, and it may be approved from two tabs.
* **Pages that are behind.**  A page keeps a version and unsaved text while answers
  to several requests reach it in any order, or never.
* **Logs that are replayed.**  Undo and redo decide from a change log that other
  users write to, and pages follow the same log through several queries.
* **Retention.**  Trash, holds, deleted rows and conversations come back or are
  purged.

### What makes each component correct

* Queue: an attempt is counted, logged and answered for once; a result is stored
  once; a stop is not undone; nothing that was claimed waits for ever.
* Requests: what is asked twice is filed once; the messages of a conversation are
  numbered and answered; a synthesis brings diagnoses of one text together.
* Results: a result replaces only what it was made from, once, and after the
  completion no person's write arrives.
* Write page: with the current version it shows the current answer; a save replaces
  an answer the person was shown.
* Life cycle: audit logs tell the truth; stale pages and stale permissions do no
  harm; nothing is purged before its time, everything overdue is done eventually.
* Contributions: scores are kept, numbered in a row, and what the PRD shows is
  its newest evaluation, unless a write that was overtaken came last.
* People: the creator and nobody else is the owner, no note is left to a stranger,
  and a completed PRD takes nothing but reviews of tutors and notes that go back to
  their authors.
* Board: no dangling lines, versions identify rows; undo and redo put back the rows
  they name, take lines along only with their notes, are a stack of each user and
  overwrite nobody.
* Board versions: exactly one latest board, never none, and only it is edited; notes
  given back reach others too.
* Polling: all that a page misses is what it has still to poll, what a failed load or
  a late answer made it pass by, and notes given back, which no log tells of.

## Modules

```
AiJobContract <-implements- AiJobQueue        PrdContract <-implements- PrdLifecycle
      |                     (AiJobQueueProofs)     |       (PrdLifecycleProofs)
      +---------- ContributionEvaluation ----------+
                  (EvaluationProofs)

QuestionRows <-EXTENDS- AiApplication         UndoStack <-implements- BrainstormBoard
      ^                 (AiApplicationProofs)       (BrainstormBoardProofs)
      |                                       BoardVersions     BoardPolling
      |                                       (BoardViewProofs: both)
      +------- EXTENDS- AnswerEditing         People            AiRequests
                        (AnswerEditingProofs) (PeopleProofs)    (EvaluationProofs)
```

`MC*` modules hold the values of constants, symmetry sets, state constraints and the
rules that keep TLC's instances apart.  Definitions marked *Faulty variant*, and those
that stand before the definition they imitate and that no specification uses, are
mistakes the properties must notice.

### AiJobQueue, AiJobContract

One row per job: `status`, `attempt_count`, `locked_by`, the lease against the clock
(`none`, `live`, `expired`), whether a waiting row is due, `finished_at`.  `usage`
counts the rows of the usage log by outcome; `history` counts claims, retries and
stored results, which the database does not, so that properties can speak of them.
A worker is idle, has claimed, is calling the provider, has an answer, or knows how
its call failed; like the code it keeps only the key of the job.

Each action is one transaction: `Enqueue`, `Cancel`, `Retry` (`AiJobService`),
`DeletePrd` with its bulk update of unfinished jobs, `RestorePrd`, `PurgePrd`,
`Claim`, `FinishSuccess`, `FinishFailure`, `RecoverExpired`; or one step a worker
makes between them (`BeginCall`, `EndCall`, `WorkerCrash`); or the clock
(`BackoffElapses`, `LeaseExpires`).  `FinishSuccess` and `FinishFailure` decide from
the status of the row alone, as `worker.py:206` does: who holds the lease is not
looked at, and the model lets a late worker answer for another one's claim.

`AiJobContract` is the queue without workers: submissions are tried at most `Limit`
times, deliver once, and are final once they are stopped or delivered.

### AiRequests

Where the jobs come from.  A request has a first step that reads without a lock (the
conversation, unfinished analyses, the diagnoses to compare) and a later one that
files the job under the lock of the PRD (`Enqueue`): key, fingerprint within the
window of duplicates, daily limit.  `SendToCoach` also writes the message;
`Succeed` writes the answer of the assistant, if the conversation is still there.
`CollectExpired` and `DeleteCollected` are the two halves of the clean-up, between
which a message may renew what was read as expired.  `AskAnalysis` holds the lock of
its board; `CheckIsCurrent` compares one diagnosis with the text as it is *now*, as
`evaluation.py:269` does for each in turn.

### QuestionRows, AiApplication

`QuestionRows` says what each writer makes of the row of a question: a save, a hold, a
draft, an integration of notes.  `AiApplication` has questions, notes, whether the
board is the latest one, and jobs of five kinds.  `seen` and `notes` of a job are the
rows its result was made from; the code keeps their versions.  A proposal of the coach
takes the version of the question when its answer is *stored* (`coaching.py:540`), not
when it was asked for.  `Admit` puts a request under way with the PRD as
read before any lock; its transaction follows, for people with a second look at the
PRD (`_lock_current_access`), for AI results without one.

### AnswerEditing

One page of `write.js` and one question.  `detail`, `editor` and `pending` are the
variables of the page; `asked` is the dialogue after a conflict.  A write under way is
`call`, a reload of the whole PRD `load`; both are sent, served and answered in
separate steps.  `redrawn` and `renewed` of a call say that the objects the page began
the request with have been replaced, for `persistPendingAnswer` writes to those
objects.  `read` and `clean` are no variables of the page: the answer the person has
last been shown, and whether the version in the editor came with it.

### PrdLifecycle, PrdContract

One PRD, its two audit logs, the day, what each user has on the page, and the status
each request was admitted on.  `Admit` is the access check of a request, the writing
actions are its transaction, and anything may come between.  `UpdateMetadata`,
`TrashPrd`, `RestorePrd` and `ConfirmDeletion` carry a version; `Complete` and
`Reopen` do not and look only at the status.  `CompleteOverdue` is both the midnight
command and what every access does first; `PurgeDeleted` is the retention cleanup.

`PrdContract` keeps the phase (open, completed, gone), the trash and the number of
completions.  A trashed PRD may still be completed or reopened by a request admitted
before: the contract says so because the code does.

### ContributionEvaluation

Composes the two contracts: the PRD is `PrdContract`, its jobs are `AiJobContract`,
and this module adds what `contribution.py` does at their steps.  `scheduler[c]`
follows `schedule_for_completion` of completion `c` through its transactions
(snapshot, evaluation row, job, link), each of which may fail (`SchedulingFails`,
`RecordFailure`) or be the last one before the process dies.
`_sync_current_prd_status` asks whether the PRD is completed and the evaluation its
latest, and then writes `contribution_status`.  Creating the row, storing scores and
failing hold the lock of the PRD, and there this is one step (`Sync`).
`retry_same_input` and `_record_scheduling_failure` lock no more than the row of the
evaluation: they answer the question in one step (`Read`, kept in `saw`) and write in a
later one (`SyncLate`), and anything may come between.  That a snapshot also gives notes
back is in the modules that have the notes.

### People

The participants of a PRD, its comments and one note of its board with the last
assignment in the change log.  A request keeps the role of its sender as it was
admitted with (`detail.py:37`) and sees the present status of the PRD under the lock.
Removing a participant gives the assigned notes back to their authors; `UndoAssign`
and `RedoAssign` replay an assignment and ask `Assignable` of the old assignee, as
`full_clean` does.  A participant who is added again starts at version 1, and requests
with that version from an earlier membership are still accepted.

Each completion has a `scheduler`, which reads who takes part (`ReadParticipants`), as
`_build_snapshot` does, gives the note back if its assignee is none of them
(`RestoreRemovedAssignees`), or fails.  It holds no lock of the PRD, which may be
reopened and have other participants by then.

### BrainstormBoard, UndoStack

Notes and lines with their versions, status, section, assignee and deletion age, and
the change log.  An action is a whole service method, with the line updates inside
`soft_delete`, `hold`, `restore` and `restore_from_hold`.  A log entry keeps the board
before and after; undo and redo read of it only the rows, fields and versions the
code keeps.  `Undoable` and `Redoable` are the scans of `undo_last` and `redo_last`,
limited to the user's last `Window` entries, markers included.  Requests whose
version does not match change nothing and are left out; what undo and redo compare
with the log is not.

A deletion takes the lines of its note along, and so does a hold, for good; their
entries name the note only.  Undoing a deletion, like restoring the note, brings back
every line that is still there and whose other end is, also one that was deleted on its
own; undoing a hold brings back none; redoing a hold removes for good.

`ReturnNotes` gives notes back to their authors, with a new version, no lock and no entry,
whatever the board is doing (at most until `MaxReturned`).  `LogOther` is an entry that
is no operation on notes (versions managed, AI applied to the PRD): it cannot be undone,
but takes a place in the window of its author.

`UndoStack` is the promise: an operation is pushed and ends what can be redone, undo
pops the last one and redo takes back the one undone last; with any step the oldest may
be forgotten, what can be redone after all that can be undone.  The log implements it
with the stacks of a user read as ascending sequences: the operations that can be undone,
whose last is next, and those that can be redone, whose first is.

### BoardVersions

The boards of one PRD with their order, key and content, the state of the PRD, and for
every user the request that was admitted.  Of the content there is the number of edits
that made it and the number of times notes of the board were given back.  Only
`_lock_canvas` (`Edit`) looks at the PRD again under its lock; managing versions does not,
and what gives notes back does not go through it.  `RemoveParticipant` reaches any board
of a PRD in progress, deleted ones too; `RestoreRemovedAssignees` is what a completion
leaves to be done (`due`), and reaches the active boards of a PRD in any state.

### BoardPolling

One page: its copy of the board, its cursor, the load and the poll under way (each in
the steps its view takes), and the answer to a change of its own.  The board changes
abstractly, with all the effects on lines `BrainstormBoard` has; a note has the version
its last logged change gave it and, apart, the number of times it was `given` back
(`ReturnNotes`), which no event tells of.  `Apply` is `applyEventBatch`; an event of
target `canvas` makes the page load everything.  `Reload` sets the cursor to null and
loads.  A load, a poll and a change of the page's own may be under way together, be
answered in any order, and fail.  `seen` and `skipped` are not in the page: the cursor it
last had, and the changes it went past without showing them, because an older load came
in, the load a batch asked for failed, or the answer to a change of its own was late.

## Runs

| run | shows | bounds |
|---|---|---|
| `queue` | rows, usage and contract of the queue, and that every claimed job settles | 1 job, 2 workers, 3 attempts, 1 retry by the user |
| `requests` | one analysis of a board at a time, complete turns of a conversation, syntheses of one text; unique keys | 2 tabs, 3 keys, 2 boards, 2 personas, 4 jobs (2 of the coach and of the analysis), 2 texts, 2 conversations, daily limit 3 |
| `ai_application` | a result replaces only what it was made from, once; people stop at the completion | 2 questions, 1 note, 1 section, 1 job of any kind, 2 requests, 2 changes, version <= 3 |
| `ai_after_completion` | *violated*: answers stand once the PRD is completed | 1 question, otherwise the same |
| `editing` | the page's version and answer fit; clean saves replace what was shown | 2 texts, version <= 4 |
| `editing_overwrite` | *violated*: every save replaces what was shown | version <= 3 |
| `lifecycle` | versions, audit, stale permissions, retention, contract; overdue PRDs are completed and the trash emptied | owner, editor and administrator, two of them at a time, 2 days, retention 1, version <= 4 |
| `contribution` | scores and numbering under overtaking schedulers, and whose status the PRD shows | 2 completions, 1 attempt, 1 retry |
| `people` | owner, assignees, and what a completed PRD takes | 3 users, one an administrator, 2 requests (1 while a note is about to be given back), 1 scheduling, 1 comment or 1 note, versions 2 and 5 |
| `board` | rows, versions, lines, undo and redo, what they do to lines, stacks, nobody overwritten | 2 users, 2 notes, 2 lines, 1 section, window 4, log of 6, notes given back up to version 3 |
| `board_versions` | order, last board, only the latest is edited | 2 users, 3 boards, 3 keys, 1 edit and 1 return each, 1 scheduling at a time and 1 request beside it |
| `board_polling` | what a page may miss, and that it catches up with the rest | 2 notes, one of them changed by the page, 1 line, 2 changes, batches of 1, each note given back once, 3 such things in all, 1 trouble |

Why these are enough.  Two workers are what a late answer needs, and three attempts
let a job be requeued twice and then fail.  Two tabs are what a look and a filing need
to be apart, three keys make a third request that repeats neither of the others.  Two
questions let a whole draft succeed with one and be refused with the other; two
requests let the second overtake the first, and two changes make a row new and new
again.  Version 4 of a question is three writes: one before a page is loaded, one it
does not know, one of its own.  A version of 4 of the PRD allows trash, restore and
completion, or completion, reopening and another write; with a retention of one and
two days a PRD can be purged, or restored before it is.  Two completions are what
schedulers need to overtake each other.  Three users are an owner, a member who is
removed and one who acts meanwhile.  An undo, its redo and a change before them fit a
log of 3; in the long logs, of edits and deletions only, a window of 4 in a log of 6
loses entries that were undone.  Three boards are the fewest that have an order after
one is deleted, two users the fewest whose deletions meet.  Two changes and a
batch of one make a poll that is not the last, and one more than a batch after a load; one
trouble is a load or a poll that fails, or one made void by a reload.

`MaxRetries`, `LastDay`, `MaxVersion`, `MaxNoteVersion`, `MaxCompletions`,
`MaxComments`, `MaxJobs`, `MaxText`, `MaxConversations`, `MaxChanges`, `MaxLog`,
`MaxReturned`, `MaxBoards`, `MaxEdits`, `MaxReturns`, `MaxDue`, `MaxGiven` and
`MaxTroubles` are bounds of the model; `MaxAttempts`, `Retention`, `Window`, `Limit` and
`DailyLimit` are constants of the program with small values (3, 30 days, 200, 100 and 50
in the code).  Instances are cut further where these bounds do not make them small
enough.  `MCBrainstormBoard` gives `Room`, which asks of a log whether there is room for
one more entry: any two operations and a replay, or longer logs where notes are only
edited and deleted, with one entry of another kind in logs up to one more than the
window.  `MCAiRequests` explores the coach, the analysis, and diagnoses with their
synthesis apart, since no rule joins them; `MCPeople` keeps comments and the note apart
for the same reason, lets roles change beside the note by removal and return only, and
has no viewer there, who may do no more with a note than a tutor.  `MCAiApplication`
allows two changes in all (`FewChanges`).  `MCBoardVersions` lets one request be under
way while a scheduling is due.  `MCBoardPolling` bounds what happens to the board in
all, logged or not, and the constraint of `MCPrdLifecycle` forbids only that a third
user begins; the fair steps, of the maintenance, the clock, the timer and the requests
of the page, never lead out of either, so that they hide no behaviour of those liveness
is about.

Deadlock is not checked where the system really stops: a PRD is purged, or the bounds
are used up.  `board_versions`, `requests` and `people` check it.

### Fairness

Only what runs by itself is fair.  Queue: the loop of `run_job_worker` claims and
recovers (weak fairness of *some* worker), a worker that holds a job goes on because a
provider call ends within its timeout, clocks advance, the midnight purge runs.
Crashes are neither fair nor bounded.  Life cycle: the maintenance command and the
clock.  Polling: the page's timer goes on and requests are answered or fail.  Users
are never assumed to do anything.  The other modules promise nothing in time, and
state no fairness.

## What the violated runs show

* **ai_after_completion.**  `docs/FUNCTIONAL_SPEC.md:123` locks answers and AI
  applications after the completion.  `apply_draft`, `apply_chat_proposal` and
  `apply_perspective_draft` look at the status before any lock, and `_apply_answer`
  (`apps/ai/coaching.py:393`) locks the question only; `PrdApplyService.apply` locks
  the PRD but does not look at its status.  A completion in between is followed by a
  changed answer.
* **editing_overwrite.**  `docs/report/SEQUENCE_DIAGRAMS.md:82` says that the server
  does not silently overwrite.  A page that is drawn again while it has unsaved text
  (`static/prds/js/write.js:361`) takes the new version and keeps the old text on show;
  its next save overwrites an answer nobody there has seen.

## Seen while modelling

Behaviours of the models, with no run of their own.

* *A stop that is never confirmed.*  `delete_prd` (`apps/prds/detail_views.py:494`)
  turns waiting jobs into `cancel_requested`.  No worker holds them and none looks for
  them; when the PRD is restored they stay so for ever and stand in the way of later
  analyses and syntheses.  `EveryStopIsConfirmed` of `AiJobQueue` says the opposite.
* *A retry that is refused.*  A trip through the trash while the evaluation runs leaves
  a failed evaluation with a cancelled job, which `AiJobService.retry` refuses
  (`apps/ai/contribution.py:146`): `FailedEvaluationCanBeRetried`.
* *A note that cannot come back.*  `restore` (`apps/brainstorm/models.py:398`) revives
  every deleted line of the note, also one deleted on its own and drawn anew since; two
  lines of one pair meet the unique constraint: `DeletedNotesCanBeRestored`.
* *A change that is never shown.*  `poll` (`static/brainstorm/js/app.js:213`) stores the
  new cursor, then asks for a full load; when it fails, the next poll starts after the
  change.  `docs/specs/brainstorm-backend-scenario.md:925` says that what others have saved is
  brought to the page.  `LoggedChangesAreShown` says so and is violated (`MCBoardPolling`
  with `Own = {}`, `MaxLog = 1`, `MaxGiven = 0`).  The answer to an own change, shown
  without a look at its version (`app.js:136`), may come after a poll has brought a later
  one; the page keeps the earlier.
* *Notes given back.*  `remove_participant` (`apps/prds/services.py:244-257`) gives back notes
  of all boards and `_restore_removed_assignees` (`apps/ai/contribution.py:430-445`) those of
  a PRD already completed, without the lock of the board and without an entry in its log.
  Three things follow, against what documents say.  Past boards are written, which
  `docs/FUNCTIONAL_SPEC.md:144` calls read-only: `OnlyLatestIsWritten` of `BoardVersions` is
  violated under `MCBoardVersions.cfg`.  Assignees move after the completion, which
  `FUNCTIONAL_SPEC.md:123` excludes: `CompletedLocksAssignees` of `People` is violated under
  `MCPeople.cfg`, by a note that was restored with a stranger as its assignee.  And pages that
  poll the log go on showing the old assignee, with a version that makes their next save
  conflict, although `docs/ARCHITECTURE.md:61` says that a change updates version and log:
  `PageShowsBoard` of `BoardPolling` is violated (`Own = {}`, `MaxLog = 1`, `MaxTroubles = 0`).
  The properties that are checked name what is given back as the only exception.
* *Lines under undo.*  Undoing the deletion of a note also draws lines that had been deleted
  on their own before (`brainstorm/models.py:398`), and undoing a hold leaves the note
  without the lines it had; `docs/specs/brainstorm-backend-scenario.md:251` and `:274` say as much.
* *Text that is lost.*  What is typed while a save is under way is taken for saved
  (`write.js:562`); a proposal accepted while there is unsaved text is shown over it,
  and the text stays to be saved (`write.js:750`).
* *Assignees.*  A note deleted while its assignee is removed comes back with a stranger
  (`apps/prds/services.py:244`); `People` marks it `restored`, until the next completion
  gives it back.  A participant added and made the assignee after a completion has read
  the list loses the note again.  Once a removed author
  is the assignee, `full_clean` (`apps/brainstorm/services.py:1244`) refuses undo and
  redo of every later change of the note.
* *Conversations.*  The clean-up deletes what it has read as expired although a message
  may have renewed it (`coaching.py:587`).
* *Results.*  A draft put in the place of an answer does not set `is_completed`, unlike
  a save; `question_answer` does not move the version of the PRD.
* *Contributions.*  The snapshot of a completion may be of a PRD reopened since
  (`contribution.py:173`); a PRD completed again can show the success of its first
  completion (`contribution.py:516`); a retry or a failed scheduling that looked before a
  newer evaluation was made and writes after it puts the status of the older one on a
  completed PRD, or on one reopened since (`contribution.py:509-517`), until the newest
  evaluation changes; a job that fails before it is linked leaves its
  evaluation pending (`contribution.py:713`).
* *Boards.*  Boards of a completed PRD can still be cloned, reordered and deleted by a
  request admitted before (`brainstorm/services.py:130`); the second undo of the same
  note always conflicts (`brainstorm/services.py:1182`).
* *Outside the models.*  `new.js:71` makes a new key for each click, so that a lost
  answer is followed by a second PRD.

## What is proved

Theorems hold for all values of the constants that satisfy the named `ASSUME`s of the
module; these say that sets are disjoint where the code's identifiers are, and that
bounds are naturals.  Every argument is an inductive invariant; below is what the
stated property lacked.

**AiJobQueueProofs.**  `QueueIsSafe` (`Spec => []QueueInv`), and from it `TypeCorrect`,
`RowsStayConsistent`, `UsageIsComplete`; `StopIsFinal`; `QueueKeepsContract`, that the
queue implements `AiJobContract`.  `QueueInv` is the conjunction of the three
invariants.  None of them is inductive alone: that a claim cannot exceed the maximum
needs that no waiting row has used up its attempts; that a late answer is logged once
needs a running row to have a lease, for the open attempt is what
`UsageAccountsForClaims` balances; that a result is stored once needs the status of the
row.  `RowWise` splits `QueueInv` into a statement about the shape of the state and one
statement `RowOK` about each row with its usage and history.  One lemma per row update
(`WithdrawnOK`, `ClaimedByOK`, `AfterFailureOK`, `ResultOK`, ...) shows that it keeps
`RowOK` whatever worker makes it, which is why late workers are harmless.  For the
contract each action is mapped to its step or to a stutter.

**PrdLifecycleProofs.**  `LifecycleTypes`, `CompletionsAreAudited`,
`CurrentVersionShowsContent`, `EditorsCannotReachCompleted`, `NothingIsPurgedEarly`,
`TrashStandsStill`, and `LifecycleKeepsContract`, that it implements `PrdContract`.

* Versions.  `VersionIdentifiesContent` is inductive only with `PagesAreOld` (no page is
  ahead of the row): then a step that moves the version leaves every page behind, and
  `WritersAreVersioned` shows that all writers move it.
* Stale permissions.  `AdmissionIsCurrent`: if the page of a request is still current,
  so is the status it was admitted on, for the page was loaded before.  An editor's
  request that passes the version check on a completed PRD was therefore admitted on a
  completed one, which his role does not allow.
* Retention.  `TrashIsLogged` ties the day on the row to a log entry no restore follows;
  only then does the purge's look at the row say something about the log.
* Contract.  `StatusSteps` and `TrashSteps` sort the actions by what they do to the
  status and to the trash; the cycle is half the length of the audit log, so the
  refinement needs `CompletionIsAudited`.

**EvaluationProofs.**  Of `ContributionEvaluation`: `ContributionTypes`,
`AnswersStayAccountedFor`, `ScoresStayFinal`, `ContributionsFollowNewest`.
`ScoresStayFinal`, that stored scores are never changed, is proved and in no run.
`EvaluationOK` says which steps of the scheduler, which retry and which job an
evaluation of each status may have; a success never meets a scheduler that could still
fail it.  `SchedulersAreTimely` adds that no scheduler runs ahead of its completion.
The next version number is one more than the number of evaluations, by cardinality
(`NextVersionIsFree`), because the versions so far have no gap; so no two evaluations
share one.  `ContributionsFollowNewest` is about steps: a step that makes a row makes the
newest one and shows it (`MirrorTurns`), a step that makes none writes the status of the
newest to a completed PRD or leaves both alone, unless it is the write of an overtaken
sync (`Mirrors`).  `ReadersInv` is what a write without the lock needs: who found that
his evaluation is not to be shown has not found so after the completion of which it is
the newest.

Of `AiRequests`: `RequestTypes` and `RequestsStaySound`.  `RequestsInv` has one part
per promise.  A request of an analysis has its board to itself (`AnalysesAreApart`), so
that two of them cannot both have found no unfinished one.  The messages of a
conversation are of jobs that were filed, a question before its answer
(`TurnsAreKnown`).  No job is about a text that is still to come (`TextsAreOld`); so
each diagnosis that was found current is of the newest text of all, and when there is
none left to compare they are all of that one text (`SynthesesAreReady`,
`SynthesisIsOfOneText`), although people write between the comparisons.  That there is
one diagnosis for each persona is a bijection (`SynthesesCompare`).

**AiApplicationProofs.**  `ApplicationTypes`, `ResultsAreUsedOnce`,
`ResultsReplaceWhatTheySaw`, `CompletionStopsPeople`.  `SourcesAreOld`: a row a result
was made from is older than the present one, or the very same.  Equal versions then
mean equal rows, which is all the code compares.  `UseIsRecorded`: a row that took a
result is newer than what the result saw, so that the same approval fails the next
time, with whatever key.

**AnswerEditingProofs.**  `EditingTypes`, `DetailStaysTrue`, `CleanSavesAreHonest`.
A pair of a version and an answer is `Known` when the version is past, or is the
present one and the answer true.  What is known stays so, since every write moves the
version (`KnownStaysKnown`); the invariant says it of the detail, of the clean editor,
of every call and of the reload.  So no order of answers can bring a page a wrong pair,
and only an editor whose version came without its answer, which is not clean, can
overwrite unseen.

**PeopleProofs.**  `PeopleTypes`, `MembershipStaysSound`, `CompletedStandsStill`, for any
number of completions whose notes are still to be given back.  The
assignee is sound because every removal gives the notes back in the same transaction
and every assignment, replayed ones too, asks the participants of that moment; the role
of an admission is never used for it, and who gets a note back is its author.
`CompletedStandsStill` takes the actions one by one: under the lock all but the reviews
find the status that stops them, and what gives notes back changes nothing but one
assignee, from somebody the list of participants it has read does not have.

**BoardViewProofs.**  Of `BoardVersions`: `VersionsTypes`, `BoardsKeepTheirOrder`,
`OnlyLatestBoardIsEdited`.  The invariant adds to `OrderIsExact` that a page names no
board twice: a request with as many names as there are active boards then names each of
them, and its positions are an order again.  Since there are as many boards as numbers
and each number is taken, no two boards share one (`OrderIsOwn`); so a board has as many
before it as its number says (`CountIs`), which is what a deletion counts once the latest
is gone (`BeforeIsCounted`).  A clone takes 0 and moves all others down.

Of `BoardPolling`: `PollingTypes` and `NoOtherChangeIsMissed`, whatever requests of the page
overlap or fail and however often notes are given back.  `Follows(view, k)` says that
a view is wrong only about what an event after position `k` of the log tells of.  What
follows goes on following whatever the board does next (`FollowsOn`), because every
change but the giving back, which is kept apart, is logged with all it touches
(`Changes`).  A load follows from the cursor it
read first on, for what it reads later is newer, and lines whose notes it missed are
lines of a note changed since (`LoadKeepsReads`); a poll follows from its own cursor
on, and its rows are those after the cursor it was asked with (`RowsAreRead`).  The
view is then carried through a batch row by row: after row `i` it follows from `i` on
(`RowFollows`), since a note is taken from what was read later, and a line from a row
that, if it is not the last word on the line, is followed by one that is
(`LogTellsLines`).  The induction over the rows is by a least counterexample (`UpTo`),
and `ShownIsApplied` says that the recursive function `Shown` applies one row after the
other.  Of the page itself less is true, for a load may put an older view in its place:
`PageFollows` says that it is wrong only within `NotShown`, what it has still to poll and
what it has passed by.  `ShowLoadKeepsPage`, `ShowPollKeepsPage` and `ShowOwnKeepsPage` show that
each answer that is shown passes by no more than the changes between what it was read from
and what the page had seen.

**BrainstormBoardProofs.**  `BoardTypes`, `NoLineDangles`, `VersionsTellRowsApart`,
`UndoAndRedoPutRowsBack`, `UndoAndRedoMindTheLines`, `UndoAndRedoOverwriteNothing`,
`UndoImplementsAStack`, for any users, notes, lines and texts, any `Window`, `MaxReturned` and
length of the log, and any `Room`.  The invariant `BoardInv` has
four parts besides the properties themselves.  `Sound` is what a board may look like:
the constraints of both tables, and live lines between live notes.  `LogIsSound` says of
each entry what its operation did to its rows, field by field, and of each marker that
its board has the rows of the operation it names undone, or redone, exactly.
`RowsAreNewest` and `LogIsNewer` order versions: a row is never older than one in the
log, and an entry gives its rows versions no entry before it had.  Every action is then
described once: the new board is sound, each row follows from its old self (gone for
good, unchanged, newer, or only expired: `RowFollows`), and the rows named are newer.
From that alone `BoardMovesOn` keeps the order of versions, and with it
`VersionIdentifiesRow`.  For undo, the check of versions finds the rows as the last word
on the operation, itself or its last marker, left them (`RowsAreAsLeft`); the log says
what that was; and `RevertedIsExact` and `ReappliedIsExact` go through the kinds of
operations.  `LogIsNewer` gives that nothing is overwritten: an entry written after the last word
would have raised a version the check has found unchanged (`NothingWasDone`).  That the
window hides no marker of an operation it shows (`MarkersAreSeen`) is needed for both.

`UndoAndRedoMindTheLines` needs what no entry says, where the lines at its note have been
meanwhile.  `LinesInv` follows them through the log: a line in the board before an
operation is still there, with the same two ends, unless it is gone for good
(`LinesGoOn`), and a hold that stands has left none at its note (`HoldRemovesLines`);
`StepMovesLines` gives what any step may do to a line.  So the lines an undone deletion
brings back are those there were before it (`LinesComeBackByUndo`), and an undone hold finds
none to bring back (`LinesMindHolds`).

`UndoImplementsAStack` is the refinement of `UndoStack`, for every user at once.  Its
invariant `LastUndoneFirst` adds to `BoardInv` what makes a stack of the two scans: what
can be redone is newer than what can be undone, and of what can be redone the later
undone is the older; so `redo_last`, which takes the latest marker, takes the least
operation (`MarkerNames`).  `OperationIsStacked` and `MarkerIsStacked` say how an entry
changes both sets, and `WindowMoves` that the window of its author takes it in and may
lose only what is older than all it keeps; an entry of another kind only loses
(`OtherIsStacked`).  The stacks themselves are the ascending
sequences of these sets: a finite set of numbers has one (`AscendingExists`), there is no
other (`AscendingIsOne`), and without its members below a bound it is a suffix of itself
(`OldestAreForgotten`).  The cap `MaxLog` bounds the operations of `UndoStack` and nothing
else in the proof.

Only model-checked: liveness (`JobsSettle`, `MaintenanceIsDone`, `PageCatchesUp`:
fairness and ENABLED are out of the prover's reach).

## What is not modelled, and why

* OTP login: a verification is one transaction under the lock of one row, short enough
  to be read; its unlocked counters are listed as hazards.
* Home, export, the SQL of the parent service, Slack messages and the Gemini client keep
  no state here; their outcomes are choices of the models.
* Prompts, texts, colours, coordinates, title cards and viewports are data no property
  tells apart.  The normalisation of scores and limits on tokens and cost are arithmetic
  on one request's data.  Whether a draft is completed or a preview has any note to
  offer is a choice.
* Cached demonstration results and the validation of the provider's output belong to
  one call and store nothing else.
* Lock waits and deadlocks between transactions: an action is a whole transaction.  The
  orders of locks that may deadlock are listed as hazards.

## How it was built, and what may come next

The contracts and the two components under them came first (`AiJobQueue`,
`PrdLifecycle`), then what is composed of both (`ContributionEvaluation`), the board in
three modules by what they share no state in, and last the writers of answers and the
people of a PRD.  Runs of one module are merged, so that each run asks a question of
its own.

1. Login, with challenges, attempts and cooldown, as a small module of its own.
2. `AiRequests` as the origin of the submissions of `AiJobContract`, and daily limits
   across two PRDs.
3. Row locks as steps, for the orders listed under *deadlock*.
