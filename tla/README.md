# Marvis: TLA+ models, checks and proofs

Marvis is a local-first workspace server: a FastAPI application, an MCP server and
a CLI that share one SQLite database and a directory tree of project files.  What
is hard in it is not the number of endpoints but a few protocols that span several
commits, several processes and the file system.  This directory models those.

Paths below are relative to the repository root; line numbers are of the modelled
commit.  `PROJECT.json` maps every definition to the lines it stands for.

## 1. Inventory

| Component | State | Operations | What must hold |
|---|---|---|---|
| Cloud/F change control (`core/api/services/project_lifecycle.py` 663-1169, tables of `migrations/187_project_lifecycle_control.sql`) | `cloud_f_control` (readiness, change epoch, lease operation, owner, expiry, generation), `cloud_f_active_operations`, `cloud_f_change_operations` | activate, acquire (also renews), complete (also replays) | one protected change at a time; lease and registry agree; an epoch is consumed once; generations fence earlier holders |
| Project lifecycle (same file, 408-646 and 1198-2087) | `project_lifecycle_state`, `project_write_events`, approvals, lifecycle operations, `project.yaml`, `.project-create.lock` | journaled writes (triggers, `record_project_write`, the two file-write context managers), selector update, approval, archive with retry | a project is fenced exactly while an operation is unfinished; what is archived is what was approved; nothing is written after |
| Single-writer database (`core/api/db.py` 1496-1599, 1903-2031), file lock (`core/platform/locking.py`) | `_write_lock`, the one writer connection and its open transaction, SQLite's write lock, the project lock | `write_db`, `get_write_db`, `acquire_write_db(timeout)`, `guarded_project_file_write`, `isolated_project_file_write` | rollback on every way out; lock order; nobody waits for ever; journal before effect |
| Governed decisions (`services/governed_decisions.py`) | `governed_decisions`, `decision_lifecycle_operations`, `historical_artifact_pointers`, Markdown files, the fence of the source project | create, accept, supersede, historical pointer | files change only under the fence, files and rows agree, an interruption can be resumed, supersession ends |
| Ingest pipeline (`services/ingest/watcher.py`, `parser_router.py`, `insert_saga.py`, `use_cases/ingest_triage.py`) | `ingest_pending` (status, project, path, target name), the input folders, the artifacts of a project, the project lock | enqueue, parse (with transient retries and a project switch), retry, requeue, approve, reject, delete, patch, materialize, insert, finish, fail | an upload is never lost outside of a delete; an artifact is never replaced; an inserted row names its artifact; a row in work has a worker |
| Session operation leases (`services/session_operation_leases.py`) | `session_operation_leases`, `sessions_meta` | acquire, release, run under lease | one lifecycle operation per session |
| Brain cycle jobs (`services/brain/jobs.py`, `services/inbox_digest_jobs.py`) | a run lease in `app_settings`, cycle runs, journals | claim, execute, release | a cycle is not run twice at once |
| Task transitions, pull requests (`services/task_transitions.py`, `pr_service.py`, `git_ops.py`, `ci_service.py`, `webhook_service.py`, `use_cases/pull_requests.py`, `use_cases/tasks.py`, `scripts/populate_artifacts.py`) | `tasks.status`, version and completion mode, `pull_requests`, the target branch here and on origin, merge receipts | start a branch, submit, close, request changes, patch a task by hand, handoff, merge (by a user or reported by GitHub) | only commits that were tested or waived land; merged and completed mean landed; receipts tell what happened; a failed merge leaves nothing |
| Audit chain (`services/audit_chain.py`, migrations 175 and 176) | `audit_log`, `audit_chain_heads`, `audit_chain_state`, a checkpoint kept elsewhere | append (may fail or be cancelled), verify, take a checkpoint, activate | a gapless hash chain per workspace; a rollback of the database is told |
| Schema upgrade (`services/schema_upgrade.py`, `run_migrations` in `db.py`) | receipt and backup files, database version, the database file and its write-ahead log | upgrade, restore | a database is migrated only with its exact copy anchored; a restore brings that copy back |
| Tokens and grants; search, embeddings, knowledge graph; inbox; notifications and webhooks; terminal; MCP and CLI adapters; user interfaces; wizard, telemetry, deployment | various | request-local | see section 7 |

How they interact.  Every write of a process goes through its one writer connection
under `_write_lock`; several processes (API server, `core/api/mcp/server.py`, the CLI
through `core/cli/_runtime_ctx.py`, `core/cli/marvis_brain.py`) each have a writer of
their own on the same file, so between processes only SQLite's write lock and the
compare-and-set conditions of the statements serialize.  Writes to the tables of
a project run triggers that append to `project_write_events`, whose own triggers
refuse the write when the project is archived or fenced and otherwise advance
`writer_watermark`.  File writers take the project lock and journal before they
touch a file.  Archive and decision operations take the project lock, the Cloud/F
lease and the fence of their project; selector updates run inside another
protected change.  The ingest tasks take the project lock for what they do to files, not for what they do to their
rows.  A merge appends its receipts to the audit chain; the chain's tables are created and activated by
migrations that an offline upgrade applies, and go back in time when a backup is restored.

The hard behaviours are the reads a call makes in autocommit mode and relies on in
its later transaction; crashes between the commits of a saga; leases and approvals that
expire while their holder works; retries of operations that partly happened;
cancellation of a task that holds a shared connection; the order of two locks; status updates that do not
repeat the status that was read; and effects (a file, a merge commit, a push, a database file) that no rollback undoes.
`PROJECT.json` "hazards" lists each at its line with the properties that cover it.

## 2. Plan

1. *Core, done.* `ExclusiveChange`, `CloudFControl`, its proofs; `ProjectLifecycle`
   on top of it; `GovernedDecisions` on top of both; `WriterLock`.
2. *Extension, done.* `IngestPipeline` (rows against files, several tasks on one row), `PullRequests` (tasks,
   pull requests and the repository they are merged into), `AuditChain` and, on top of it, `SchemaUpgrade`.
   The two leases without a fence were left out, see section 8.
3. *Proofs.* Done: every safety property, every action property and every refinement that a passing run checks, for all
   components.  The liveness properties stay with TLC, see section 7.

## 3. Modules and how they correspond to the code

`ExclusiveChange` is the abstract specification: changes run one at a time, a holder
keeps its place until it finishes, the epoch moves by at most one when it does.

`CloudFControl` is the control of one workspace.  The three calls are split where
the code can be interleaved with another process: a *read* step (the SELECTs,
which run in autocommit mode, and every check made on them) that stores in
`call[p]` what the call uses later, and a *commit* step (the transaction that the first
UPDATE opens: its compare-and-set, the row changes and the commit).  A call that is
refused on what it read changes nothing and is a stuttering step; one that fails its
compare-and-set, an IntegrityError, a cancellation or a death is `Rollback`.
`activate_cloud_f_control` is one step because `ensure_cloud_f_control` starts with an
INSERT OR IGNORE that opens the write transaction before anything is read.  The
SELECTs of one call are taken as one read: between them another process may commit,
but every commit that grants a lease changes the generation and every one that
advances the epoch changes the epoch, which the compare-and-set re-checks, and a
completion seen halfway only makes a lease look taken that is free.  `leaseExpires`
is 0 for NULL; the clock is explicit and a lease of `MaxTime + 1` outlives it.
`acquire_cloud_f_change` accepts any operation kind that matches its pattern,
so kinds are shared with the sagas.

`ProjectLifecycle` extends it with the writers of a project and the archive.  A
process serves a saga as the record `saga[p]`, whose `pc` is where `archive_project`
can be interleaved or interrupted: after its reads (`reserving` for a first request,
`resuming` for a retry), after the first commit (`prepared`), after `project.yaml` was
replaced (`applied`), after the checkpoint commit (`checkpointed`).  `ArchiveFinish` is the
final read and the final transaction in one step: the control row's compare-and-set
repeats epoch, generation, owner, operation and expiry, and the other statements
repeat the rest.  A digest is modelled by the content it is the digest of.  The idempotency
key is a second unique name of the operation; requests whose names disagree are
refused and change nothing.  `lock` is `.project-create.lock`, which `archive_project`,
the approvals, the selector update and the file writers hold across processes;
`ProcessIdle` is the writer lock a request holds within its process.  `ExternalEdit` is an editor
or a `git pull` that changes `project.yaml` without journal or lock.

`GovernedDecisions` extends that again, so decisions, archives and other changes share
one control, one fence per project, one file lock and one `saga[p]`.  A decision saga passes
`starting` (first request) or `restarting` (retry), then `ready` (operation `prepared`), `written`
(file replaced, or found to be already), `marked` (operation `filesystem_applied`); a retry
enters at `ready` or `marked`, wherever the journal says.  A `Document` is the
decision frontmatter the operations read and write and a body (`text`); `content_digest` is the document,
`body_digest` its text.  `StillAllowed` holds the checks every attempt makes before it touches the
control, `FirstAllowed` adds those of a first request, `CanRecord` is what the primary keys and unique
indexes demand of the last transaction.  A request carries digests its author saw; one with
stale digests is refused before anything changes, so requests are built from the present
files (`RequestFor`) and only become stale later.  The helper that starts an operation accepts several
projects; each of its four callers passes one, the source project.  The two relations of a pointer are two kinds of
request; the title, author and time stamps of the frontmatter are left out.  `DocumentEdit` is an edit behind the journal, and shares the bound
`MaxFaults` with crashes.

`WriterLock` is the connection discipline underneath.  A unit is a task that runs
one of three programs (`Steps`): a plain write, `guarded_project_file_write` inside a
request, `isolated_project_file_write`.  `tx[p]` is what the open transaction of a
process's only writer connection holds, whoever wrote it: that is what makes
cancellation visible.  `_write_lock` is FIFO (asyncio.Lock); SQLite admits one open write
transaction across processes and a waiter either gets it or fails with
`BusyTimeout`.  The exit of the inner project guard and the rollback are one step.  `TypeOK` says of the queue what the lock
relies on: it holds units of its process that still wait, each once.  A unit whose wait ends in a timeout or a cancellation
must take itself out (`ReleaseAll`), or the lock would be handed to somebody who has left.

`IngestPipeline`.  The watcher, the API and the MCP server write the same rows from processes of their own, so a
SELECT and an UPDATE that relies on it without repeating its condition are two steps (`Requeue` and `RequeueWrite`,
`ClaimRead` and `ClaimWrite`, `Delete` and `DeleteFiles`), and an UPDATE that repeats the condition is one (`Approve`,
`Activate`, `SagaRecord`).  A task is one coroutine or request with what it read; several may work on one row, which
is what retries, requeues and the watcher bring about.  `disk` is the input folders and the artifact folders; what
happens between taking and leaving the project lock is split where a crash leaves two copies (`SagaUnlink`), a row
without its file (`PatchMove`, `FinishSwitch`) or a file gone before its row (`DeleteRow`).  A file stands for its
digest; `kind` decides how it is materialized and what the parser may answer.  The graph nodes, embeddings and
sidecars added after the row says inserted are left out, and with them the failures they cause, except that the saga's exception handler
(`SagaFails`) may run after any of its steps.  `taken` is a history variable: the artifacts that a delete or a patch took away.

`PullRequests`.  A process holds its writer connection for a whole request, so it runs one at a time; requests of two
processes interleave between the SELECT and the transaction that uses it (`ReadPr` and `WritePr`, `ReadTask` and
`WriteTask`, `ReadHandoff` and `WriteHandoff`).  `stale` holds the processes whose task got a newer version since they read it:
the optimistic check of `validate_and_transition_task` and of `update_task`, which a handoff does not make.

There are four ways to complete a task: by its own merge, by the merge of a pull request whose body names it, by hand (`update_task`, `tasks.py`
931-976) and by a handoff (`populate_artifacts.py` 489-548).  The last two want no active pull request; by hand a merged one is wanted too, unless
`completion_mode` says doc or none, and a handoff completes only such tasks.  Anyone may patch `completion_mode` at any time, so
`exempt` remembers the tasks that ever were in one of these modes.  The projects of the model take pull requests: in one that has no git
repository or no pull request gate (`requires_pr_gate`) completing a task promises nothing about commits.

The merge is the sequence of reads, commits and git commands of `merge_pull_request` and `merge_pr`: intent receipt, the head of the branch
(`MergeRead`, `pr_service.py` 1006), the CI guard (`MergeGuard`), 'merging', fetch and fast-forward, merge commit, push, 'merged', the commit's
sha, the task, the siblings named in the body, confirmation; each is a step, because a commit, a crash, a busy database or another
process may come between any two.  The guard demands the checks of the head that was read, but waives those whose path filters do not match
the diff of the branch, and that diff is taken by the branch's name in a later await (1012; `git_ops.py` 229-276 from the merge base with the
local target).  `Touches` says which diffs from one commit to a later one the filters match; `Applies` is the waiver, which an empty diff does not
give (`ci_service.py` 99-117).  `HookMerge` is `handle_pr_merged` (`webhook_service.py` 345-379): a merge on GitHub (`GitHubMerge`, which may
squash and so leave origin without the branch's commit) is delivered late, repeatedly or not at all, and runs the same `merge_pr` with no receipt
around it.  `outside` holds the commits that were merged there.

A failed push (`GitPushFails`) puts the local target back; two more failures may hide behind it, which the code does not notice
(`git_ops.py` 516-536): `update-ref` fails and is only logged, or the remote took the push although it reported a failure.  Both count as
faults, like a crash and a busy database (`MaxFaults`).  Merges are served by one process: `_repo_locks` is a lock of a process and
`update-ref` is not conditional, so a second process that merges would overwrite the first one's update.  Pushing after a merge
(`MARVIS_GIT_PUSH_ON_MERGE`) is on, its default.  `MergeLock`, `MergeBack` and `MergeRecord` write the status
whatever it has become, as the code does.  After a crash in `merging` the pull request stays there: only a close, a submission or a
merge that had read it before writes it again.

`AuditChain` and `SchemaUpgrade` share one database file.  `db` is what is committed, `tx` the open write transaction of
an append: SQLite serializes write transactions and an append takes the write lock before it reads the head, so one suffices; the owner of the
transaction may be a whole operation that fails later (`Rollback`).  A cancellation rolls nothing back (`db.py` 1955-1986, the finding *cancelled
writers*): `AppendCancelled` leaves the transaction as it is, at any statement, and the next unit on the connection commits it or, if that unit fails,
rolls it back (`CommitLeft`, `Rollback`).  `AppendInsert` is disabled where the unique index refuses the sequence number: after a row without its head no
append of that workspace gets through.  A hash is modelled by what it commits to: the
workspace, the legacy rows, the entries in order.  `checkpoint` is what a trusted provider outside of the database
remembers.  `fleet` is the image whose processes run: those before 176 insert bare rows, later ones append.
`SchemaUpgrade` adds receipts, backups and the runner of an upgrade or a restore, which holds the migration lock with
every writer stopped.  Versions are 0 (no database), 174 to 177; the migrations before 175 are one step and 177 is opaque, 175 and 176 are a
SQL part that commits the version and a hook that follows or is found missing later (`RepairsNeeded`).  `before` in a
receipt is a history field: what the database held when the attempt began.  A kill while the backup is copied leaves no file, an empty one or
a torn one.

`file` is what the database file would hold if its sidecars (the write-ahead log) were gone.  SQLite brings the two together
when it checkpoints (`Checkpoint`, also `wal_checkpoint` in `db.py`) and when the last connection closes; a killed process leaves them apart, or a
checkpoint half done.  A restore unlinks the sidecars first (`RestoreUnlink`, `schema_upgrade.py` 550 and 655), which drops what was committed only there,
and replaces or removes the file next (`RestoreReplace`, 551 and 656); a kill may come in between.  Not modelled: an image that applies migration 175 or creates a database while it boots (databases may begin at 175 instead), and
failures to write a receipt.

## 4. Runs

| Run | Bounds | Shows |
|---|---|---|
| `cloud_f_control` | 2 processes, 2 operations, 2 actors, 1 kind; epochs to 2, generations to 3, time to 2; symmetry | lease, registry and journal agree; a pending acquire is fenced; one change per epoch; generations fence; refinement of `ExclusiveChange` |
| `archive_one_process` | 1 process, 1 project, 2 operations, 2 approvals, 2 actors, 2 contents, 1 journaled write, 1 crash; symmetry | an interrupted archive can be resumed; archived content was approved; archives and other changes refine `ExclusiveChange` |
| `archive_two_processes` | 2 processes, 2 operations, 2 approvals, 2 selectors, 1 file writer, 1 write, 1 crash; symmetry | the fence matches the unfinished operation; archived at the approved coordinates; no file effect while fenced or archived |
| `archive_liveness` | 1 process, 2 operations, 1 approval, 1 file writer, 1 crash, time to 1; no symmetry | a retrying client finishes the archive |
| `generation_reuse` | 2 processes, 3 operations, time to 2 | *violation*, see section 6 |
| `governed_decisions` | 1 process, 1 project, 2 files, 2 identifiers, 2 bodies, 2 operations, 1 approval, 1 crash or edit, time to 1; earlier accepted decisions and plain files at the start; symmetry | fence, files and rows agree; interruptions resume; supersession ends; files change under the fence; decisions, archives and other changes refine `ExclusiveChange` |
| `decision_dead_end` | the same with one file, one body, no identifiers, no approvals | *violation*, see section 6 |
| `writer_lock` | 3 units of every combination of kinds, 2 sharing a process, 1 failure or cancellation besides timeouts | locks match progress; failed units leave nothing; journal before effect; every unit ends |
| `writer_lock_cancel` | the same | *violation*, see section 6 |
| `ingest_pipeline` | 2 files in one project, 2 projects, 1 proposed name, 2 rows, 2 tasks at a time, 4 requests, 1 crash or cancellation; files extracted and moved, or a spreadsheet and an image; symmetry | rows in work have workers; inserted rows have their artifact; uploads survive; artifacts are not replaced |
| `pull_requests` | 2 tasks, the pull request of one naming the other, 2 pull requests, 2 commits per branch, 1 push by others, 2 processes, 1 merge attempt with a receipt and any number of merges from the webhook, 4 other requests, 1 fault; the filters of one task match all its diffs, those of the other not the one that spans both commits; symmetry | tested or waived commits land; merged and completed mean landed; receipts match effects; failed merges leave nothing |
| `schema_upgrade` | 1 workspace, 2 audit rows, releases ending at 176 and 177, 2 attempts each, 1 kill or failing step, databases that begin absent, at 174 or at 175 | the active chain verifies but for the row of a cancelled append; checkpoints tell rollbacks; restores are exact |

Why the bounds are enough.  Two processes are what an unserialized pair of read and
commit needs, and three generations let a lease be taken, finished and taken again
under a pending call.  Two operations give a holder and a rival; three are needed only for
the violation, where a finished change, an archive and a rival meet.  For decisions two
operations are also enough for a supersession that follows another one, an acceptance of what was just created and a pointer
to a decision just superseded, because runs start with accepted decisions and plain files in every arrangement;
`MaxWrites` is 0 there because each decision journals a write itself.  Time 0 to 2
has a lease that is live, one that expires under its holder and one that outlives the run.  One
crash can hit every step, and a second attempt then runs to the end.  One journaled write
(`MaxWrites`) makes an approval stale before or after each read.  In `ingest_pipeline` two files with one proposed
name are the collision, two tasks the double run of one row, and four requests are an enqueue of each file, or of one with a retry, a
patch or a delete on top of it.  In
`pull_requests` two commits let one arrive between the read of the head, the diff and the merge, a delivery of the webhook meets what the attempt left,
and four requests let a pull request be opened, submitted, closed and followed by another while a merge of it runs; two attempts with a receipt were checked once.
In `schema_upgrade` two releases with two attempts give a restore after another release's upgrade, two rows a
chain with a checkpoint that is rolled back and grows again, a legacy row with a chained one, and a cancelled append before or after a checkpoint; two workspaces were checked once.  `MaxEpoch`, `MaxGeneration`,
`MaxWrites`, `MaxRequests`, `MaxCommits`, `MaxEntries`, `MaxAttempts`, `MaxFaults`, `MaxAborts` and `MaxTime` are guards of the actions that would
pass them and nothing else.  Deadlock is not checked: operations end, bounds are
reached and an idle system may stop.

Each property has a mutant of a mapped definition (`PROJECT.json` "mutants") that
breaks it: a dropped generation in the compare-and-set, a registry check left out, a
generation that is not advanced, a fence that is not lifted, a rollback that is
forgotten, a lock order that is swapped, a source unlinked before its copy is in place, a wait that is given up and stays in the queue, a completion by hand that does not ask for a merged pull request, a branch name merged instead of
the commit that was checked, a rejected push that is not put back, an activation that trusts the root it finds.

## 5. Fairness

`archive_liveness` assumes what the code's scheduling gives: a call that has begun goes on
or fails (weak fairness of `ArchiveStep` and `CallEnd`), a file writer leaves its critical section, and time passes.
On top of that the client of an unfinished archive retries (strong fairness of
`RetryArchive`: the project lock is free again and again, and one of its polls finds it free).
Nothing else is fair: no new request need arrive, a crash may hit any step up to the bound, and
a retry may find its lease expired any number of times the clock allows.  `Bodies` is a singleton there:
an edit of `project.yaml` after the preparation makes every retry fail with
`archive_recovery_content_mismatch`, so the property is false with such edits, which
is what the code does and not a promise it breaks.

`writer_lock` assumes weak fairness of each unit's own progress.  Weak fairness is
enough for the lock waits because the workload is finite and the queue is FIFO.

## 6. Findings

*Generation reuse* (`generation_reuse`).  `acquire_cloud_f_change` compares the generation it read; the
first commit of `archive_project` (1745-1767) does not, nor does the start of a governed
decision (`governed_decisions.py` 447-464).  An archive that read generation 0 can therefore
commit generation 1 after another process's change has taken and finished generation 1, and an acquire
that read generation 1 then passes its own compare-and-set once the archive's lease expires.  Two
operations are active, neither can finish or resume.  It needs two processes, which is
why `RecoveryPossible` and the refinement are checked for one process only and
`archive_two_processes` checks what still holds for two.

*Dead-end decisions* (`decision_dead_end`).  A pointer that exists already is refused by a unique index in the last
transaction, after the operation committed its lease, its registry row and its fence; every retry ends there
again and nothing lifts the fence.  The same happens to a supersession that names a new identifier for a
path already governed (1413-1449), and to a decision superseded by itself when the call is interrupted after the
file was written (its own replacement has then changed, 1312-1320); uninterrupted, it ends superseded by itself, because source and
target are never compared.  `InterruptedDecisionsResume` shows that these requests (`Contradicted`) are the only
ones, and `SupersessionEnds` that chains of different decisions are well founded.

*Cancelled writers* (`writer_lock_cancel`).  `_acquire_writer` announces "rollback on error"
(`db.py` 1915) but a CancelledError passes its except clauses; the next unit on the shared connection
commits what the cancelled one had written.  `FailedUnitsLeaveNothing` shows that ordinary failures
are rolled back, also with cancelled units around them.

The following come from modelling the later modules.  They have no run of their own: the properties name each as the exception it is, and the
passing runs show that there is no other.

- *A waiver judged by another commit.*  "Guard: CI required checks must pass before merge" (`pr_service.py` 1003), "the exact commit CI must
  have tested" (`git_ops.py` 280).  The head is read at 1006 and the diff that waives required checks at 1012, by the name of the branch.  A
  commit in between that takes back what the first one touched leaves a diff that no filter matches, and the earlier, untested commit is
  merged (1042).  `LandedCommitsWereTested` therefore says tested *or waived* (`Waived`), and shows that every commit that lands untested has
  such a diff.
- *Merged without receipts.*  A merge on GitHub reaches `merge_pr` through the webhook, which writes neither an intent nor a
  confirmation; after a squash, whose commit is not the branch's, it merges the branch a second time.  `ReceiptsMatchEffects` excepts work that was merged on
  GitHub.
- *A put-back that fails.*  When the push fails and `update-ref` too, the failure is logged (`git_ops.py` 523-528), the pull request goes back to open and
  the merge commit stays in the local target, with no crash; the same goes for a push that the remote took though it reported a failure, the
  other way round.  `FailedMergesLeaveNothing` and the second half of `ReceiptsMatchEffects` hold until the first such fault.
- *Completed without a merge.*  A task in `completion_mode` doc or none is completed by hand or by a handoff without any pull request, as the
  comment at `task_transitions.py` 149 says; `completion_mode` can be patched at any time, also of a task with commits.  `CompletedWorkLanded` excepts
  the tasks that ever were in one of these modes.

- *Merged but not pushed.*  A crash after the local target was moved and before the push leaves the commit in the local target.
  The next merge finds it there (`git_ops.py` 417) and returns without a push, so pull request and task say merged and
  completed while origin has nothing, until some later merge pushes; the comment at 395 expects "merge will push
  forward".  A put-back that fails does the same.  `Target` in `PullRequests` counts the local target only when there was a fault.
- *Empty backup.*  `sqlite3` creates the backup file (`db.py` 1360) before the copy starts.  A kill in between leaves an empty file
  and a running receipt without a digest; a restore adopts the digest of that file (`schema_upgrade.py` 639-650), an empty file passes
  the integrity check, and it replaces the database (551) before the versions are compared (665).  The comment at 642 supposes that the
  copy was complete.  `RestoresAreExact` excepts it.
- *A restore of nothing.*  An attempt that had nothing to do has no backup and is rolled back by its receipt alone, after a look at the version
  (596-616): what was written since stays.  `RestoresAreExact` names it as its second exception (`HadNothingToDo`).
- *A restore cut short.*  The sidecars of the database are removed before the file is replaced (550 and 551, 655 and 657): a kill in between drops the
  committed frames of the write-ahead log and leaves a database that is neither the old one nor the recorded one, or one that cannot be read.  The receipt and the backup are untouched,
  so the restore can be run again; `RestoresAreExact` says that it can, not that every kill leaves a good database.
- *Upgrades without a way out.*  A receipt left failed, or running without a backup, neither lets the release run again (381) nor lets it be restored (623,
  641); the same holds for an older release started on a newer database.
- *Late parse results.*  A task that was overtaken writes status, project and path from what it read (`parser_router.py` 1818), also
  over a rejected, approved or inserted row.  `ArtifactsBehindInsertedRows` therefore does not say in which project the artifact is.
- *Deleting a shared name.*  Two rows of equal content and name share an artifact, and the delete of one unlinks it under the other; `taken` records it.
- *Approved for ever.*  A crash in the saga leaves the row approved; nothing at start-up takes it up again
  (`resume_saga_from_status` has no caller outside the tests), so `ActiveRowsHaveWorkers` holds until the first crash.
- *Rolled back after success.*  A restore after an upgrade succeeded drops the audit rows written since; the chain
  verifies, and only a checkpoint tells (`CheckpointsTellRollbacks`).
- *A cancelled append.*  By the path of `writer_lock_cancel` an append cancelled between its row (`audit_chain.py` 340) and its head (360) leaves a row
  whose head was not moved; the next unit commits it, every later append of that workspace meets the unique index, and the chain no
  longer verifies, so no checkpoint is confirmed either.  `ActiveChainVerifies` and `CheckpointsTellRollbacks` name it (`CutOff`): the last
  row, and nothing else, is beyond the head.

## 7. Proofs

`CloudFControlProofs` proves, for every set of processes, operations, kinds and actors
and every bound, from the assumptions named in `CloudFControl` only:

- `TypeCorrect`: `Spec => []TypeOK`;
- `Invariance`: `Spec => []IInv`, where IInv is TypeOK with `LeaseMatchesRegistry`,
  `PendingAcquiresFenced` and `OneChangePerEpoch`;
- `LeaseAlwaysMatchesRegistry`, `AcquiresAlwaysFenced`, `EpochsConsumedOnce` from it;
- `GenerationsFence`: the action property `GenerationFencesHolders`;
- `Refinement`: `Spec => Exclusive!Spec`, by a step simulation.

The argument.  `LeaseMatchesRegistry` alone is not inductive: an acquire that read long ago
commits on a compare-and-set that does not look at the registry.  `PendingAcquiresFenced` says what
makes that sound: while the generation is the one the call read, a lease it saw free is still free
(every grant to somebody else advances the generation), and it renews a registry row exactly when it saw its own lease.  Then the
commit of an acquire either renews the row of the holder or adds a row when there is none.
`OneChangePerEpoch` follows because a completion compares the epoch and only an active operation,
whose base is the current epoch, completes.

`PullRequestsProofs` proves, for every set of tasks, pull requests, processes, attempts and pushes by
others and for every bound, all five invariants of `PullRequests`: `PrTypeCorrect`, `LandedCommitsAreTested`,
`CompletedWorkHasLanded`, `ReceiptsTellWhatHappened` and `FailedMergesAreUndone`.  The assumptions are those named in
`PullRequests`: who merges is a process, no task is completed to begin with, what others push is no commit of a task's branch,
`Touches` and `Mentions` are about tasks and commits, and the null values are no rows, requests or attempts.  The invariant is `Sound`:

- `Typed`: the types and, beyond `PrTypeOK`, that the row a process read is still there and still belongs to its task
  (`RowsKnown`), without which an update by id says nothing about the task;
- `RepoSafe`: that every commit which Marvis brought to the target is tested or waived for good (`LandedSettled`); that a merge past its guard holds a
  commit of its own task which was judged so, and where the local target stands at each step (`MergeKnows`); that between merges nothing waits to
  be pushed unless there was a fault (`LocalPushed`);
- `WorkDone`: merged rows, completed tasks that are not exempt, requests to complete that have passed their check, and confirmed attempts are
  all about work in `Solid`;
- `Clean`: while there is no fault, a merging row and an open intent belong to the running merge, a merge without a receipt is one that GitHub
  reported (`HooksFollowGitHub`), and landed work has its receipt or was merged there.

`LandedCommitsWereTested` is not inductive because a waiver looks at a diff from where the local target stood when the guard ran.  While the merge runs, that
place is on the local target (`Judged`); once the commit lands it must be a place that no put-back can take away and that lies before the commit
(`Settled`), or the merge that lands it would justify itself.

`CompletedWorkLanded` is not inductive because the target shrinks: a push that is refused takes the merge commit out of the local copy, and
nothing in the property says that this commit was not yet counted on.  `Solid` (origin and, after a fault, the local target without a merge
that is being pushed) never loses a commit, and a merge says *landed* only of commits in it.  The work of a request that
decided to complete a task before it writes is covered by the same monotonicity: what it saw merged stays landed.

`ProjectLifecycleProofs` works in two layers, on top of the proofs of the control.

- For any number of processes `LInv` is inductive: a saga holds the project lock and is the only one, a file writer at work holds it
  too and its project is writable (`LocksHeld`); a saga past its first commit serves the unfinished operation it names,
  with the actor, approval and content of its row (`SagasFollowOperations`); the content of an operation, and the digest once it is
  completed, come from the approval (`ContentsFollowApprovals`).  That is the digest the archive recorded; an edit of the file after it is nobody's promise.  `FenceMatchesOperation` needs that an archived project is not fenced,
  `ArchivedAtApprovedCoordinates` that nothing is journaled behind the fence, and `FilesFrozen` that the fence is
  raised under the lock a file writer would hold.  From it follow `LifecycleTypeCorrect`, `FencesMatch`, `CoordinatesStayApproved`,
  `ArchivedContentIsApproved` and `FilesStayFrozen`.
- `RecoveryStaysPossible` and `RefinementWithArchives` assume `OneProcess`, as the finding *generation reuse* says they
  must.  `OneInv` adds that lease and registry agree up to the journal, which an archive does not write
  (`LeaseFollowsRegistry`), that an unfinished archive is registered with its actor, the epoch of its approval and the present generation
  (`ArchivesRegistered`), and that an acquire that has read still sees the control it read, because only its own process could
  change it (`AcquiresCurrent`, `OneAtATime`).

`WriterLockProofs` proves, for any units, any assignment of them to processes and any bound on failures, `TypeCorrect`,
`LocksFollowProgress`, `FailuresRollBack`, `JournalBeforeEffect`, and `OnlyCancellationLeaves`: a row that is durable before its unit's
commit is of a unit that was cancelled.  The step tables are first turned into places (`AtPosition`, `WithinRange`).  `LocksMatchProgress` says
who holds a lock but not who waits; a queue that held a unit twice, or one that has moved on, would later hand the lock to
a unit that does not expect it (`QueuesHoldWaiters`, part of `TypeOK`).  `FailedUnitsLeaveNothing` looks at units that have ended; to be inductive it follows every write from the
statement on: it is in the open transaction of its process until the next commit of its unit and durable from there on
(`WritesKept`, `DurableWrites`), and in between the unit holds the writer lock, so that no other unit of the process can commit or
roll it back (`HoldersByPlace`, `OpenTransactions`).

`IngestPipelineProofs` proves, for any files, projects, names, rows and tasks, `PipelineTypeCorrect`, `InsertedRowsHaveArtifacts`, `NoRowIsForgotten`,
`UploadsAlwaysSurvive` and `ArtifactsStayInPlace`.  Almost nothing a task reads is checked again before it is used, so the
invariant `WorkedOn` says why that is sound: a row never changes the file it is about, so a path read long ago names the right
content (`TasksNamed`); a name that is a digest holds that digest or nothing, and every other name is written under the
lock after a look at it (`DigestNames`); between the two steps of a materialization the copy is in place and nobody
else holds the lock (`UnlinksSafe`); a patch never moves a file onto itself.  `ActiveRowsHaveWorkers` is not inductive, because a task that steps back
(a retry, a project switch) must leave the row in a status that some task at that place serves; `WorkersFollow` pairs every
status of a row in work with the places that bring it on.

`GovernedDecisionsProofs` has the same two layers, on top of those of `ProjectLifecycleProofs`.

- For any number of processes `DecisionInv` is inductive.  At most one archive or decision is unfinished in a workspace:
  its registry row stays until it is finished, and a first commit wants the registry empty (`OneOperation`).  That is what keeps a
  request true that was checked long ago: while its operation is unfinished no other one writes a row, so what the rows said
  when it was asked they still say (`Asked`), and its file is in the form before its step or the one after it, whatever
  was edited in the body (`DecisionsSound`).  A row describes the file it was made from (`RowsSound`), and every file that is not being
  rewritten has that form (`FilesSound`).  The invariant allows for the finding *dead-end decisions*: a request that its own
  first write contradicts stays unfinished, and stays sound.  From it follow `DecisionTypeCorrect`, `FencesMatchEither` and
  `FrontmatterAlwaysMatches`.
- `SupersessionsEnd` needs no order of supersessions: a decision is accepted when it supersedes another one, so it is not superseded itself,
  and a set that avoided it before still has the member that ends its chains (`SupersessionRecorded`).
- `RefinementWithDecisions`, `FilesChangeFenced` and `DecisionsResume` assume `OneProcess` and use `OneInv` unchanged, with decisions
  as further owners of the lease.  Only the conjunct of `FilesChangeUnderFence` about the lease needs the
  assumption; the rest is `FilesFenced`, for any number of processes.  For `DecisionsResume` each check that a retry repeats is shown to
  pass again: `AllowedAgain`, `AppliesAgain`, `RecordsAgain`; in a supersession the target keeps its file because no two
  rows share a path (`TargetUntouched`).

`SchemaUpgradeProofs` covers `AuditChain` too, for any workspaces, releases, entries and bounds: `UpgradeTypeCorrect`, `ActiveChainsVerify`,
`CheckpointsDecide` and `RestoresAlwaysExact`.  A hash commits to all entries before its own, so the invariant describes a log by its ids
(`HashAt`, `ChainOf`) and says this of the committed database, of the open append (`TxExtends`) and of every backup that a restore may
bring back (`BackupsSound`); without the last one a restore could bring back anything.  Each backup is tied to the receipt of its attempt
and to what the database held when that attempt began (`ReceiptsMatch`, `RunnerMatches`); a checkpoint names its workspace and as many ids as its sequence says
(`CheckpointsMatch`).  A log has the checkpoint's hash at the checkpoint's place exactly if it begins with those ids, since a hash is
made of them.  A head is that of all rows or, after a cancelled append, that of all but the last (`HeadOf`, `CutAt`); the unique index refuses another
row behind such a head, so the gap never grows.  What the database file holds without its sidecars is sound as well (`FileSound`), which is what a
restore that was cut short leaves; and while a restore is between its two steps its backup is there, readable and the one the receipt names (`RunnerMatches`).

What the proofs assume are the ASSUMEs of the modules, all of the same three sorts: null values (`NoRow`, `NoOp`, `Free`,
`Idle`, `Nobody`, `NoFile` and the like) are not among the values they stand in for, parameters are functions between the sets they should be, and bounds are natural
numbers.  TLC evaluates them in every run.  Only the theorems said above to assume `OneProcess` have a hypothesis of their own:
`RecoveryStaysPossible`, `RefinementWithArchives`, `RefinementWithDecisions`, `FilesChangeFenced` and `DecisionsResume`.  The finding *generation reuse* shows
what goes wrong without it.

Only model-checked: the liveness properties `EveryUnitEnds` and `RetriesFinishArchive`, because fairness and ENABLED are
beyond the prover.  The findings are counterexamples and have no proofs.

## 8. Not modelled, and why

*Session operation leases and the brain cycle lease.*  Both are leases without a fence.  A session operation that takes longer than its ten
minutes goes on beside its successor, since `session_operation_generation_is_current` is called nowhere; the brain lease blocks only the same
cycle key and is deleted by whoever releases.  The property worth a model, one operation at a time, holds of neither once a lease
expires, and what remains (a release of the session lease touches only its own generation) is the WHERE clause of one statement.

*Work-in-progress limit.*  It is counted before the update of a task; two processes can pass it by one.  The model has no limit,
which allows more than the code does.

Left out of the modelled components: pointers whose source is a learning (a row instead of a file) and files that
are deleted behind the journal; the lazy registration of a project on first use (models start
registered, as the migration's post-hook leaves them); the read-only connection pool; lock metrics; the formatting of timestamps
(all expiry columns are written and compared in the one format of `_iso`); roles and authorities, which are
request-local; the second cancellation of a task inside `async_project_mutation_guard`; in the ingest pipeline the graph, the embeddings, the
sidecars and the git commit of an artifact; for pull requests the approvals, `revert_pr`, `update_pr`, openings by
webhook, projects without git or that take no pull requests, two processes that merge, worktrees, deployment and cost, and merging without a push; in the audit chain the limits on sizes; in schema upgrades the
ownership and permission checks of files.

In the model but stated by no property: that an approval expires (it is looked at when the archive reads it, as in the code), and
that the last commit of an archive is all or nothing, which the model takes for granted (`WriterLock` shows it of failed units).

Out of scope: search, embeddings and the knowledge graph (numeric ranking); inbox and language-model classification;
notifications, webhooks other than merges, and telemetry (fire and forget); terminal and tmux wrappers; user interfaces; wizard and
deployment.  None keeps a protocol across steps that a model checker would tell apart.
