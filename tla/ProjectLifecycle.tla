--------------------------- MODULE ProjectLifecycle ---------------------------
(***************************************************************************)
(* The project archive saga and everything it must exclude: the writers of *)
(* the project (database triggers, journaled file writers, the selector    *)
(* snapshot), the other protected changes of the Cloud/F control, crashes, *)
(* retries, expiring leases and approvals, and edits of project.yaml that  *)
(* pass the journal by                                                     *)
(* (core/api/services/project_lifecycle.py, migration 187).                *)
(*                                                                         *)
(* archive_project commits three times.  After the first commit the        *)
(* project is fenced (transition_operation_id), the approval is consumed,  *)
(* the lease is held and the operation is 'prepared'; project.yaml is then *)
(* replaced; the second commit makes the operation 'filesystem_applied';   *)
(* the third archives the project, lifts the fence and advances the epoch. *)
(* The project lock (.project-create.lock) is held throughout, the SQLite  *)
(* write lock only inside each transaction.  A digest is modelled by the   *)
(* content it is the digest of.  The idempotency key is a second unique    *)
(* name of the operation; requests whose two names disagree are refused.   *)
(***************************************************************************)
EXTENDS CloudFControl

CONSTANTS
    Projects,
    Writers,       \* tasks that run a journaled file write
    Approvals,     \* approval identifiers
    Bodies,        \* what project.yaml can say besides the lifecycle
    Selectors,     \* selector watermarks
    ArchiveKind,   \* operation_kind 'project_archive'
    NoProject,
    Free,          \* nobody holds the project lock
    MaxWrites,     \* bound: journaled writes per project
    MaxFaults      \* bound: crashes

ASSUME KindAssumption == ArchiveKind \in Kinds
ASSUME WriterAssumption == NoProject \notin Projects /\ Callers \cap Writers = {}
ASSUME FreeAssumption == Free \notin Callers \cup Writers
ASSUME MaxAssumption == MaxWrites \in Nat /\ MaxFaults \in Nat

VARIABLES
    lifecycle,     \* project_lifecycle_state.lifecycle
    writer,        \* .writer_watermark
    selector,      \* .selector_watermark
    transition,    \* .transition_operation_id
    digest,        \* .project_digest
    yaml,          \* the file project.yaml
    files,         \* journaled file effects that reached the disk
    approval,      \* project_archive_approvals
    operation,     \* project_lifecycle_operations
    lock,          \* holder of .project-create.lock
    writing,       \* the project whose file each writer is about to change
    saga,          \* the archive call each process is serving
    faults         \* crashes so far

stateVars == <<lifecycle, writer, selector, transition, digest>>
archiveVars == <<approval, operation>>
lifecycleVars ==
    <<stateVars, archiveVars, yaml, files, lock, writing, saga, faults>>
allVars == <<vars, lifecycleVars>>

Content == [body: Bodies, archived: BOOLEAN]
ArchivedForm(content) == [content EXCEPT !.archived = TRUE]

ApprovalRow ==
    [project: Projects, content: Content, writer: Nat, selector: Selectors,
     epoch: Nat, expires: Nat, consumed: Ops \cup {NoOp}]

OperationRow ==
    [project: Projects, approval: Approvals, actor: Actors, content: Content,
     state: {"prepared", "filesystem_applied", "completed"}]

NoSaga == [pc |-> "idle"]

Saga ==
    [pc: {"reserving", "resuming", "prepared", "applied", "checkpointed"},
     op: Ops, approval: Approvals, actor: Actors, seen: Nat, generation: Nat,
     expires: Nat, found: Content]

ASSUME NoRowLifecycleAssumption == NoRow \notin ApprovalRow /\ NoRow \notin OperationRow

LifecycleTypeOK ==
    /\ TypeOK
    /\ lifecycle \in [Projects -> {"active", "archived"}]
    /\ writer \in [Projects -> Nat]
    /\ selector \in [Projects -> Selectors]
    /\ transition \in [Projects -> Ops \cup {NoOp}]
    /\ digest \in [Projects -> Content]
    /\ yaml \in [Projects -> Content]
    /\ files \in [Projects -> Nat]
    /\ approval \in [Approvals -> ApprovalRow \cup {NoRow}]
    /\ operation \in [Ops -> OperationRow \cup {NoRow}]
    /\ lock \in Callers \cup Writers \cup {Free}
    /\ writing \in [Writers -> Projects \cup {NoProject}]
    /\ saga \in [Callers -> Saga \cup {NoSaga}]
    /\ faults \in Nat

\* The post-hook of migration 187 has registered every project.
LifecycleInit ==
    /\ Init
    /\ lifecycle = [s \in Projects |-> "active"]
    /\ writer = [s \in Projects |-> 0]
    /\ selector \in [Projects -> Selectors]
    /\ transition = [s \in Projects |-> NoOp]
    /\ yaml \in [Projects -> {c \in Content : ~c.archived}]
    /\ digest = yaml
    /\ files = [s \in Projects |-> 0]
    /\ approval = [a \in Approvals |-> NoRow]
    /\ operation = [o \in Ops |-> NoRow]
    /\ lock = Free
    /\ writing = [w \in Writers |-> NoProject]
    /\ saga = [p \in Callers |-> NoSaga]
    /\ faults = 0

ProcessIdle(p) == call[p] = Idle /\ saga[p] = NoSaga

-----------------------------------------------------------------------------
(* Writers of a project.                                                   *)

\* The trigger project_write_events_writability_gate.
WritableIgnoringTransition(s) == lifecycle[s] # "archived"
Writable(s) == lifecycle[s] # "archived" /\ transition[s] = NoOp

\* One row in project_write_events: gated, and advancing the watermark.
RecordProjectWrite(s) ==
    /\ Writable(s)
    /\ writer[s] < MaxWrites
    /\ writer' = [writer EXCEPT ![s] = @ + 1]

\* A statement on a table whose triggers journal the write.  It takes no
\* project lock and runs in any process.
DatabaseWrite(s) ==
    /\ RecordProjectWrite(s)
    /\ UNCHANGED <<vars, lifecycle, selector, transition, digest, archiveVars,
                   yaml, files, lock, writing, saga, faults>>

\* guarded_project_file_write and isolated_project_file_write: the event is
\* committed under the project lock, before the file is touched.
FileWriteStart(w, s) ==
    /\ lock = Free
    /\ writing[w] = NoProject
    /\ RecordProjectWrite(s)
    /\ lock' = w
    /\ writing' = [writing EXCEPT ![w] = s]
    /\ UNCHANGED <<vars, lifecycle, selector, transition, digest, archiveVars,
                   yaml, files, saga, faults>>

ReleaseFileWrite(w) ==
    /\ writing[w] # NoProject
    /\ lock' = Free
    /\ writing' = [writing EXCEPT ![w] = NoProject]
    /\ UNCHANGED <<vars, stateVars, archiveVars, yaml, saga, faults>>

FileWriteEnd(w) ==
    /\ ReleaseFileWrite(w)
    /\ files' = [files EXCEPT ![writing[w]] = @ + 1]

\* The body of the context manager raises, or the process dies.
FileWriteFails(w) == ReleaseFileWrite(w) /\ UNCHANGED files

\* Somebody edits project.yaml with an editor or a git pull: no lock, no
\* journal.
ExternalEdit(s, b) ==
    /\ yaml[s].body # b
    /\ yaml' = [yaml EXCEPT ![s].body = b]
    /\ UNCHANGED <<vars, stateVars, archiveVars, files, lock, writing, saga, faults>>

\* update_project_selector_watermark, inside its own protected change.
SelectorUpdate(p, s, o, a, v) ==
    /\ ProcessIdle(p)
    /\ lock = Free
    /\ ready
    /\ leaseOp = o
    /\ leaseOwner = a
    /\ leaseExpires > now
    /\ IsActive(o)
    /\ NoOtherActive(o)
    /\ active[o].actor = a
    /\ active[o].base = epoch
    /\ selector[s] # v
    /\ RecordProjectWrite(s)
    /\ selector' = [selector EXCEPT ![s] = v]
    /\ UNCHANGED <<vars, lifecycle, transition, digest, archiveVars, yaml,
                   files, lock, writing, saga, faults>>

-----------------------------------------------------------------------------
(* create_archive_approval.  ensure_project_lifecycle opens the write      *)
(* transaction before the state is read: one step.                         *)

NothingActive == \A o \in Ops : ~IsActive(o)

CreateApproval(p, a, s, x) ==
    /\ ProcessIdle(p)
    /\ lock = Free
    /\ approval[a] = NoRow
    /\ x > now
    /\ Writable(s)
    /\ ready
    /\ leaseOp = NoOp
    /\ NothingActive
    /\ approval' = [approval EXCEPT ![a] =
            [project |-> s, content |-> yaml[s], writer |-> writer[s],
             selector |-> selector[s], epoch |-> epoch, expires |-> x,
             consumed |-> NoOp]]
    /\ UNCHANGED <<vars, stateVars, operation, yaml, files, lock, writing, saga, faults>>

-----------------------------------------------------------------------------
(* archive_project, first request: the checks on what was read.  The       *)
(* request carries the coordinates of the approval; they must be live.     *)

ArchiveRead(p, o, a, act, x) ==
    LET row == approval[a]
        s == row.project
    IN
    /\ ProcessIdle(p)
    /\ lock = Free
    /\ operation[o] = NoRow
    /\ x > now
    /\ row # NoRow
    /\ Writable(s)
    /\ yaml[s] = row.content
    /\ writer[s] = row.writer
    /\ selector[s] = row.selector
    /\ ready
    /\ epoch = row.epoch
    /\ leaseOp = NoOp
    /\ NothingActive
    /\ row.consumed = NoOp
    /\ row.expires > now
    /\ generation < MaxGeneration
    /\ epoch < MaxEpoch
    /\ lock' = p
    /\ saga' = [saga EXCEPT ![p] =
            [pc |-> "reserving", op |-> o, approval |-> a, actor |-> act,
             seen |-> generation, generation |-> generation + 1,
             expires |-> x, found |-> yaml[s]]]
    /\ UNCHANGED <<vars, stateVars, archiveVars, yaml, files, writing, faults>>

(* The first commit.  The control row is compared on everything but its    *)
(* generation.                                                             *)

PrepareControlCas(c) ==
    /\ epoch = approval[c.approval].epoch
    /\ ready
    /\ leaseOp = NoOp
    /\ NothingActive

PrepareProjectCasIgnoringWriter(c) ==
    LET row == approval[c.approval] IN
    /\ Writable(row.project)
    /\ selector[row.project] = row.selector
PrepareProjectCas(c) ==
    LET row == approval[c.approval] IN
    /\ Writable(row.project)
    /\ writer[row.project] = row.writer
    /\ selector[row.project] = row.selector

NotConsumed(c) == approval[c.approval].consumed = NoOp

CanPrepare(c) == PrepareControlCas(c) /\ PrepareProjectCas(c) /\ NotConsumed(c)

ArchiveRowAtSeenGeneration(c) ==
    [kind |-> ArchiveKind, actor |-> c.actor,
     base |-> approval[c.approval].epoch, generation |-> c.seen]
ArchiveRowWithoutActor(c) ==
    [kind |-> ArchiveKind, base |-> approval[c.approval].epoch,
     generation |-> c.generation]
ArchiveRow(c) ==
    [kind |-> ArchiveKind, actor |-> c.actor,
     base |-> approval[c.approval].epoch, generation |-> c.generation]

TakeLease(c) ==
    /\ generation' = c.generation
    /\ leaseOp' = c.op
    /\ leaseOwner' = c.actor
    /\ leaseExpires' = c.expires
    /\ active' = [active EXCEPT ![c.op] = ArchiveRow(c)]
    /\ UNCHANGED <<ready, epoch, journal, now, call>>

ArchivePrepare(p) ==
    LET c == saga[p]
        s == approval[c.approval].project
    IN
    /\ c.pc = "reserving"
    /\ CanPrepare(c)
    /\ TakeLease(c)
    /\ transition' = [transition EXCEPT ![s] = c.op]
    /\ approval' = [approval EXCEPT ![c.approval].consumed = c.op]
    /\ operation' = [operation EXCEPT ![c.op] =
            [project |-> s, approval |-> c.approval, actor |-> c.actor,
             content |-> ArchivedForm(c.found), state |-> "prepared"]]
    /\ saga' = [saga EXCEPT ![p].pc = "prepared"]
    /\ UNCHANGED <<lifecycle, writer, selector, digest, yaml, files, lock,
                   writing, faults>>

-----------------------------------------------------------------------------
(* archive_project, a retry of an operation that was prepared: the exact   *)
(* operation is resumed and its own lease renewed.                         *)

Unfinished(o) ==
    operation[o] # NoRow /\ operation[o].state \in {"prepared", "filesystem_applied"}

Resumable(o, act) ==
    /\ Unfinished(o)
    /\ operation[o].actor = act
    /\ transition[operation[o].project] = o
    /\ leaseOp \in {NoOp, o}
    /\ NoOtherActive(o)
    /\ IsActive(o)
    /\ RowMatches(active[o], ArchiveKind, act, approval[operation[o].approval].epoch)
    /\ active[o].generation = generation
    /\ leaseOp = o => leaseOwner = act

ArchiveResume(p, o, act, x) ==
    /\ ProcessIdle(p)
    /\ lock = Free
    /\ Resumable(o, act)
    /\ x > now
    /\ leaseOp = NoOp => generation < MaxGeneration
    /\ lock' = p
    /\ saga' = [saga EXCEPT ![p] =
            [pc |-> "resuming", op |-> o, approval |-> operation[o].approval,
             actor |-> act, seen |-> generation,
             generation |-> IF leaseOp = NoOp THEN generation + 1 ELSE generation,
             expires |-> x, found |-> operation[o].content]]
    /\ UNCHANGED <<vars, stateVars, archiveVars, yaml, files, writing, faults>>

CanRenew(c) ==
    /\ epoch = approval[c.approval].epoch
    /\ generation = c.seen
    /\ leaseOp = NoOp \/ (leaseOp = c.op /\ leaseOwner = c.actor)
    /\ IsActive(c.op)
    /\ RowMatches(active[c.op], ArchiveKind, c.actor, epoch)

ArchiveRenew(p) ==
    LET c == saga[p] IN
    /\ c.pc = "resuming"
    /\ CanRenew(c)
    /\ TakeLease(c)
    /\ saga' = [saga EXCEPT ![p].pc = "prepared"]
    /\ UNCHANGED <<stateVars, archiveVars, yaml, files, lock, writing, faults>>

-----------------------------------------------------------------------------
(* project.yaml, the checkpoint and the final commit.                      *)

\* What the file says after the step, and whether the step may be taken: a
\* file that is not archived yet must still be the approved one, and the
\* outcome must be the content checkpointed at preparation.
Outcome(c) == ArchivedForm(yaml[operation[c.op].project])

ContentUnchecked(c) == TRUE
ArchivedFileRefused(c) ==
    yaml[operation[c.op].project] = approval[c.approval].content
ContentApproved(c) ==
    LET found == yaml[operation[c.op].project] IN
    /\ ~found.archived => found = approval[c.approval].content
    /\ Outcome(c) = operation[c.op].content

ArchiveApply(p) ==
    LET c == saga[p] IN
    /\ c.pc = "prepared"
    /\ ContentApproved(c)
    /\ yaml' = [yaml EXCEPT ![operation[c.op].project] = Outcome(c)]
    /\ saga' = [saga EXCEPT ![p].pc = "applied", ![p].found = Outcome(c)]
    /\ UNCHANGED <<vars, stateVars, archiveVars, files, lock, writing, faults>>

\* 'prepared' becomes 'filesystem_applied'; a retry may find it there.
ArchiveCheckpoint(p) ==
    LET c == saga[p] IN
    /\ c.pc = "applied"
    /\ operation' = [operation EXCEPT ![c.op].state = "filesystem_applied"]
    /\ saga' = [saga EXCEPT ![p].pc = "checkpointed"]
    /\ UNCHANGED <<vars, stateVars, approval, yaml, files, lock, writing, faults>>

StillHoldsLease(c) ==
    /\ leaseOp = c.op
    /\ leaseOwner = c.actor
    /\ generation = c.generation
    /\ leaseExpires > now

CanFinish(c) ==
    LET base == approval[c.approval].epoch IN
    /\ epoch = base
    /\ StillHoldsLease(c)
    /\ IsActive(c.op)
    /\ NoOtherActive(c.op)
    /\ RowMatches(active[c.op], ArchiveKind, c.actor, base)
    /\ active[c.op].generation = c.generation
    /\ transition[operation[c.op].project] = c.op
    /\ operation[c.op].state = "filesystem_applied"

FenceKept(s) == UNCHANGED transition
LiftFence(s) == transition' = [transition EXCEPT ![s] = NoOp]

ArchiveFinish(p) ==
    LET c == saga[p]
        s == operation[c.op].project
    IN
    /\ c.pc = "checkpointed"
    /\ CanFinish(c)
    /\ lifecycle' = [lifecycle EXCEPT ![s] = "archived"]
    /\ digest' = [digest EXCEPT ![s] = c.found]
    /\ LiftFence(s)
    /\ operation' = [operation EXCEPT ![c.op].state = "completed"]
    /\ active' = [active EXCEPT ![c.op] = NoRow]
    /\ epoch' = epoch + 1
    /\ leaseOp' = NoOp
    /\ leaseOwner' = NoActor
    /\ leaseExpires' = 0
    /\ lock' = Free
    /\ saga' = [saga EXCEPT ![p] = NoSaga]
    /\ UNCHANGED <<ready, generation, journal, now, call, writer, selector,
                   approval, yaml, files, writing, faults>>

-----------------------------------------------------------------------------
\* A check fails: the open transaction is rolled back, the project lock is
\* released, what was committed before stays.
Refused(c) ==
    \/ c.pc = "reserving" /\ ~CanPrepare(c)
    \/ c.pc = "resuming" /\ ~CanRenew(c)
    \/ c.pc = "prepared" /\ ~ContentApproved(c)
    \/ c.pc = "checkpointed" /\ ~CanFinish(c)

EndSaga(p) ==
    /\ lock' = Free
    /\ saga' = [saga EXCEPT ![p] = NoSaga]
    /\ UNCHANGED <<vars, stateVars, archiveVars, yaml, files, writing>>

ArchiveRefuse(p) ==
    /\ saga[p] # NoSaga
    /\ Refused(saga[p])
    /\ EndSaga(p)
    /\ UNCHANGED faults

\* The process dies, or the request is cancelled, between two steps.
ArchiveCrash(p) ==
    /\ saga[p] # NoSaga
    /\ faults < MaxFaults
    /\ faults' = faults + 1
    /\ EndSaga(p)

ArchiveStep(p) ==
    \/ ArchivePrepare(p)
    \/ ArchiveRenew(p)
    \/ ArchiveApply(p)
    \/ ArchiveCheckpoint(p)
    \/ ArchiveFinish(p)
    \/ ArchiveRefuse(p)

ArchiveStart(p) ==
    \/ \E o \in Ops, a \in Approvals, act \in Actors, x \in 1 .. MaxTime + 1 :
            ArchiveRead(p, o, a, act, x)
    \/ \E o \in Ops, act \in Actors, x \in 1 .. MaxTime + 1 :
            ArchiveResume(p, o, act, x)

CloudStep(p) ==
    /\ saga[p] = NoSaga
    /\ CallStart(p) \/ CallEnd(p)
    /\ UNCHANGED lifecycleVars

FileWriterStep(w) ==
    \/ \E s \in Projects : FileWriteStart(w, s)
    \/ FileWriteEnd(w)
    \/ FileWriteFails(w)

LifecycleNext ==
    \/ Tick /\ UNCHANGED lifecycleVars
    \/ \E p \in Callers : CloudStep(p) \/ ArchiveStart(p) \/ ArchiveStep(p) \/ ArchiveCrash(p)
    \/ \E p \in Callers, a \in Approvals, s \in Projects, x \in 1 .. MaxTime + 1 :
            CreateApproval(p, a, s, x)
    \/ \E p \in Callers, s \in Projects, o \in Ops, a \in Actors, v \in Selectors :
            SelectorUpdate(p, s, o, a, v)
    \/ \E s \in Projects : DatabaseWrite(s)
    \/ \E w \in Writers : FileWriterStep(w)
    \/ \E s \in Projects, b \in Bodies : ExternalEdit(s, b)

LifecycleSpec == LifecycleInit /\ [][LifecycleNext]_allVars

(* What the scheduling guarantees: a call that has begun goes on or fails, *)
(* and a file writer leaves its critical section.  On top of it, the       *)
(* client of an unfinished archive retries: whenever the project lock is   *)
(* free again and again, one of its polls finds it free.  Nothing else is  *)
(* fair, and crashes may hit every attempt up to their bound.              *)
RetryArchive(p) ==
    \E o \in Ops, act \in Actors, x \in 1 .. MaxTime + 1 : ArchiveResume(p, o, act, x)

RetryingFairness ==
    /\ \A p \in Callers :
        /\ WF_allVars(ArchiveStep(p))
        /\ WF_allVars(CallEnd(p) /\ UNCHANGED lifecycleVars)
        /\ SF_allVars(RetryArchive(p))
    /\ \A w \in Writers : WF_allVars(FileWriteEnd(w) \/ FileWriteFails(w))
    /\ WF_allVars(Tick /\ UNCHANGED lifecycleVars)

RetryingSpec == LifecycleSpec /\ RetryingFairness

-----------------------------------------------------------------------------
(* Properties.                                                             *)

\* A project is fenced exactly while an archive operation for it is
\* unfinished, and by that operation: no crash, refusal or second process
\* leaves a fence nobody can lift, or an unfinished archive whose project can
\* be written.  An archived project has exactly one completed operation.
FenceMatchesOperation ==
    \A s \in Projects :
        /\ \A o \in Ops : transition[s] = o <=>
                Unfinished(o) /\ operation[o].project = s
        /\ lifecycle[s] = "archived" <=>
                \E o \in Ops : /\ operation[o] # NoRow
                               /\ operation[o].project = s
                               /\ operation[o].state = "completed"

\* From its preparation on, and for ever once archived, the project is at the
\* coordinates its approver saw: nothing was journaled in between, by any
\* process, and the approval served that one operation.
ArchivedAtApprovedCoordinates ==
    \A o \in Ops : operation[o] # NoRow =>
        LET row == approval[operation[o].approval] IN
        /\ row # NoRow
        /\ row.project = operation[o].project
        /\ row.consumed = o
        /\ writer[row.project] = row.writer
        /\ selector[row.project] = row.selector

\* The content recorded for an archived project is the approved content with
\* its lifecycle changed, even when project.yaml was edited behind the
\* journal between the approval, the preparation and a retry.
ArchivedContentWasApproved ==
    \A o \in Ops :
        operation[o] # NoRow /\ operation[o].state = "completed" =>
            digest[operation[o].project] =
                ArchivedForm(approval[operation[o].approval].content)

\* No file effect reaches a project that is fenced or archived: a writer that
\* was let in before the fence has left before the fence is raised.
FilesFrozen ==
    [][\A s \in Projects :
        files'[s] # files[s] => transition[s] = NoOp /\ lifecycle[s] = "active"]_allVars

\* Within one process, an archive that was interrupted anywhere can be taken
\* up again by its actor: the lease, the registry and the generation it left
\* behind are the ones its retry demands.
RecoveryPossible ==
    \A o \in Ops :
        Unfinished(o) /\ lock = Free => Resumable(o, operation[o].actor)

\* Within one process, archives and the other protected changes together
\* implement the abstract exclusive change.
ImplementsExclusiveChangeWithArchives == Exclusive!Spec

\* At most one operation is active in a workspace, which is what
\* acquire_cloud_f_change announces: "Acquire the common exclusive lease and
\* register one active operation" (project_lifecycle.py:822).
AtMostOneActive ==
    \A o1, o2 \in Ops : IsActive(o1) /\ IsActive(o2) => o1 = o2

\* As long as its client retries and nobody edits project.yaml behind the
\* journal, a fenced project ends up archived, whatever crashes, lease
\* expiries and refusals come in between.
RetriesFinishArchive ==
    \A s \in Projects : transition[s] # NoOp ~> lifecycle[s] = "archived"
=============================================================================
