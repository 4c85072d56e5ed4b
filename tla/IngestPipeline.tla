---------------------------- MODULE IngestPipeline ----------------------------
(***************************************************************************)
(* The ingest pipeline: files dropped in a project's input folder become   *)
(* rows of ingest_pending, are parsed, triaged and materialized as project *)
(* artifacts (services/ingest/watcher.py, parser_router.py,                *)
(* insert_saga.py and use_cases/ingest_triage.py).                         *)
(*                                                                         *)
(* The watcher, the API and the MCP server are processes of their own, so  *)
(* a SELECT and the UPDATE that relies on it are separate steps wherever   *)
(* the UPDATE does not repeat the condition.  A task is one background     *)
(* coroutine or request.  Materializing, deleting and moving files happens *)
(* under the project lock; the status updates do not.                      *)
(*                                                                         *)
(* A file stands for its content, and the names of two files differ; the   *)
(* text extracted from a file counts as a copy of it, as the code drops    *)
(* the original once the text is in place.                                 *)
(***************************************************************************)
EXTENDS Naturals, FiniteSets

CONSTANTS
    Files,          \* uploaded files, named by their digest
    Projects,
    Dropped,        \* the project whose input folder holds each file at first
    Kinds,          \* what the parser may make of the files
    Bases,          \* file names the classifier proposes for artifacts
    Ids,            \* ingest ids
    Tasks,          \* coroutines and requests that can be under way at a time
    NoRow, Gone, NoFile, NoName, NoPath, Idle, Free,
    MaxRequests,    \* bound: requests and enqueued files
    MaxFaults       \* bound: crashes and cancellations

ASSUME DroppedAssumption == Dropped \in [Files -> Projects]
ASSUME KindsAssumption == Kinds \subseteq [Files -> {"moved", "extracted", "xlsx", "image"}]
ASSUME NameAssumption == Bases \cap Files = {} /\ NoName \notin Bases \cup Files
ASSUME NoFileAssumption == NoFile \notin Files
ASSUME FreeAssumption == Free \notin Tasks
ASSUME BoundAssumption == MaxRequests \in Nat /\ MaxFaults \in Nat

VARIABLES
    rows,       \* ingest_pending; an id is never given twice
    disk,       \* content of the input folders and of the artifacts
    tasks,      \* where each task stands and what it read
    lock,       \* holder of the project lock
    taken,      \* history: artifacts a delete or a patch took away
    kind,       \* what the parser makes of each file; never changes
    requests, faults

vars == <<rows, disk, tasks, lock, taken, requests, faults, kind>>

(* A file that collides gets a name made of its digest (its own name here);  *)
(* the neutral name of a spreadsheet is derived from its digest as well.     *)
Names == Bases \cup Files
Inputs == [area: {"input"}, project: Projects, name: Files]
Targets == [area: {"target"}, project: Projects, name: Names]
Locations == Inputs \cup Targets
Input(p, f) == [area |-> "input", project |-> p, name |-> f]
Target(p, n) == [area |-> "target", project |-> p, name |-> n]

Statuses == {"queued", "parser_waiting", "parsing", "awaiting_triage", "approved",
             "inserted", "done", "parse_error", "rejected"}
Row == [file: Files, project: Projects, status: Statuses, path: Locations,
        target: Names \cup {NoName}]

ParseSteps == {"claim", "claimed", "work", "parse", "broken", "switched"}
SagaSteps == {"approved", "saga", "unlink", "record", "finish"}
RequestSteps == {"requeue", "delete", "deleting", "patch", "move"}
Task == [pc: ParseSteps \cup SagaSteps \cup RequestSteps, id: Ids,
         project: Projects \cup {NoPath}, path: Locations \cup {NoPath},
         target: Names \cup {NoName}]

ASSUME RowAssumption == NoRow # Gone /\ {NoRow, Gone} \cap Row = {}
ASSUME TaskAssumption == Idle \notin Task

PipelineTypeOK ==
    /\ rows \in [Ids -> Row \cup {NoRow, Gone}]
    /\ disk \in [Locations -> Files \cup {NoFile}]
    /\ tasks \in [Tasks -> Task \cup {Idle}]
    /\ lock \in Tasks \cup {Free}
    /\ taken \subseteq Targets \X Files
    /\ kind \in Kinds
    /\ requests \in 0 .. MaxRequests /\ faults \in 0 .. MaxFaults
    /\ \A t \in Tasks :
        lock = t <=> tasks[t] # Idle /\ tasks[t].pc \in {"switched", "unlink", "deleting", "move"}

Init ==
    /\ rows = [i \in Ids |-> NoRow]
    /\ disk = [l \in Locations |->
                 IF \E f \in Files : l = Input(Dropped[f], f) THEN l.name ELSE NoFile]
    /\ tasks = [t \in Tasks |-> Idle]
    /\ lock = Free
    /\ taken = {}
    /\ kind \in Kinds
    /\ requests = 0 /\ faults = 0

-----------------------------------------------------------------------------
Live(i) == rows[i] \notin {NoRow, Gone}
At(t, pc) == tasks[t] # Idle /\ tasks[t].pc = pc
Of(t) == tasks[t].id
FileOf(t) == tasks[t].path.name

Work(pc, i) ==
    [pc |-> pc, id |-> i, project |-> NoPath, path |-> NoPath, target |-> NoName]
Reading(pc, i) ==
    [pc |-> pc, id |-> i, project |-> rows[i].project, path |-> rows[i].path,
     target |-> rows[i].target]
Become(t, task) == tasks' = [tasks EXCEPT ![t] = task]
GoTo(t, pc) == tasks' = [tasks EXCEPT ![t].pc = pc]

(* UPDATE ingest_pending ... WHERE id = ?: nothing happens to a deleted row. *)
Update(i, row) == rows' = IF Live(i) THEN [rows EXCEPT ![i] = row] ELSE rows
SetStatus(i, s) == Update(i, [rows[i] EXCEPT !.status = s])

(* UNIQUE (sha256, project_slug).                                            *)
Taken(f, p, i) ==
    \E j \in Ids \ {i} : Live(j) /\ rows[j].file = f /\ rows[j].project = p

Request == requests < MaxRequests /\ requests' = requests + 1

-----------------------------------------------------------------------------
(* enqueue_file: the watcher or an upload finds a file in an input folder.   *)
(* A known file that was rejected is queued again, any other known file is   *)
(* left alone; what is queued gets a parse task.                             *)
Enqueue(t, f, p, i) ==
    /\ tasks[t] = Idle
    /\ Request
    /\ disk[Input(p, f)] = f
    /\ \/ rows[i] = NoRow /\ \A j \in Ids : Live(j) => <<rows[j].file, rows[j].project>> # <<f, p>>
       \/ Live(i) /\ rows[i].file = f /\ rows[i].project = p /\ rows[i].status = "rejected"
    /\ rows' = [rows EXCEPT ![i] =
         [file |-> f, project |-> p, status |-> "queued", path |-> Input(p, f),
          target |-> NoName]]
    /\ Become(t, Work("claim", i))
    /\ UNCHANGED <<disk, lock, taken, faults, kind>>

(* retry_parse and reparse_batch only schedule a parse.                      *)
Retry(t, i) ==
    /\ tasks[t] = Idle
    /\ Live(i) /\ rows[i].status \in {"queued", "parse_error"}
    /\ Request
    /\ Become(t, Work("claim", i))
    /\ UNCHANGED <<rows, disk, lock, taken, faults, kind>>

(* classify_force and reparse_single: the status is checked when the row is  *)
(* read, the UPDATE does not repeat the check.                               *)
Requeue(t, i) ==
    /\ tasks[t] = Idle
    /\ Live(i) /\ rows[i].status \in {"queued", "parse_error", "awaiting_triage"}
    /\ Request
    /\ Become(t, Work("requeue", i))
    /\ UNCHANGED <<rows, disk, lock, taken, faults, kind>>

RequeueWrite(t) ==
    /\ At(t, "requeue")
    /\ SetStatus(Of(t), "queued")
    /\ GoTo(t, "claim")
    /\ UNCHANGED <<disk, lock, taken, requests, faults, kind>>

(* approve repeats the status in its UPDATE and schedules the saga.          *)
Approve(t, i) ==
    /\ tasks[t] = Idle
    /\ Live(i) /\ rows[i].status = "awaiting_triage" /\ rows[i].target # NoName
    /\ Request
    /\ SetStatus(i, "approved")
    /\ Become(t, Work("approved", i))
    /\ UNCHANGED <<disk, lock, taken, faults, kind>>

RejectableStatuses ==
    {"queued", "parser_waiting", "parsing", "awaiting_triage", "parse_error"}

Reject(i) ==
    /\ Live(i) /\ rows[i].status \in RejectableStatuses
    /\ Request
    /\ SetStatus(i, "rejected")
    /\ UNCHANGED <<disk, tasks, lock, taken, faults, kind>>

-----------------------------------------------------------------------------
(* delete: the row is read before the project lock is taken, the files it    *)
(* named are unlinked under it, then the row goes.                           *)
Delete(t, i) ==
    /\ tasks[t] = Idle
    /\ Live(i)
    /\ Request
    /\ Become(t, Reading("delete", i))
    /\ UNCHANGED <<rows, disk, lock, taken, faults, kind>>

Named(t) ==
    {l \in Locations : l.project = tasks[t].project
                       /\ (l = tasks[t].path \/ l = Target(tasks[t].project, tasks[t].target))}

DeleteFiles(t) ==
    /\ At(t, "delete") /\ lock = Free
    /\ disk' = [l \in Locations |-> IF l \in Named(t) THEN NoFile ELSE disk[l]]
    /\ taken' = taken \cup {<<l, disk[l]>> : l \in {k \in Named(t) \cap Targets : disk[k] # NoFile}}
    /\ lock' = t
    /\ GoTo(t, "deleting")
    /\ UNCHANGED <<rows, requests, faults, kind>>

DeleteRow(t) ==
    /\ At(t, "deleting")
    /\ rows' = [rows EXCEPT ![Of(t)] = Gone]
    /\ lock' = Free
    /\ Become(t, Idle)
    /\ UNCHANGED <<disk, taken, requests, faults, kind>>

(* patch_pending moves a pending file to another project.  Everything is     *)
(* checked before the lock; under it the file is copied aside, the row is    *)
(* pointed at the new path and committed, and only then the copy is renamed  *)
(* into place and the old file removed.                                      *)
Patch(t, i, q) ==
    /\ tasks[t] = Idle
    /\ Live(i) /\ rows[i].status \in {"awaiting_triage", "parse_error", "rejected"}
    /\ Request
    /\ LET f == rows[i].file IN
        /\ q # rows[i].project /\ ~Taken(f, q, i)
        /\ disk[rows[i].path] = f /\ disk[Input(q, f)] = NoFile
    /\ Become(t, [Reading("patch", i) EXCEPT !.project = q, !.target = NoName])
    /\ UNCHANGED <<rows, disk, lock, taken, faults, kind>>

PatchCommit(t) ==
    /\ At(t, "patch") /\ lock = Free
    /\ LET i == Of(t)
           q == tasks[t].project
       IN IF disk[tasks[t].path] = NoFile \/ (Live(i) /\ Taken(FileOf(t), q, i))
          THEN Become(t, Idle) /\ UNCHANGED <<rows, lock>>
          ELSE /\ Update(i, [rows[i] EXCEPT !.project = q, !.path = Input(q, FileOf(t))])
               /\ lock' = t
               /\ GoTo(t, "move")
    /\ UNCHANGED <<disk, taken, requests, faults, kind>>

PatchMove(t) ==
    /\ At(t, "move")
    /\ disk' = [disk EXCEPT ![Input(tasks[t].project, FileOf(t))] = FileOf(t),
                            ![tasks[t].path] = NoFile]
    /\ taken' = taken \cup ({<<tasks[t].path, FileOf(t)>>} \cap Targets \X Files)
    /\ lock' = Free
    /\ Become(t, Idle)
    /\ UNCHANGED <<rows, requests, faults, kind>>

-----------------------------------------------------------------------------
(* parse_pending: a queued or failed row is claimed for parsing; the UPDATE  *)
(* of the claim does not repeat the status.                                  *)
ClaimRead(t) ==
    /\ At(t, "claim")
    /\ Become(t, IF Live(Of(t)) /\ rows[Of(t)].status \in {"queued", "parse_error"}
                 THEN [Reading("claimed", Of(t)) EXCEPT !.target = NoName]
                 ELSE Idle)
    /\ UNCHANGED <<rows, disk, lock, taken, requests, faults, kind>>

ClaimWrite(t) ==
    /\ At(t, "claimed")
    /\ SetStatus(Of(t), "parser_waiting")
    /\ GoTo(t, "work")
    /\ UNCHANGED <<disk, lock, taken, requests, faults, kind>>

(* _mark_parser_active: a row that left parser_waiting while the task waited *)
(* for a parser slot is no longer this task's business.                      *)
Activate(t) ==
    /\ At(t, "work")
    /\ IF Live(Of(t)) /\ rows[Of(t)].status = "parser_waiting"
       THEN /\ SetStatus(Of(t), "parsing")
            /\ GoTo(t, IF disk[tasks[t].path] # NoFile THEN "parse" ELSE "broken")
       ELSE Become(t, Idle) /\ UNCHANGED rows
    /\ UNCHANGED <<disk, lock, taken, requests, faults, kind>>

(* A file that needs no parser slot is parsed at once.                       *)
ParseLight(t) ==
    /\ At(t, "work")
    /\ kind[FileOf(t)] \in {"moved", "image"} /\ disk[tasks[t].path] # NoFile
    /\ GoTo(t, "parse")
    /\ UNCHANGED <<rows, disk, lock, taken, requests, faults, kind>>

(* _mark_parser_waiting: a transient failure sends the task back to wait.    *)
WaitingOnlyWhenIdle == {"queued", "parse_error"}
WaitingAgain == {"queued", "parse_error", "parsing"}

RetryTransient(t) ==
    /\ At(t, "parse")
    /\ LET i == Of(t) IN
        IF Live(i) /\ rows[i].status \in WaitingAgain
        THEN SetStatus(i, "parser_waiting") ELSE UNCHANGED rows
    /\ GoTo(t, "work")
    /\ UNCHANGED <<disk, lock, taken, requests, faults, kind>>

(* _mark_parse_error, whatever the status has become.                        *)
FailParseKeepingLock(t) ==
    /\ \E pc \in {"work", "parse", "broken", "switched"} : At(t, pc)
    /\ SetStatus(Of(t), "parse_error")
    /\ Become(t, Idle)
    /\ UNCHANGED <<disk, lock, taken, requests, faults, kind>>
FailParse(t) ==
    /\ \E pc \in {"work", "parse", "broken", "switched"} : At(t, pc)
    /\ SetStatus(Of(t), "parse_error")
    /\ lock' = IF lock = t THEN Free ELSE lock
    /\ Become(t, Idle)
    /\ UNCHANGED <<disk, taken, requests, faults, kind>>

Outcomes(f) ==
    CASE kind[f] = "xlsx" -> {"awaiting_triage"}
      [] kind[f] = "image" -> {"awaiting_triage", "approved", "parse_error", "done"}
      [] OTHER -> {"awaiting_triage", "approved", "parse_error"}
TargetNames(f) == IF kind[f] = "xlsx" THEN {f} ELSE Bases

(* The final UPDATE writes status, project and path from what the task read  *)
(* when it claimed the row, whatever the row says by now.                    *)
WriteParsed(t, s, n) ==
    /\ Live(Of(t)) => ~Taken(FileOf(t), tasks[t].project, Of(t))
    /\ Update(Of(t), [rows[Of(t)] EXCEPT !.status = s, !.project = tasks[t].project,
                                         !.path = tasks[t].path, !.target = n])
    /\ Become(t, IF s = "approved" THEN Work("approved", Of(t)) ELSE Idle)

FinishParse(t, s, n) ==
    /\ At(t, "parse")
    /\ s \in Outcomes(FileOf(t)) /\ n \in TargetNames(FileOf(t))
    /\ WriteParsed(t, s, n)
    /\ UNCHANGED <<disk, lock, taken, requests, faults, kind>>

(* _apply_llm_project_switch_if_safe: the model routes the file to another   *)
(* project.  Under the project lock a duplicate there rejects the row,       *)
(* otherwise the file moves first and the row follows.                       *)
Switch(t, q) ==
    /\ At(t, "parse") /\ lock = Free
    /\ "approved" \in Outcomes(FileOf(t)) /\ q # tasks[t].project
    /\ LET f == FileOf(t)
           from == tasks[t].path
       IN \/ /\ Taken(f, q, Of(t))
             /\ \E n \in TargetNames(f) : WriteParsed(t, "rejected", n)
             /\ UNCHANGED <<disk, lock>>
          \/ /\ ~Taken(f, q, Of(t))
             /\ disk[Input(q, f)] = NoFile /\ disk[from] # NoFile
             /\ disk' = [disk EXCEPT ![Input(q, f)] = f, ![from] = NoFile]
             /\ lock' = t
             /\ Become(t, [tasks[t] EXCEPT !.pc = "switched", !.project = q,
                                           !.path = Input(q, f)])
             /\ UNCHANGED rows
    /\ UNCHANGED <<taken, requests, faults, kind>>

FinishSwitch(t, n) ==
    /\ At(t, "switched")
    /\ n \in TargetNames(FileOf(t))
    /\ WriteParsed(t, "approved", n)
    /\ lock' = Free
    /\ UNCHANGED <<disk, taken, requests, faults, kind>>

-----------------------------------------------------------------------------
(* execute_saga works only on a row that is approved when it starts.         *)
SagaStart(t) ==
    /\ At(t, "approved")
    /\ Become(t, IF Live(Of(t)) /\ rows[Of(t)].status = "approved"
                 THEN Reading("saga", Of(t)) ELSE Idle)
    /\ UNCHANGED <<rows, disk, lock, taken, requests, faults, kind>>

(* _unique_target_path: the proposed name if it is free or holds this very   *)
(* content, else the name made of the digest.                                *)
UniqueTarget(p, f, n) ==
    IF disk[Target(p, n)] \in {NoFile, f} THEN Target(p, n) ELSE Target(p, f)

SourceThere(t) == disk[tasks[t].path] # NoFile /\ tasks[t].path.project = tasks[t].project

(* _materialize_target_file: a move is one rename; extracted text and        *)
(* spreadsheets are written first and the source unlinked after; an artifact *)
(* already in place only costs the source.                                   *)
MaterializeUnlinkingFirst(t) ==
    /\ At(t, "saga") /\ lock = Free
    /\ SourceThere(t)
    /\ disk' = [disk EXCEPT ![tasks[t].path] = NoFile]
    /\ Become(t, [tasks[t] EXCEPT !.pc = "record"])
    /\ UNCHANGED <<rows, lock, taken, requests, faults, kind>>
MaterializeOverwriting(t) ==
    /\ At(t, "saga") /\ lock = Free
    /\ SourceThere(t)
    /\ disk' = [disk EXCEPT ![tasks[t].path] = NoFile,
                            ![Target(tasks[t].project, tasks[t].target)] = FileOf(t)]
    /\ GoTo(t, "record")
    /\ UNCHANGED <<rows, lock, taken, requests, faults, kind>>
SagaMaterialize(t) ==
    /\ At(t, "saga") /\ lock = Free
    /\ SourceThere(t)
    /\ LET f == FileOf(t)
           from == tasks[t].path
           to == UniqueTarget(tasks[t].project, f, tasks[t].target)
           twoSteps == kind[f] \in {"extracted", "xlsx"} /\ disk[to] = NoFile
       IN /\ disk[to] \in {NoFile, f}
          /\ disk' = IF from = to THEN disk
                     ELSE [disk EXCEPT ![to] = f, ![from] = IF twoSteps THEN f ELSE NoFile]
          /\ lock' = IF twoSteps THEN t ELSE Free
          /\ Become(t, [tasks[t] EXCEPT !.pc = IF twoSteps THEN "unlink" ELSE "record",
                                        !.target = to.name])
          /\ taken' = taken \ {<<to, f>>}
    /\ UNCHANGED <<rows, requests, faults, kind>>

SagaUnlink(t) ==
    /\ At(t, "unlink")
    /\ disk' = [disk EXCEPT ![tasks[t].path] = NoFile]
    /\ lock' = Free
    /\ GoTo(t, "record")
    /\ UNCHANGED <<rows, taken, requests, faults, kind>>

(* _recover_materialized_xlsx_target: a spreadsheet whose source is gone but *)
(* whose artifact carries its digest was materialized before a crash.        *)
SagaRecover(t) ==
    /\ At(t, "saga") /\ lock = Free
    /\ kind[FileOf(t)] = "xlsx" /\ disk[tasks[t].path] = NoFile
    /\ disk[Target(tasks[t].project, FileOf(t))] = FileOf(t)
    /\ Become(t, [tasks[t] EXCEPT !.pc = "record", !.target = FileOf(t)])
    /\ UNCHANGED <<rows, disk, lock, taken, requests, faults, kind>>

RecordProposedName(t) ==
    /\ At(t, "record")
    /\ IF Live(Of(t)) /\ rows[Of(t)].status = "approved"
       THEN SetStatus(Of(t), "inserted") ELSE UNCHANGED rows
    /\ Become(t, Work("finish", Of(t)))
    /\ UNCHANGED <<disk, lock, taken, requests, faults, kind>>
SagaRecord(t) ==
    /\ At(t, "record")
    /\ LET i == Of(t)
           to == Target(tasks[t].project, tasks[t].target)
       IN IF Live(i) /\ rows[i].status = "approved"
          THEN Update(i, [rows[i] EXCEPT !.status = "inserted", !.target = tasks[t].target,
                            !.path = IF kind[FileOf(t)] = "xlsx" THEN to ELSE tasks[t].path])
          ELSE UNCHANGED rows
    /\ Become(t, Work("finish", Of(t)))
    /\ UNCHANGED <<disk, lock, taken, requests, faults, kind>>

SagaFinish(t) ==
    /\ At(t, "finish")
    /\ IF Live(Of(t)) /\ rows[Of(t)].status = "inserted"
       THEN SetStatus(Of(t), "done") ELSE UNCHANGED rows
    /\ Become(t, Idle)
    /\ UNCHANGED <<disk, lock, taken, requests, faults, kind>>

(* The saga's exception handler: parse_error, whatever the status has become.*)
SagaFails(t) ==
    /\ \E pc \in {"saga", "record", "finish"} : At(t, pc)
    /\ SetStatus(Of(t), "parse_error")
    /\ Become(t, Idle)
    /\ UNCHANGED <<disk, lock, taken, requests, faults, kind>>

-----------------------------------------------------------------------------
(* A process dies with the tasks it ran, or a task is cancelled, or refused  *)
(* before its exception handler: its rows stay as they are, the lock is      *)
(* released with the process's files.                                        *)
Crash(dead) ==
    /\ faults < MaxFaults /\ faults' = faults + 1
    /\ dead # {} /\ \A t \in dead : tasks[t] # Idle
    /\ tasks' = [t \in Tasks |-> IF t \in dead THEN Idle ELSE tasks[t]]
    /\ lock' = IF lock \in dead THEN Free ELSE lock
    /\ UNCHANGED <<rows, disk, taken, requests, kind>>

Next ==
    \/ \E t \in Tasks :
        \/ \E i \in Ids :
            \/ \E f \in Files, p \in Projects : Enqueue(t, f, p, i)
            \/ \E q \in Projects : Patch(t, i, q)
            \/ Retry(t, i) \/ Requeue(t, i) \/ Approve(t, i) \/ Delete(t, i)
        \/ RequeueWrite(t) \/ DeleteFiles(t) \/ DeleteRow(t)
        \/ PatchCommit(t) \/ PatchMove(t)
        \/ ClaimRead(t) \/ ClaimWrite(t) \/ Activate(t) \/ ParseLight(t)
        \/ RetryTransient(t) \/ FailParse(t)
        \/ \E s \in Statuses, n \in Names : FinishParse(t, s, n)
        \/ \E q \in Projects : Switch(t, q)
        \/ \E n \in Names : FinishSwitch(t, n)
        \/ SagaStart(t) \/ SagaMaterialize(t) \/ SagaUnlink(t) \/ SagaRecover(t)
        \/ SagaRecord(t) \/ SagaFinish(t) \/ SagaFails(t)
    \/ \E i \in Ids : Reject(i)
    \/ \E dead \in SUBSET Tasks : Crash(dead)

Spec == Init /\ [][Next]_vars

-----------------------------------------------------------------------------
(* As long as nothing crashed, a row in a state that only a background task  *)
(* can end has such a task: no pair of claims, retries, rejections and       *)
(* requeues makes the tasks of a row all step back and leave it waiting.     *)
Working(i, steps) == \E t \in Tasks : tasks[t] # Idle /\ tasks[t].id = i /\ tasks[t].pc \in steps

ActiveRowsHaveWorkers ==
    faults = 0 =>
    \A i \in Ids :
        /\ Live(i) /\ rows[i].status \in {"queued", "parser_waiting", "parsing"}
             => Working(i, ParseSteps)
        /\ Live(i) /\ rows[i].status = "approved" => Working(i, SagaSteps \ {"finish"})
        /\ Live(i) /\ rows[i].status = "inserted" => Working(i, {"finish"})

(* A row that says its file was inserted names an artifact with that file's  *)
(* content, unless a delete or a patch has taken the artifact away: the code *)
(* lets the delete of one row unlink a name another row's artifact carries,  *)
(* and a patch that waited for the lock move a spreadsheet inserted since.   *)
(* The artifact need not be in the row's project: a patch that dies between  *)
(* its commit and its rename, or the late final write of a second parse      *)
(* task, changes the project under a saga that goes on with the one it read. *)
ArtifactsBehindInsertedRows ==
    \A i \in Ids :
        Live(i) /\ rows[i].status \in {"inserted", "done"} /\ kind[rows[i].file] # "image" =>
            \E p \in Projects :
                LET to == Target(p, rows[i].target)
                IN disk[to] = rows[i].file \/ <<to, rows[i].file>> \in taken

(* The last copy of an uploaded file disappears only in a delete request:    *)
(* never in a materialization, a move or a project switch, at whatever point *)
(* it crashes.                                                               *)
Held(f) == \E l \in Locations : disk[l] = f

UploadsSurvive ==
    [][\A f \in Files : Held(f) /\ ~Held(f)' =>
         \E t \in Tasks : At(t, "delete") /\ tasks'[t] = [tasks[t] EXCEPT !.pc = "deleting"]]_vars

(* An artifact is never replaced by another file's content and goes away only*)
(* in a delete request that names it, or with the patch of a failed row      *)
(* whose own path it is.                                                     *)
ArtifactsNotReplaced ==
    [][\A l \in Targets : disk[l] # NoFile /\ disk'[l] # disk[l] =>
         /\ disk'[l] = NoFile
         /\ \E t \in Tasks : \/ At(t, "delete") /\ l \in Named(t)
                             \/ At(t, "move") /\ tasks[t].path = l]_vars
=============================================================================
