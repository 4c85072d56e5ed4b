------------------------- MODULE IngestPipelineProofs -------------------------
(***************************************************************************)
(* Proofs about IngestPipeline, for any number of files, projects, rows    *)
(* and tasks.                                                              *)
(*                                                                         *)
(* What the tasks rely on without ever checking it again is IngestInv: a   *)
(* row never changes its file, so what a task read of it long ago still    *)
(* names the right content; a name made of a digest holds nothing but that *)
(* digest; and between the two steps of a materialization nobody else      *)
(* holds the lock.  WorkersFollow says which places a task may be at to    *)
(* count as the worker of a row: it is what ActiveRowsHaveWorkers needs to *)
(* be inductive, as a task that steps back must leave a better one behind. *)
(***************************************************************************)
EXTENDS IngestPipeline, TLAPS

-----------------------------------------------------------------------------
(* The inductive invariant.                                                *)

(* The names an artifact of file f may get.                                *)
Proper(f, n) == n = f \/ (n \in Bases /\ kind[f] # "xlsx")

GoodPath(f, l) == l \in Locations /\ l.name = f /\ (l \in Targets => kind[f] = "xlsx")

GoodRow(r) ==
    /\ r \in Row
    /\ GoodPath(r.file, r.path)
    /\ r.target = NoName \/ Proper(r.file, r.target)
    /\ r.status \in {"approved", "inserted", "done"} => r.target # NoName

PathSteps ==
    {"claimed", "work", "parse", "broken", "switched", "saga", "unlink", "record",
     "delete", "deleting", "patch", "move"}

GoodTask(u) ==
    /\ u \in Task
    /\ u.pc \in PathSteps =>
        /\ u.path.name \in Files /\ GoodPath(u.path.name, u.path)
        /\ u.project \in Projects
    /\ u.pc \in {"saga", "unlink", "record"} => Proper(u.path.name, u.target)
    /\ u.pc \in {"patch", "move"} => u.path # Input(u.project, u.path.name)

(* What a task read names the file of its row.                             *)
OfItsRow(u) ==
    /\ rows[u.id] # NoRow
    /\ u.pc \in PathSteps /\ Live(u.id) => rows[u.id].file = u.path.name

RowsNamed == \A i \in Ids : Live(i) => GoodRow(rows[i])
TasksNamed == \A t \in Tasks : tasks[t] # Idle => GoodTask(tasks[t]) /\ OfItsRow(tasks[t])
DigestNames == \A l \in Locations : l.name \in Files => disk[l] \in {NoFile, l.name}

Backed(u) ==
    LET to == Target(u.project, u.target)
    IN disk[to] = u.path.name \/ <<to, u.path.name>> \in taken

UnlinksSafe ==
    \A t \in Tasks : At(t, "unlink") =>
        /\ tasks[t].path \in Inputs
        /\ disk[Target(tasks[t].project, tasks[t].target)] = FileOf(t)
RecordsBacked == \A t \in Tasks : At(t, "record") => Backed(tasks[t])

IngestInv ==
    /\ PipelineTypeOK
    /\ RowsNamed /\ TasksNamed
    /\ DigestNames
    /\ UnlinksSafe /\ RecordsBacked
    /\ ArtifactsBehindInsertedRows

(* Where a task must be to bring a row on that has a given status.         *)
Active == {"queued", "parser_waiting", "parsing", "approved", "inserted"}
Serves(s, pc) ==
    \/ s = "queued" /\ pc \in {"claim", "claimed"}
    \/ s = "parser_waiting" /\ pc \in {"work", "parse", "broken", "switched"}
    \/ s = "parsing" /\ pc \in {"parse", "broken", "switched"}
    \/ s = "approved" /\ pc \in {"approved", "saga", "unlink", "record"}
    \/ s = "inserted" /\ pc = "finish"

WorkersFollow ==
    faults = 0 =>
    \A i \in Ids : Live(i) /\ rows[i].status \in Active =>
        \E t \in Tasks : tasks[t] # Idle /\ tasks[t].id = i /\ Serves(rows[i].status, tasks[t].pc)

-----------------------------------------------------------------------------
(* What a step does to rows, tasks and files, and that this is enough.     *)

Inserted(i) == Live(i) /\ rows[i].status \in {"inserted", "done"}
HasArtifact(i) ==
    \E p \in Projects :
        LET to == Target(p, rows[i].target)
        IN disk[to] = rows[i].file \/ <<to, rows[i].file>> \in taken

LockSteps == {"switched", "unlink", "deleting", "move"}
HoldsLock(t) == tasks[t] # Idle /\ tasks[t].pc \in LockSteps

RowStep ==
    /\ rows' \in [Ids -> Row \cup {NoRow, Gone}]
    /\ \A i \in Ids :
        /\ rows'[i] = rows[i] \/ (Live(i) => GoodRow(rows[i]))'
        /\ rows[i] # NoRow => rows'[i] # NoRow
        /\ rows[i] # NoRow /\ Live(i)' => Live(i) /\ rows'[i].file = rows[i].file

TaskStep ==
    /\ tasks' \in [Tasks -> Task \cup {Idle}]
    /\ \A t \in Tasks :
        \/ tasks'[t] = tasks[t] \/ tasks'[t] = Idle
        \/ (GoodTask(tasks[t]) /\ OfItsRow(tasks[t]))'

LockStep ==
    /\ lock' \in Tasks \cup {Free}
    /\ \A t \in Tasks : (lock = t <=> HoldsLock(t))'

ArtifactStep ==
    \A i \in Ids : Inserted(i)' /\ kind[rows'[i].file] # "image" =>
        \/ rows'[i] = rows[i]
        \/ Inserted(i) /\ rows'[i].target = rows[i].target
        \/ HasArtifact(i)'

CountStep == /\ requests' \in 0 .. MaxRequests /\ faults' \in 0 .. MaxFaults
             /\ UNCHANGED kind

Quiet == UNCHANGED <<disk, taken>>

LEMMA LiveRow == ASSUME IngestInv, NEW i \in Ids, Live(i)
                 PROVE  rows[i] \in Row /\ GoodRow(rows[i])
  BY DEF IngestInv, RowsNamed, GoodRow

LEMMA BusyTask == ASSUME IngestInv, NEW t \in Tasks, tasks[t] # Idle
                  PROVE  /\ tasks[t] \in Task /\ GoodTask(tasks[t]) /\ OfItsRow(tasks[t])
                         /\ Of(t) \in Ids
  <1>1. tasks[t] \in Task /\ GoodTask(tasks[t]) /\ OfItsRow(tasks[t])
    BY DEF IngestInv, TasksNamed, GoodTask
  <1>2. QED
    BY <1>1 DEF Task, Of

\* Rows and tasks stay in keeping with each other: no row changes its file.
LEMMA NamesKept ==
    ASSUME IngestInv, RowStep, TaskStep, CountStep
    PROVE  RowsNamed' /\ TasksNamed'
  <1>1. RowsNamed'
    <2>1. ASSUME NEW i \in Ids, Live(i)', rows'[i] = rows[i] PROVE GoodRow(rows[i])'
      <3>1. Live(i) /\ GoodRow(rows[i])
        BY <2>1, LiveRow DEF Live
      <3>2. QED
        BY <2>1, <3>1 DEF GoodRow, GoodPath, Proper, CountStep
    <2>2. QED
      BY <2>1 DEF RowsNamed, RowStep
  <1>2. ASSUME NEW t \in Tasks, tasks'[t] # Idle, tasks'[t] = tasks[t]
        PROVE  (GoodTask(tasks[t]) /\ OfItsRow(tasks[t]))'
    <2>1. GoodTask(tasks[t]) /\ OfItsRow(tasks[t]) /\ Of(t) \in Ids
      BY <1>2, BusyTask
    <2>2. GoodTask(tasks[t])'
      BY <1>2, <2>1 DEF GoodTask, GoodPath, Proper, CountStep
    <2>3. OfItsRow(tasks[t])'
      BY <1>2, <2>1 DEF OfItsRow, RowStep, Of
    <2>4. QED
      BY <2>2, <2>3
  <1>3. QED
    BY <1>1, <1>2 DEF TasksNamed, TaskStep

LEMMA TypesKept ==
    ASSUME IngestInv, RowStep, TaskStep, LockStep, CountStep,
           disk' \in [Locations -> Files \cup {NoFile}], taken' \subseteq Targets \X Files
    PROVE  PipelineTypeOK'
  BY DEF IngestInv, PipelineTypeOK, RowStep, TaskStep, LockStep, CountStep, HoldsLock, LockSteps

\* A step that leaves the files alone, and neither brings a task to the second
\* half of a materialization nor records one that did not happen.
LEMMA QuietKeeps ==
    ASSUME IngestInv, RowStep, TaskStep, LockStep, CountStep, ArtifactStep, Quiet,
           \A t \in Tasks : \/ tasks'[t] = tasks[t]
                           \/ /\ ~ At(t, "unlink")'
                              /\ At(t, "record")' => Backed(tasks[t])'
    PROVE  IngestInv'
  <1>1. PipelineTypeOK'
    BY TypesKept DEF IngestInv, PipelineTypeOK, Quiet
  <1>2. DigestNames'
    BY DEF IngestInv, DigestNames, Quiet
  <1>3. UnlinksSafe'
    BY DEF IngestInv, UnlinksSafe, At, FileOf, Quiet
  <1>4. RecordsBacked'
    BY DEF IngestInv, RecordsBacked, At, Backed, Quiet
  <1>5. ASSUME NEW i \in Ids, Inserted(i)', kind[rows'[i].file] # "image"
        PROVE  HasArtifact(i)'
    <2>1. CASE Inserted(i) /\ rows'[i].target = rows[i].target /\ rows'[i].file = rows[i].file
      <3>1. HasArtifact(i)
        BY <1>5, <2>1 DEF IngestInv, ArtifactsBehindInsertedRows, Inserted, HasArtifact
      <3>2. QED
        BY <2>1, <3>1 DEF HasArtifact, Quiet
    <2>2. QED
      BY <1>5, <2>1 DEF ArtifactStep, Inserted, Live, RowStep
  <1>6. QED
    BY <1>1, <1>2, <1>3, <1>4, <1>5, NamesKept
       DEF IngestInv, ArtifactsBehindInsertedRows, Inserted, HasArtifact, CountStep

\* The same for a step that changes files: what an artifact was, it still is,
\* or it was taken away.
LEMMA LoudKeeps ==
    ASSUME IngestInv, RowStep, TaskStep, LockStep, CountStep, ArtifactStep,
           disk' \in [Locations -> Files \cup {NoFile}], taken' \subseteq Targets \X Files,
           DigestNames', UnlinksSafe',
           \A l \in Targets, f \in Files :
                disk[l] = f \/ <<l, f>> \in taken => disk'[l] = f \/ <<l, f>> \in taken',
           \A t \in Tasks : tasks'[t] = tasks[t] \/ (At(t, "record")' => Backed(tasks[t])')
    PROVE  IngestInv'
  <1>1. PipelineTypeOK'
    BY TypesKept
  <1>2. RecordsBacked'
    <2>1. ASSUME NEW t \in Tasks, At(t, "record"), tasks'[t] = tasks[t]
          PROVE  Backed(tasks[t])'
      <3>1. Backed(tasks[t])
        BY <2>1 DEF IngestInv, RecordsBacked
      <3>2. tasks[t].path.name \in Files /\ Target(tasks[t].project, tasks[t].target) \in Targets
        BY <2>1, BusyTask DEF At, GoodTask, PathSteps, Proper, Target, Targets, Names
      <3>3. QED
        BY <2>1, <3>1, <3>2 DEF Backed
    <2>2. QED
      BY <2>1 DEF RecordsBacked, At
  <1>3. ASSUME NEW i \in Ids, Inserted(i)', kind[rows'[i].file] # "image"
        PROVE  HasArtifact(i)'
    <2>1. CASE Inserted(i) /\ rows'[i].target = rows[i].target /\ rows'[i].file = rows[i].file
      <3>1. HasArtifact(i)
        BY <1>3, <2>1 DEF IngestInv, ArtifactsBehindInsertedRows, Inserted, HasArtifact
      <3>2. rows[i].file \in Files /\ \A p \in Projects : Target(p, rows[i].target) \in Targets
        BY <2>1, LiveRow DEF Inserted, GoodRow, Proper, Target, Targets, Names, Row
      <3>3. QED
        BY <2>1, <3>1, <3>2 DEF HasArtifact
    <2>2. QED
      BY <1>3, <2>1 DEF ArtifactStep, Inserted, Live, RowStep
  <1>4. QED
    BY <1>1, <1>2, <1>3, NamesKept
       DEF IngestInv, ArtifactsBehindInsertedRows, Inserted, HasArtifact, CountStep

-----------------------------------------------------------------------------
(* The building blocks of the actions.                                     *)

OthersSame(t) == \A x \in Tasks \ {t} : tasks'[x] = tasks[x]

LEMMA RowsSame ==
    ASSUME IngestInv, UNCHANGED rows
    PROVE  RowStep /\ ArtifactStep
  BY DEF IngestInv, PipelineTypeOK, RowStep, ArtifactStep, Live

LEMMA UpdateRow ==
    ASSUME IngestInv, UNCHANGED kind, NEW i \in Ids, NEW r, Update(i, r),
           Live(i) => GoodRow(r) /\ r.file = rows[i].file
    PROVE  /\ RowStep
           /\ Live(i)' <=> Live(i)
           /\ Live(i) => rows'[i] = r
           /\ rows[i] = NoRow => rows'[i] = NoRow
           /\ \A j \in Ids \ {i} : rows'[j] = rows[j]
  <1>1. CASE ~ Live(i)
    BY <1>1, RowsSame DEF Update, Live
  <1>2. CASE Live(i)
    <2>1. rows' = [rows EXCEPT ![i] = r] /\ r \in Row
      BY <1>2 DEF Update, GoodRow
    <2>2. rows \in [Ids -> Row \cup {NoRow, Gone}]
      BY DEF IngestInv, PipelineTypeOK
    <2>3. r \notin {NoRow, Gone}
      BY <2>1, RowAssumption
    <2>4. GoodRow(r)'
      BY <1>2 DEF GoodRow, GoodPath, Proper
    <2>5. RowStep
      BY <1>2, <2>1, <2>2, <2>3, <2>4 DEF RowStep, Live
    <2>6. QED
      BY <1>2, <2>1, <2>2, <2>3, <2>5 DEF Live
  <1>3. QED
    BY <1>1, <1>2

LEMMA WriteStatus ==
    ASSUME IngestInv, UNCHANGED kind, NEW i \in Ids, NEW s \in Statuses, SetStatus(i, s),
           s \in {"approved", "inserted", "done"} /\ Live(i) => rows[i].target # NoName
    PROVE  /\ RowStep
           /\ Live(i)' <=> Live(i)
           /\ Live(i) => rows'[i] = [rows[i] EXCEPT !.status = s]
           /\ Live(i) => /\ rows'[i].status = s /\ rows'[i].file = rows[i].file
                         /\ rows'[i].target = rows[i].target
           /\ rows[i] = NoRow => rows'[i] = NoRow
           /\ \A j \in Ids \ {i} : rows'[j] = rows[j]
  <1> DEFINE r == [rows[i] EXCEPT !.status = s]
  <1>1. Live(i) => /\ GoodRow(r) /\ r.file = rows[i].file
                   /\ r.status = s /\ r.target = rows[i].target
    <2>1. SUFFICES ASSUME Live(i) PROVE /\ GoodRow(r) /\ r.file = rows[i].file
                                         /\ r.status = s /\ r.target = rows[i].target
      OBVIOUS
    <2>2. rows[i] \in Row /\ GoodRow(rows[i])
      BY <2>1, LiveRow
    <2>3. /\ r \in Row /\ r.file = rows[i].file /\ r.status = s /\ r.target = rows[i].target
          /\ r.path = rows[i].path
      BY <2>2 DEF Row
    <2> HIDE DEF r
    <2>4. QED
      BY <2>1, <2>2, <2>3 DEF GoodRow
  <1>2. Update(i, r)
    BY DEF SetStatus
  <1> HIDE DEF r
  <1>3. /\ RowStep
        /\ Live(i)' <=> Live(i)
        /\ Live(i) => rows'[i] = r
        /\ rows[i] = NoRow => rows'[i] = NoRow
        /\ \A j \in Ids \ {i} : rows'[j] = rows[j]
    BY <1>1, <1>2, UpdateRow
  <1>4. r = [rows[i] EXCEPT !.status = s]
    BY DEF r
  <1>5. QED
    BY <1>1, <1>3, <1>4

Steps == ParseSteps \cup SagaSteps \cup RequestSteps
Placing == {"saga", "unlink", "record"}

\* A task that goes to another place with what it read.
LEMMA MoveTask ==
    ASSUME IngestInv, UNCHANGED kind, RowStep, NEW t \in Tasks, tasks[t] # Idle,
           NEW pc \in Steps, GoTo(t, pc),
           pc \in PathSteps => tasks[t].pc \in PathSteps,
           pc \in Placing => tasks[t].pc \in Placing,
           pc \in {"patch", "move"} => tasks[t].pc = "patch"
    PROVE  /\ TaskStep /\ OthersSame(t)
           /\ tasks'[t] # Idle /\ tasks'[t].pc = pc
           /\ tasks'[t].id = tasks[t].id /\ tasks'[t].project = tasks[t].project
           /\ tasks'[t].path = tasks[t].path /\ tasks'[t].target = tasks[t].target
  <1> DEFINE u == [tasks[t] EXCEPT !.pc = pc]
  <1>1. tasks[t] \in Task /\ GoodTask(tasks[t]) /\ OfItsRow(tasks[t]) /\ tasks[t].id \in Ids
    BY BusyTask DEF Of
  <1>2. /\ u \in Task /\ u.pc = pc /\ u.id = tasks[t].id /\ u.project = tasks[t].project
        /\ u.path = tasks[t].path /\ u.target = tasks[t].target
    BY <1>1 DEF Task, Steps
  <1>3. tasks' = [tasks EXCEPT ![t] = u]
    BY DEF GoTo
  <1> HIDE DEF u
  <1>4. tasks \in [Tasks -> Task \cup {Idle}]
    BY DEF IngestInv, PipelineTypeOK
  <1>5. tasks'[t] = u /\ OthersSame(t) /\ tasks' \in [Tasks -> Task \cup {Idle}] /\ u # Idle
    BY <1>2, <1>3, <1>4, TaskAssumption DEF OthersSame
  <1>6. (GoodTask(tasks[t]) /\ OfItsRow(tasks[t]))'
    BY <1>1, <1>2, <1>5 DEF GoodTask, GoodPath, Proper, OfItsRow, RowStep, Placing
  <1>7. QED
    BY <1>2, <1>5, <1>6 DEF TaskStep, OthersSame

LEMMA EndTask ==
    ASSUME IngestInv, NEW t \in Tasks, Become(t, Idle)
    PROVE  TaskStep /\ OthersSame(t) /\ tasks'[t] = Idle
  BY DEF IngestInv, PipelineTypeOK, Become, TaskStep, OthersSame

LEMMA BecomeTask ==
    ASSUME IngestInv, UNCHANGED kind, NEW t \in Tasks, NEW u, Become(t, u), GoodTask(u),
           rows'[u.id] # NoRow, u.pc \in PathSteps /\ Live(u.id)' => rows'[u.id].file = u.path.name
    PROVE  TaskStep /\ OthersSame(t) /\ tasks'[t] = u /\ u # Idle
  <1>1. tasks \in [Tasks -> Task \cup {Idle}]
    BY DEF IngestInv, PipelineTypeOK
  <1>2. u \in Task /\ tasks' = [tasks EXCEPT ![t] = u]
    BY DEF GoodTask, Become
  <1>3. tasks'[t] = u /\ OthersSame(t) /\ tasks' \in [Tasks -> Task \cup {Idle}] /\ u # Idle
    BY <1>1, <1>2, TaskAssumption DEF OthersSame
  <1>4. (GoodTask(tasks[t]) /\ OfItsRow(tasks[t]))'
    BY <1>3 DEF GoodTask, GoodPath, Proper, OfItsRow, Live
  <1>5. QED
    BY <1>3, <1>4 DEF TaskStep, OthersSame

LEMMA WorkGood ==
    ASSUME NEW pc \in {"claim", "requeue", "approved", "finish"}, NEW i \in Ids
    PROVE  GoodTask(Work(pc, i)) /\ Work(pc, i).pc = pc /\ Work(pc, i).id = i
  BY DEF GoodTask, Work, Task, PathSteps, ParseSteps, SagaSteps, RequestSteps

\* A task that starts on a row with nothing read yet.
LEMMA BecomeWork ==
    ASSUME IngestInv, UNCHANGED kind, NEW t \in Tasks, NEW i \in Ids, rows'[i] # NoRow,
           NEW pc \in {"claim", "requeue", "approved", "finish"}, Become(t, Work(pc, i))
    PROVE  TaskStep /\ OthersSame(t) /\ tasks'[t] # Idle /\ tasks'[t].pc = pc /\ tasks'[t].id = i
  <1> DEFINE u == Work(pc, i)
  <1>1. GoodTask(u) /\ u.pc = pc /\ u.id = i
    BY WorkGood
  <1> HIDE DEF u
  <1>2. u.pc \notin PathSteps
    BY <1>1 DEF PathSteps
  <1>3. Become(t, u)
    BY DEF u
  <1>4. QED
    BY <1>1, <1>2, <1>3, BecomeTask

LEMMA ReadingGood ==
    ASSUME IngestInv, NEW i \in Ids, Live(i), NEW pc \in {"claimed", "delete", "saga"},
           pc = "saga" => rows[i].status = "approved"
    PROVE  LET u == Reading(pc, i)
           IN  /\ GoodTask(u) /\ u.pc = pc /\ u.id = i /\ u.path.name = rows[i].file
               /\ u.path = rows[i].path /\ u.project = rows[i].project
  <1> DEFINE u == Reading(pc, i)
  <1>1. rows[i] \in Row /\ GoodRow(rows[i])
    BY LiveRow
  <1>2. /\ u.pc = pc /\ u.id = i /\ u.path = rows[i].path /\ u.project = rows[i].project
        /\ u.target = rows[i].target
    BY DEF Reading
  <1>3. u \in Task
    BY <1>1 DEF Reading, Task, Row, ParseSteps, SagaSteps, RequestSteps
  <1> HIDE DEF u
  <1>4. GoodTask(u)
    BY <1>1, <1>2, <1>3 DEF GoodTask, GoodRow, GoodPath, Row
  <1>5. QED
    BY <1>1, <1>2, <1>4 DEF u, GoodRow, GoodPath

\* The lock stays with whoever is at a place that needs it.
LEMMA LockKept ==
    ASSUME IngestInv, UNCHANGED lock, NEW t \in Tasks, OthersSame(t),
           HoldsLock(t)' <=> HoldsLock(t)
    PROVE  LockStep
  <1>1. lock \in Tasks \cup {Free} /\ \A x \in Tasks : lock = x <=> HoldsLock(x)
    BY DEF IngestInv, PipelineTypeOK, HoldsLock, LockSteps
  <1>2. \A x \in Tasks \ {t} : HoldsLock(x)' <=> HoldsLock(x)
    BY DEF OthersSame, HoldsLock
  <1>3. QED
    BY <1>1, <1>2 DEF LockStep

LEMMA LockTaken ==
    ASSUME IngestInv, lock = Free, NEW t \in Tasks, lock' = t, OthersSame(t), HoldsLock(t)'
    PROVE  LockStep
  <1>1. \A x \in Tasks : ~ HoldsLock(x)
    BY FreeAssumption DEF IngestInv, PipelineTypeOK, HoldsLock, LockSteps
  <1>2. QED
    BY <1>1 DEF LockStep, OthersSame, HoldsLock

LEMMA LockReleased ==
    ASSUME IngestInv, NEW t \in Tasks, lock = t, lock' = Free, OthersSame(t), ~ HoldsLock(t)'
    PROVE  LockStep
  <1>1. \A x \in Tasks \ {t} : ~ HoldsLock(x)
    BY DEF IngestInv, PipelineTypeOK, HoldsLock, LockSteps
  <1>2. QED
    BY <1>1, FreeAssumption DEF LockStep, OthersSame, HoldsLock

\* A row keeps a worker when the one task that moves either serves it
\* afterwards or did not serve it before.
LEMMA WorkersKept ==
    ASSUME WorkersFollow, UNCHANGED faults, NEW t \in Tasks, NEW i \in Ids, OthersSame(t),
           tasks[t] # Idle => tasks[t].id = i, tasks'[t] # Idle => tasks'[t].id = i,
           \A j \in Ids \ {i} : rows'[j] = rows[j],
           Live(i)' /\ rows'[i].status \in Active =>
                \/ tasks'[t] # Idle /\ Serves(rows'[i].status, tasks'[t].pc)
                \/ /\ Live(i) /\ rows'[i].status = rows[i].status
                   /\ tasks[t] # Idle => ~ Serves(rows[i].status, tasks[t].pc)
    PROVE  WorkersFollow'
  <1>1. SUFFICES ASSUME faults = 0, NEW j \in Ids, Live(j)', rows'[j].status \in Active
                 PROVE  \E x \in Tasks : /\ tasks'[x] # Idle /\ tasks'[x].id = j
                                         /\ Serves(rows'[j].status, tasks'[x].pc)
    BY DEF WorkersFollow
  <1>2. CASE j = i /\ tasks'[t] # Idle /\ Serves(rows'[i].status, tasks'[t].pc)
    BY <1>2
  <1>3. CASE /\ Live(j) /\ rows'[j].status = rows[j].status
             /\ j = i /\ tasks[t] # Idle => ~ Serves(rows[i].status, tasks[t].pc)
    <2>1. PICK x \in Tasks : /\ tasks[x] # Idle /\ tasks[x].id = j
                             /\ Serves(rows[j].status, tasks[x].pc)
      BY <1>1, <1>3 DEF WorkersFollow
    <2>2. x # t
      BY <1>3, <2>1
    <2>3. QED
      BY <1>3, <2>1, <2>2 DEF OthersSame
  <1>4. QED
    BY <1>1, <1>2, <1>3 DEF Live

WorkedOn == IngestInv /\ WorkersFollow

-----------------------------------------------------------------------------
(* Requests.                                                               *)

\* A step of one task on one row that changes no file.
LEMMA OneTaskStep ==
    ASSUME WorkedOn, NEW t \in Tasks, NEW i \in Ids, Quiet, CountStep, UNCHANGED faults,
           RowStep, ArtifactStep, \A j \in Ids \ {i} : rows'[j] = rows[j],
           TaskStep, OthersSame(t), LockStep,
           tasks[t] # Idle => tasks[t].id = i, tasks'[t] # Idle => tasks'[t].id = i,
           tasks'[t] # Idle => tasks'[t].pc \notin {"unlink", "record"},
           Live(i)' /\ rows'[i].status \in Active =>
                \/ tasks'[t] # Idle /\ Serves(rows'[i].status, tasks'[t].pc)
                \/ /\ Live(i) /\ rows'[i].status = rows[i].status
                   /\ tasks[t] # Idle => ~ Serves(rows[i].status, tasks[t].pc)
    PROVE  WorkedOn'
  <1>1. WorkersFollow'
    BY WorkersKept DEF WorkedOn
  <1>2. \A x \in Tasks : tasks'[x] = tasks[x] \/ (~ At(x, "unlink")' /\ ~ At(x, "record")')
    BY DEF OthersSame, At
  <1>3. QED
    BY <1>1, <1>2, QuietKeeps DEF WorkedOn

LEMMA EnqueueKeeps ==
    ASSUME WorkedOn, NEW t \in Tasks, NEW f \in Files, NEW p \in Projects, NEW i \in Ids,
           Enqueue(t, f, p, i)
    PROVE  WorkedOn'
  <1> DEFINE r == [file |-> f, project |-> p, status |-> "queued", path |-> Input(p, f),
                   target |-> NoName]
  <1>1. IngestInv /\ WorkersFollow /\ tasks[t] = Idle
    BY DEF WorkedOn, Enqueue
  <1>2. Input(p, f) \in Inputs /\ Input(p, f) \notin Targets /\ Input(p, f).name = f
    BY DEF Input, Inputs, Targets
  <1>3. /\ r \in Row /\ r.file = f /\ r.path = Input(p, f) /\ r.target = NoName
        /\ r.status = "queued"
    BY <1>2 DEF Row, Statuses, Locations
  <1>4. rows' = [rows EXCEPT ![i] = r] /\ Become(t, Work("claim", i))
    BY DEF Enqueue
  <1>5. rows[i] # Gone /\ (Live(i) => rows[i].file = f)
    BY RowAssumption DEF Enqueue, Live
  <1>6. UNCHANGED <<disk, lock, taken, faults, kind>> /\ requests' \in 0 .. MaxRequests
    BY <1>1, BoundAssumption DEF Enqueue, Request, IngestInv, PipelineTypeOK
  <1> HIDE DEF r
  <1>7. rows'[i] = r /\ Live(i)' /\ \A j \in Ids \ {i} : rows'[j] = rows[j]
    BY <1>1, <1>3, <1>4, RowAssumption DEF IngestInv, PipelineTypeOK, Live
  <1>8. (GoodRow(rows[i]))'
    BY <1>2, <1>3, <1>7 DEF GoodRow, GoodPath, Locations
  <1>9. RowStep
    <2>1. rows' \in [Ids -> Row \cup {NoRow, Gone}]
      BY <1>1, <1>3, <1>4 DEF IngestInv, PipelineTypeOK
    <2>2. QED
      BY <2>1, <1>3, <1>5, <1>7, <1>8 DEF RowStep, Live
  <1>10. TaskStep /\ OthersSame(t) /\ tasks'[t] # Idle /\ tasks'[t].pc = "claim" /\ tasks'[t].id = i
    <2>1. rows'[i] # NoRow
      BY <1>7 DEF Live
    <2>2. QED
      BY <1>1, <1>4, <1>6, <2>1, BecomeWork
  <1>11. LockStep
    <2>1. HoldsLock(t)' <=> HoldsLock(t)
      BY <1>1, <1>10 DEF HoldsLock, LockSteps
    <2>2. QED
      BY <1>1, <1>6, <1>10, <2>1, LockKept
  <1>12. ArtifactStep
    BY <1>3, <1>7 DEF ArtifactStep, Inserted
  <1>13. CountStep /\ Quiet
    BY <1>1, <1>6 DEF CountStep, Quiet, IngestInv, PipelineTypeOK
  <1>14. Serves(rows'[i].status, tasks'[t].pc)
    BY <1>3, <1>7, <1>10 DEF Serves
  <1>15. QED
    BY <1>1, <1>6, <1>7, <1>9, <1>10, <1>11, <1>12, <1>13, <1>14, OneTaskStep

\* Requests that only schedule a task.
LEMMA RetryKeeps ==
    ASSUME WorkedOn, NEW t \in Tasks, NEW i \in Ids, Retry(t, i) \/ Requeue(t, i)
    PROVE  WorkedOn'
  <1>1. IngestInv /\ WorkersFollow /\ tasks[t] = Idle /\ Live(i)
    BY DEF WorkedOn, Retry, Requeue
  <1>2. /\ UNCHANGED <<rows, disk, lock, taken, faults, kind>>
        /\ requests' \in 0 .. MaxRequests
    BY <1>1, BoundAssumption DEF Retry, Requeue, Request, IngestInv, PipelineTypeOK
  <1>3. RowStep /\ ArtifactStep
    BY <1>1, <1>2, RowsSame
  <1>4. /\ TaskStep /\ OthersSame(t) /\ tasks'[t] # Idle /\ tasks'[t].id = i
        /\ tasks'[t].pc \in {"claim", "requeue"}
    <2>1. rows'[i] # NoRow
      BY <1>1, <1>2 DEF Live
    <2>2. CASE Retry(t, i)
      BY <1>1, <1>2, <2>1, <2>2, BecomeWork DEF Retry
    <2>3. CASE Requeue(t, i)
      BY <1>1, <1>2, <2>1, <2>3, BecomeWork DEF Requeue
    <2>4. QED
      BY <2>2, <2>3
  <1>5. HoldsLock(t)' <=> HoldsLock(t)
    BY <1>1, <1>4 DEF HoldsLock, LockSteps
  <1>6. LockStep
    BY <1>1, <1>2, <1>4, <1>5, LockKept
  <1>7. CountStep /\ Quiet
    BY <1>1, <1>2 DEF CountStep, Quiet, IngestInv, PipelineTypeOK
  <1>8. Live(i)' /\ rows'[i] = rows[i]
    BY <1>1, <1>2 DEF Live
  <1>9. QED
    BY <1>1, <1>2, <1>3, <1>4, <1>6, <1>7, <1>8, OneTaskStep

\* What a step of a busy task starts from.
LEMMA BusyStart ==
    ASSUME WorkedOn, NEW t \in Tasks, tasks[t] # Idle
    PROVE  /\ IngestInv /\ WorkersFollow
           /\ tasks[t] \in Task /\ GoodTask(tasks[t]) /\ OfItsRow(tasks[t])
           /\ \E i \in Ids : i = tasks[t].id
  BY BusyTask DEF WorkedOn, Of

\* A busy task that writes a status, or nothing, and goes to a place that
\* needs no lock, with what it read.
LEMMA StatusThenMove ==
    ASSUME WorkedOn, NEW t \in Tasks, tasks[t] # Idle, NEW i \in Ids, i = tasks[t].id,
           NEW s \in Statuses, SetStatus(i, s) \/ UNCHANGED rows,
           s \notin {"approved", "inserted", "done"},
           NEW pc \in Steps, GoTo(t, pc), pc \notin Placing \cup LockSteps, pc # "patch",
           pc \in PathSteps => tasks[t].pc \in PathSteps, tasks[t].pc \notin LockSteps,
           Live(i) => \/ SetStatus(i, s) /\ (s \in Active => Serves(s, pc))
                      \/ /\ UNCHANGED rows
                         /\ \/ rows[i].status \notin Active
                            \/ Serves(rows[i].status, pc)
                            \/ ~ Serves(rows[i].status, tasks[t].pc),
           UNCHANGED <<disk, lock, taken, requests, faults, kind>>
    PROVE  WorkedOn'
  <1>1. IngestInv /\ WorkersFollow
    BY DEF WorkedOn
  <1>2. RowStep /\ ArtifactStep /\ \A j \in Ids \ {i} : rows'[j] = rows[j]
    <2>1. CASE SetStatus(i, s)
      <3>1. /\ RowStep
            /\ Live(i)' <=> Live(i)
            /\ Live(i) => rows'[i].status = s
            /\ \A j \in Ids \ {i} : rows'[j] = rows[j]
        BY <1>1, <2>1, WriteStatus
      <3>2. QED
        BY <3>1 DEF ArtifactStep, Inserted
    <2>2. CASE UNCHANGED rows
      BY <1>1, <2>2, RowsSame
    <2>3. QED
      BY <2>1, <2>2
  <1>3. TaskStep /\ OthersSame(t) /\ tasks'[t] # Idle /\ tasks'[t].pc = pc /\ tasks'[t].id = i
    <2>1. pc \notin {"patch", "move"}
      BY DEF LockSteps
    <2>2. QED
      BY <1>1, <1>2, <2>1, MoveTask
  <1>4. LockStep
    <2>1. HoldsLock(t)' <=> HoldsLock(t)
      BY <1>3 DEF HoldsLock
    <2>2. QED
      BY <1>1, <1>3, <2>1, LockKept
  <1>5. CountStep /\ Quiet
    BY <1>1 DEF CountStep, Quiet, IngestInv, PipelineTypeOK
  <1>6. Live(i)' /\ rows'[i].status \in Active =>
            \/ Serves(rows'[i].status, tasks'[t].pc)
            \/ /\ Live(i) /\ rows'[i].status = rows[i].status
               /\ ~ Serves(rows[i].status, tasks[t].pc)
    <2>1. CASE Live(i) /\ SetStatus(i, s) /\ (s \in Active => Serves(s, pc))
      BY <1>1, <1>3, <2>1, WriteStatus
    <2>2. CASE ~ Live(i)
      BY <2>2 DEF SetStatus, Update, Live
    <2>3. CASE /\ UNCHANGED rows
               /\ \/ rows[i].status \notin Active
                  \/ Serves(rows[i].status, pc)
                  \/ ~ Serves(rows[i].status, tasks[t].pc)
      <3>1. rows'[i] = rows[i] /\ tasks'[t].pc = pc /\ (Live(i)' <=> Live(i))
        BY <1>3, <2>3 DEF Live
      <3>2. QED
        BY <2>3, <3>1
    <2>4. QED
      BY <2>1, <2>2, <2>3
  <1>7. tasks'[t].pc \notin {"unlink", "record"}
    BY <1>3 DEF Placing
  <1>8. QED
    BY <1>1, <1>2, <1>3, <1>4, <1>5, <1>6, <1>7, OneTaskStep

\* The same for a task that ends.
LEMMA StatusThenEnd ==
    ASSUME WorkedOn, NEW t \in Tasks, tasks[t] # Idle, NEW i \in Ids, i = tasks[t].id,
           NEW s \in Statuses, SetStatus(i, s) \/ UNCHANGED rows,
           s = "done" /\ Live(i) /\ SetStatus(i, s) => rows[i].status = "inserted",
           s \notin {"approved", "inserted"}, Become(t, Idle), LockStep,
           Live(i) => \/ SetStatus(i, s) /\ s \notin Active
                      \/ /\ UNCHANGED rows
                         /\ \/ rows[i].status \notin Active
                            \/ ~ Serves(rows[i].status, tasks[t].pc),
           UNCHANGED <<disk, taken, requests, faults, kind>>
    PROVE  WorkedOn'
  <1>1. IngestInv /\ WorkersFollow
    BY DEF WorkedOn
  <1>2. RowStep /\ ArtifactStep /\ \A j \in Ids \ {i} : rows'[j] = rows[j]
    <2>1. CASE SetStatus(i, s) /\ ~ UNCHANGED rows
      <3>1. Live(i) => GoodRow(rows[i])
        BY <1>1, LiveRow
      <3>2. s = "done" /\ Live(i) => rows[i].target # NoName
        BY <2>1, <3>1 DEF GoodRow
      <3>3. /\ RowStep
            /\ Live(i)' <=> Live(i)
            /\ Live(i) => rows'[i].status = s /\ rows'[i].target = rows[i].target
            /\ \A j \in Ids \ {i} : rows'[j] = rows[j]
        BY <1>1, <2>1, <3>2, WriteStatus
      <3>4. QED
        BY <2>1, <3>3 DEF ArtifactStep, Inserted
    <2>2. CASE UNCHANGED rows
      BY <1>1, <2>2, RowsSame
    <2>3. QED
      BY <2>1, <2>2
  <1>3. TaskStep /\ OthersSame(t) /\ tasks'[t] = Idle
    BY <1>1, EndTask
  <1>4. CountStep /\ Quiet
    BY <1>1 DEF CountStep, Quiet, IngestInv, PipelineTypeOK
  <1>5. Live(i)' /\ rows'[i].status \in Active =>
            /\ Live(i) /\ rows'[i].status = rows[i].status
            /\ ~ Serves(rows[i].status, tasks[t].pc)
    <2>1. CASE Live(i) /\ SetStatus(i, s) /\ s \notin Active
      <3>1. rows'[i].status = s
        <4>1. rows[i] \in Row /\ rows' = [rows EXCEPT ![i] = [rows[i] EXCEPT !.status = s]]
          BY <1>1, <2>1, LiveRow DEF SetStatus, Update
        <4>2. QED
          BY <1>1, <4>1 DEF IngestInv, PipelineTypeOK, Row
      <3>2. QED
        BY <2>1, <3>1
    <2>2. CASE ~ Live(i) /\ SetStatus(i, s)
      BY <2>2 DEF SetStatus, Update, Live
    <2>3. CASE UNCHANGED rows
      BY <2>3, <2>1 DEF Live
    <2>4. QED
      BY <2>1, <2>2, <2>3
  <1>6. QED
    BY <1>1, <1>2, <1>3, <1>4, <1>5, OneTaskStep

\* A busy task that writes a status, or nothing, and comes to a place where it
\* remembers no more than its row.
LEMMA StatusThenWork ==
    ASSUME WorkedOn, NEW t \in Tasks, tasks[t] # Idle, NEW i \in Ids, i = tasks[t].id,
           RowStep, ArtifactStep, \A j \in Ids \ {i} : rows'[j] = rows[j],
           NEW pc \in {"claim", "requeue", "approved", "finish"}, Become(t, Work(pc, i)),
           LockStep,
           Live(i)' /\ rows'[i].status \in Active =>
                \/ Serves(rows'[i].status, pc)
                \/ /\ Live(i) /\ rows'[i].status = rows[i].status
                   /\ ~ Serves(rows[i].status, tasks[t].pc),
           UNCHANGED <<disk, taken, requests, faults, kind>>
    PROVE  WorkedOn'
  <1>1. IngestInv /\ WorkersFollow /\ OfItsRow(tasks[t])
    BY BusyStart
  <1>2. rows'[i] # NoRow
    BY <1>1 DEF OfItsRow, RowStep
  <1>3. TaskStep /\ OthersSame(t) /\ tasks'[t] # Idle /\ tasks'[t].pc = pc /\ tasks'[t].id = i
    BY <1>1, <1>2, BecomeWork
  <1>4. CountStep /\ Quiet
    BY <1>1 DEF CountStep, Quiet, IngestInv, PipelineTypeOK
  <1>5. tasks'[t].pc \notin {"unlink", "record"}
    BY <1>3
  <1>6. QED
    BY <1>1, <1>3, <1>4, <1>5, OneTaskStep

-----------------------------------------------------------------------------
(* Requeueing, and the steps of a parse.                                   *)

LEMMA RequeueWriteKeeps ==
    ASSUME WorkedOn, NEW t \in Tasks, RequeueWrite(t)
    PROVE  WorkedOn'
  <1>1. /\ tasks[t] # Idle /\ tasks[t].pc = "requeue"
        /\ UNCHANGED <<disk, lock, taken, requests, faults, kind>>
    BY DEF RequeueWrite, At
  <1>2. PICK i \in Ids : i = tasks[t].id
    BY <1>1, BusyStart
  <1>3. SetStatus(i, "queued") /\ GoTo(t, "claim")
    BY <1>2 DEF RequeueWrite, Of
  <1>4. "queued" \in Statuses /\ "claim" \in Steps /\ "claim" \notin PathSteps
    BY DEF Statuses, Steps, ParseSteps, PathSteps
  <1>5. Serves("queued", "claim") /\ "claim" \notin Placing \cup LockSteps
    BY DEF Serves, Placing, LockSteps
  <1>6. tasks[t].pc \notin LockSteps
    BY <1>1 DEF LockSteps
  <1>7. QED
    BY <1>1, <1>2, <1>3, <1>4, <1>5, <1>6, StatusThenMove

LEMMA ClaimWriteKeeps ==
    ASSUME WorkedOn, NEW t \in Tasks, ClaimWrite(t)
    PROVE  WorkedOn'
  <1>1. /\ tasks[t] # Idle /\ tasks[t].pc = "claimed"
        /\ UNCHANGED <<disk, lock, taken, requests, faults, kind>>
    BY DEF ClaimWrite, At
  <1>2. PICK i \in Ids : i = tasks[t].id
    BY <1>1, BusyStart
  <1>3. SetStatus(i, "parser_waiting") /\ GoTo(t, "work")
    BY <1>2 DEF ClaimWrite, Of
  <1>4. "parser_waiting" \in Statuses /\ "work" \in Steps /\ tasks[t].pc \in PathSteps
    BY <1>1 DEF Statuses, Steps, ParseSteps, PathSteps
  <1>5. Serves("parser_waiting", "work") /\ "work" \notin Placing \cup LockSteps
    BY DEF Serves, Placing, LockSteps
  <1>6. tasks[t].pc \notin LockSteps
    BY <1>1 DEF LockSteps
  <1>7. QED
    BY <1>1, <1>2, <1>3, <1>4, <1>5, <1>6, StatusThenMove

\* A task without a parser slot, or whose row is no longer waiting for it.
LEMMA ActivateKeeps ==
    ASSUME WorkedOn, NEW t \in Tasks, Activate(t)
    PROVE  WorkedOn'
  <1>1. /\ tasks[t] # Idle /\ tasks[t].pc = "work"
        /\ UNCHANGED <<disk, lock, taken, requests, faults, kind>>
    BY DEF Activate, At
  <1>2. PICK i \in Ids : i = tasks[t].id
    BY <1>1, BusyStart
  <1>3. IngestInv /\ WorkersFollow
    BY DEF WorkedOn
  <1>4. CASE Live(i) /\ rows[i].status = "parser_waiting"
    <2>1. PICK pc \in {"parse", "broken"} : SetStatus(i, "parsing") /\ GoTo(t, pc)
      BY <1>2, <1>4 DEF Activate, Of
    <2>2. "parsing" \in Statuses /\ pc \in Steps /\ tasks[t].pc \in PathSteps
      BY <1>1 DEF Statuses, Steps, ParseSteps, PathSteps
    <2>3. /\ Serves("parsing", pc) /\ pc \notin Placing \cup LockSteps
          /\ tasks[t].pc \notin LockSteps
      BY <1>1 DEF Serves, Placing, LockSteps
    <2>4. QED
      BY <1>1, <1>2, <2>1, <2>2, <2>3, StatusThenMove
  <1>5. CASE ~ (Live(i) /\ rows[i].status = "parser_waiting")
    <2>1. Become(t, Idle) /\ UNCHANGED rows
      BY <1>2, <1>5 DEF Activate, Of
    <2>2. LockStep
      <3>1. OthersSame(t) /\ tasks'[t] = Idle
        BY <1>3, <2>1, EndTask
      <3>2. HoldsLock(t)' <=> HoldsLock(t)
        BY <1>1, <3>1 DEF HoldsLock, LockSteps
      <3>3. QED
        BY <1>1, <1>3, <3>1, <3>2, LockKept
    <2>3. Live(i) => ~ Serves(rows[i].status, tasks[t].pc)
      BY <1>1, <1>5 DEF Serves
    <2>4. "queued" \in Statuses
      BY DEF Statuses
    <2>5. Live(i) => ~ SetStatus(i, "done") \/ rows[i].status = "done"
      BY <1>2, <1>3, <2>1, LiveRow DEF SetStatus, Update, Row, IngestInv, PipelineTypeOK
    <2>6. QED
      BY <1>1, <1>2, <2>1, <2>2, <2>3, <2>4, StatusThenEnd
  <1>6. QED
    BY <1>4, <1>5

LEMMA ParseLightKeeps ==
    ASSUME WorkedOn, NEW t \in Tasks, ParseLight(t)
    PROVE  WorkedOn'
  <1>1. /\ tasks[t] # Idle /\ tasks[t].pc = "work" /\ GoTo(t, "parse")
        /\ UNCHANGED <<rows, disk, lock, taken, requests, faults, kind>>
    BY DEF ParseLight, At
  <1>2. PICK i \in Ids : i = tasks[t].id
    BY <1>1, BusyStart
  <1>3. "queued" \in Statuses /\ "parse" \in Steps /\ tasks[t].pc \in PathSteps
    BY <1>1 DEF Statuses, Steps, ParseSteps, PathSteps
  <1>4. /\ "parse" \notin Placing \cup LockSteps
        /\ tasks[t].pc \notin LockSteps
    BY <1>1 DEF Placing, LockSteps
  <1>5. \A s \in Statuses : Serves(s, "work") => Serves(s, "parse")
    BY DEF Serves, Statuses
  <1>6. Live(i) => Serves(rows[i].status, "parse") \/ ~ Serves(rows[i].status, tasks[t].pc)
    BY <1>1 DEF Serves
  <1>7. QED
    BY <1>1, <1>2, <1>3, <1>4, <1>6, StatusThenMove

LEMMA RetryTransientKeeps ==
    ASSUME WorkedOn, NEW t \in Tasks, RetryTransient(t)
    PROVE  WorkedOn'
  <1>1. /\ tasks[t] # Idle /\ tasks[t].pc = "parse" /\ GoTo(t, "work")
        /\ UNCHANGED <<disk, lock, taken, requests, faults, kind>>
    BY DEF RetryTransient, At
  <1>2. PICK i \in Ids : i = tasks[t].id
    BY <1>1, BusyStart
  <1>3. "parser_waiting" \in Statuses /\ "work" \in Steps /\ tasks[t].pc \in PathSteps
    BY <1>1 DEF Statuses, Steps, ParseSteps, PathSteps
  <1>4. /\ "work" \notin Placing \cup LockSteps /\ Serves("parser_waiting", "work")
        /\ tasks[t].pc \notin LockSteps
    BY <1>1 DEF Serves, Placing, LockSteps
  <1>5. CASE Live(i) /\ rows[i].status \in WaitingAgain
    <2>1. SetStatus(i, "parser_waiting")
      BY <1>2, <1>5 DEF RetryTransient, Of
    <2>2. QED
      BY <1>1, <1>2, <1>3, <1>4, <2>1, StatusThenMove
  <1>6. CASE ~ (Live(i) /\ rows[i].status \in WaitingAgain)
    <2>1. UNCHANGED rows
      BY <1>2, <1>6 DEF RetryTransient, Of
    <2>2. Live(i) => Serves(rows[i].status, "work") \/ ~ Serves(rows[i].status, tasks[t].pc)
      BY <1>1, <1>6 DEF Serves, WaitingAgain
    <2>3. QED
      BY <1>1, <1>2, <1>3, <1>4, <2>1, <2>2, StatusThenMove
  <1>7. QED
    BY <1>5, <1>6

LEMMA FailParseKeeps ==
    ASSUME WorkedOn, NEW t \in Tasks, FailParse(t) \/ SagaFails(t)
    PROVE  WorkedOn'
  <1>1. /\ tasks[t] # Idle
        /\ UNCHANGED <<disk, taken, requests, faults, kind>>
    BY DEF FailParse, SagaFails, At
  <1>2. PICK i \in Ids : i = tasks[t].id
    BY <1>1, BusyStart
  <1>3. IngestInv /\ SetStatus(i, "parse_error") /\ Become(t, Idle)
    BY <1>2 DEF FailParse, SagaFails, Of, WorkedOn
  <1>4. "parse_error" \in Statuses \ Active
    BY DEF Statuses, Active
  <1>5. OthersSame(t) /\ tasks'[t] = Idle
    BY <1>3, EndTask
  <1>6. ~ HoldsLock(t)'
    BY <1>5 DEF HoldsLock
  <1>7. LockStep
    <2>1. lock = t <=> HoldsLock(t)
      BY <1>3 DEF IngestInv, PipelineTypeOK, HoldsLock, LockSteps
    <2>2. CASE lock = t
      <3>1. lock' = Free
        BY <2>1, <2>2 DEF FailParse, SagaFails, HoldsLock, LockSteps, At
      <3>2. QED
        BY <1>3, <1>5, <1>6, <2>2, <3>1, LockReleased
    <2>3. CASE lock # t
      <3>1. UNCHANGED lock
        BY <2>3 DEF FailParse, SagaFails
      <3>2. QED
        BY <1>3, <1>5, <1>6, <2>1, <2>3, <3>1, LockKept
    <2>4. QED
      BY <2>2, <2>3
  <1>8. QED
    BY <1>1, <1>2, <1>3, <1>4, <1>7, StatusThenEnd

\* The claim of a row and the start of a saga: the row is read if its status
\* is the right one.
LEMMA ReadingKeeps ==
    ASSUME WorkedOn, NEW t \in Tasks, ClaimRead(t) \/ SagaStart(t)
    PROVE  WorkedOn'
  <1>1. /\ tasks[t] # Idle /\ tasks[t].pc \in {"claim", "approved"}
        /\ UNCHANGED <<rows, disk, lock, taken, requests, faults, kind>>
    BY DEF ClaimRead, SagaStart, At
  <1>2. PICK i \in Ids : i = tasks[t].id
    BY <1>1, BusyStart
  <1>3. IngestInv /\ WorkersFollow /\ RowStep /\ ArtifactStep
    BY <1>1, RowsSame DEF WorkedOn
  <1>4. CountStep /\ Quiet
    BY <1>1, <1>3 DEF CountStep, Quiet, IngestInv, PipelineTypeOK
  <1>5. ASSUME NEW u, Become(t, u), GoodTask(u), u.id = i, u.path.name = rows[i].file,
               u.pc \notin {"unlink", "record"} \cup LockSteps, Live(i),
               rows[i].status \in Active => Serves(rows[i].status, u.pc)
        PROVE  WorkedOn'
    <2>1. rows'[u.id] # NoRow /\ (Live(u.id)' => rows'[u.id].file = u.path.name)
      BY <1>1, <1>5 DEF Live
    <2>2. TaskStep /\ OthersSame(t) /\ tasks'[t] = u /\ u # Idle
      BY <1>1, <1>3, <1>5, <2>1, BecomeTask
    <2>3. HoldsLock(t)' <=> HoldsLock(t)
      BY <1>1, <1>5, <2>2 DEF HoldsLock, LockSteps
    <2>4. LockStep
      BY <1>1, <1>3, <2>2, <2>3, LockKept
    <2>5. rows'[i] = rows[i] /\ \A j \in Ids \ {i} : rows'[j] = rows[j]
      BY <1>1
    <2>6. QED
      BY <1>1, <1>2, <1>3, <1>4, <1>5, <2>2, <2>4, <2>5, OneTaskStep
  <1>6. ASSUME Become(t, Idle), Live(i) => ~ Serves(rows[i].status, tasks[t].pc)
        PROVE  WorkedOn'
    <2>1. TaskStep /\ OthersSame(t) /\ tasks'[t] = Idle
      BY <1>3, <1>6, EndTask
    <2>2. HoldsLock(t)' <=> HoldsLock(t)
      BY <1>1, <2>1 DEF HoldsLock, LockSteps
    <2>3. LockStep
      BY <1>1, <1>3, <2>1, <2>2, LockKept
    <2>4. rows'[i] = rows[i] /\ (Live(i)' <=> Live(i)) /\ \A j \in Ids \ {i} : rows'[j] = rows[j]
      BY <1>1 DEF Live
    <2>5. QED
      BY <1>1, <1>2, <1>3, <1>4, <1>6, <2>1, <2>3, <2>4, OneTaskStep
  <1>7. CASE ClaimRead(t)
    <2>1. CASE Live(i) /\ rows[i].status \in {"queued", "parse_error"}
      <3> DEFINE r == Reading("claimed", i)
                 u == [r EXCEPT !.target = NoName]
      <3>1. /\ GoodTask(r) /\ r.pc = "claimed" /\ r.id = i /\ r.path.name = rows[i].file
        BY <1>3, <2>1, ReadingGood
      <3> HIDE DEF r
      <3>2. /\ u \in Task /\ u.pc = "claimed" /\ u.id = i /\ u.path = r.path
            /\ u.project = r.project
        BY <3>1 DEF GoodTask, Task
      <3>3. Become(t, u)
        BY <1>2, <1>7, <2>1 DEF ClaimRead, Of, r
      <3> HIDE DEF u
      <3>4. GoodTask(u)
        BY <3>1, <3>2 DEF GoodTask, PathSteps
      <3>5. rows[i].status \in Active => Serves(rows[i].status, u.pc)
        BY <2>1, <3>2 DEF Active, Serves
      <3>6. QED
        BY <1>5, <2>1, <3>1, <3>2, <3>3, <3>4, <3>5 DEF LockSteps
    <2>2. CASE ~ (Live(i) /\ rows[i].status \in {"queued", "parse_error"})
      <3>1. Become(t, Idle)
        BY <1>2, <1>7, <2>2 DEF ClaimRead, Of
      <3>2. Live(i) => ~ Serves(rows[i].status, tasks[t].pc)
        BY <1>7, <2>2 DEF Serves, ClaimRead, At
      <3>3. QED
        BY <1>6, <3>1, <3>2
    <2>3. QED
      BY <2>1, <2>2
  <1>8. CASE SagaStart(t)
    <2>1. CASE Live(i) /\ rows[i].status = "approved"
      <3> DEFINE u == Reading("saga", i)
      <3>1. GoodTask(u) /\ u.pc = "saga" /\ u.id = i /\ u.path.name = rows[i].file
        BY <1>3, <2>1, ReadingGood
      <3>2. Become(t, u)
        BY <1>2, <1>8, <2>1 DEF SagaStart, Of
      <3> HIDE DEF u
      <3>3. Serves(rows[i].status, u.pc)
        BY <2>1, <3>1 DEF Serves
      <3>4. QED
        BY <1>5, <2>1, <3>1, <3>2, <3>3 DEF LockSteps
    <2>2. CASE ~ (Live(i) /\ rows[i].status = "approved")
      <3>1. Become(t, Idle)
        BY <1>2, <1>8, <2>2 DEF SagaStart, Of
      <3>2. Live(i) => ~ Serves(rows[i].status, tasks[t].pc)
        BY <1>8, <2>2 DEF Serves, SagaStart, At
      <3>3. QED
        BY <1>6, <3>1, <3>2
    <2>3. QED
      BY <2>1, <2>2
  <1>9. QED
    BY <1>7, <1>8

LEMMA OutcomeFacts ==
    ASSUME IngestInv, NEW f \in Files
    PROVE  /\ Outcomes(f) \subseteq {"awaiting_triage", "done", "approved", "parse_error"}
           /\ "done" \in Outcomes(f) => kind[f] = "image"
           /\ "approved" \in Outcomes(f) => kind[f] # "xlsx"
           /\ \A n \in TargetNames(f) : n \in Names /\ n # NoName /\ Proper(f, n)
  <1>1. kind[f] \in {"moved", "extracted", "xlsx", "image"}
    BY KindsAssumption DEF IngestInv, PipelineTypeOK
  <1>2. CASE kind[f] = "xlsx"
    BY <1>2, NameAssumption DEF Outcomes, TargetNames, Names, Proper
  <1>3. CASE kind[f] = "image"
    BY <1>3, NameAssumption DEF Outcomes, TargetNames, Names, Proper
  <1>4. CASE kind[f] \notin {"image", "xlsx"}
    BY <1>4, NameAssumption DEF Outcomes, TargetNames, Names, Proper
  <1>5. QED
    BY <1>2, <1>3, <1>4

\* The final UPDATE of a parse, whatever the row has become, and the task that
\* follows it or does not.
LEMMA WriteParsedKeeps ==
    ASSUME WorkedOn, NEW t \in Tasks, tasks[t] # Idle, tasks[t].pc \in {"parse", "switched"},
           NEW s \in {"awaiting_triage", "done", "approved", "parse_error", "rejected"},
           NEW n \in TargetNames(FileOf(t)), s = "done" => kind[FileOf(t)] = "image",
           WriteParsed(t, s, n), lock' = IF lock = t THEN Free ELSE lock,
           UNCHANGED <<disk, taken, requests, faults, kind>>
    PROVE  WorkedOn'
  <1>1. PICK i \in Ids : i = tasks[t].id
    BY BusyStart
  <1>2. IngestInv /\ WorkersFollow /\ tasks[t] \in Task /\ GoodTask(tasks[t]) /\ OfItsRow(tasks[t])
    BY BusyStart
  <1>3. /\ FileOf(t) \in Files /\ GoodPath(FileOf(t), tasks[t].path)
        /\ tasks[t].project \in Projects /\ (Live(i) => rows[i].file = FileOf(t))
    BY <1>1, <1>2 DEF GoodTask, OfItsRow, PathSteps, FileOf
  <1>4. n \in Names /\ n # NoName /\ Proper(FileOf(t), n)
    BY <1>2, <1>3, OutcomeFacts
  <1> DEFINE r == [rows[i] EXCEPT !.status = s, !.project = tasks[t].project,
                                  !.path = tasks[t].path, !.target = n]
  <1>5. Update(i, r)
    BY <1>1 DEF WriteParsed, Of
  <1>6. Live(i) => /\ r \in Row /\ r.file = rows[i].file /\ r.path = tasks[t].path
                   /\ r.status = s /\ r.target = n
    BY <1>2, <1>3, <1>4, LiveRow DEF Row, Statuses, GoodPath
  <1> HIDE DEF r
  <1>7. Live(i) => GoodRow(r)
    BY <1>3, <1>4, <1>6 DEF GoodRow
  <1>8. /\ RowStep
        /\ Live(i)' <=> Live(i)
        /\ Live(i) => rows'[i] = r
        /\ \A j \in Ids \ {i} : rows'[j] = rows[j]
    BY <1>2, <1>5, <1>6, <1>7, UpdateRow
  <1>9. Live(i)' => rows'[i].status = s /\ rows'[i].file = FileOf(t)
    BY <1>3, <1>6, <1>8
  <1>10. ArtifactStep
    BY <1>8, <1>9 DEF ArtifactStep, Inserted
  <1>11. ASSUME OthersSame(t), ~ HoldsLock(t)' PROVE LockStep
    <2>1. lock = t <=> HoldsLock(t)
      BY <1>2 DEF IngestInv, PipelineTypeOK, HoldsLock, LockSteps
    <2>2. CASE lock = t
      BY <1>2, <1>11, <2>2, LockReleased
    <2>3. CASE lock # t
      BY <1>2, <1>11, <2>1, <2>3, LockKept
    <2>4. QED
      BY <2>2, <2>3
  <1>12. CASE s = "approved"
    <2>1. Become(t, Work("approved", i))
      BY <1>1, <1>12 DEF WriteParsed, Of
    <2>2. rows'[i] # NoRow
      BY <1>1, <1>2, <1>8 DEF OfItsRow, RowStep
    <2>3. OthersSame(t) /\ tasks'[t].pc = "approved"
      BY <1>2, <2>1, <2>2, BecomeWork
    <2>4. LockStep
      BY <1>11, <2>3 DEF HoldsLock, LockSteps
    <2>5. Serves("approved", "approved")
      BY DEF Serves
    <2>6. QED
      BY <1>1, <1>8, <1>9, <1>10, <1>12, <2>1, <2>4, <2>5, StatusThenWork
  <1>13. CASE s # "approved"
    <2>1. Become(t, Idle)
      BY <1>13 DEF WriteParsed
    <2>2. TaskStep /\ OthersSame(t) /\ tasks'[t] = Idle
      BY <1>2, <2>1, EndTask
    <2>3. LockStep
      BY <1>11, <2>2 DEF HoldsLock
    <2>4. CountStep /\ Quiet
      BY <1>2 DEF CountStep, Quiet, IngestInv, PipelineTypeOK
    <2>5. Live(i)' => rows'[i].status \notin Active
      BY <1>9, <1>13 DEF Active
    <2>6. QED
      BY <1>1, <1>2, <1>8, <1>10, <2>2, <2>3, <2>4, <2>5, OneTaskStep
  <1>14. QED
    BY <1>12, <1>13

LEMMA FinishParseKeeps ==
    ASSUME WorkedOn, NEW t \in Tasks,
           \/ \E s \in Statuses, n \in Names : FinishParse(t, s, n)
           \/ \E n \in Names : FinishSwitch(t, n)
    PROVE  WorkedOn'
  <1>1. IngestInv
    BY DEF WorkedOn
  <1>2. tasks[t] # Idle /\ tasks[t].pc \in {"parse", "switched"}
    BY DEF FinishParse, FinishSwitch, At
  <1>3. FileOf(t) \in Files
    BY <1>2, BusyStart DEF GoodTask, PathSteps, FileOf
  <1>4. lock = t <=> HoldsLock(t)
    BY <1>1 DEF IngestInv, PipelineTypeOK, HoldsLock, LockSteps
  <1>5. ASSUME NEW s \in Statuses, NEW n \in Names, FinishParse(t, s, n) PROVE WorkedOn'
    <2>1. /\ s \in {"awaiting_triage", "done", "approved", "parse_error"}
          /\ s = "done" => kind[FileOf(t)] = "image"
      BY <1>1, <1>3, <1>5, OutcomeFacts DEF FinishParse
    <2>2. n \in TargetNames(FileOf(t)) /\ WriteParsed(t, s, n)
      BY <1>5 DEF FinishParse
    <2>3. lock' = IF lock = t THEN Free ELSE lock
      BY <1>4, <1>5 DEF FinishParse, At, HoldsLock, LockSteps
    <2>4. UNCHANGED <<disk, taken, requests, faults, kind>>
      BY <1>5 DEF FinishParse
    <2>5. QED
      BY <1>2, <2>1, <2>2, <2>3, <2>4, WriteParsedKeeps
  <1>6. ASSUME NEW n \in Names, FinishSwitch(t, n) PROVE WorkedOn'
    <2>1. n \in TargetNames(FileOf(t)) /\ WriteParsed(t, "approved", n)
      BY <1>6 DEF FinishSwitch
    <2>2. lock' = IF lock = t THEN Free ELSE lock
      BY <1>4, <1>6 DEF FinishSwitch, At, HoldsLock, LockSteps
    <2>3. UNCHANGED <<disk, taken, requests, faults, kind>>
      BY <1>6 DEF FinishSwitch
    <2>4. QED
      BY <1>2, <2>1, <2>2, <2>3, WriteParsedKeeps
  <1>7. QED
    BY <1>5, <1>6

-----------------------------------------------------------------------------
(* Approval, rejection, deletion and patch of a row.                       *)

LEMMA ApproveKeeps ==
    ASSUME WorkedOn, NEW t \in Tasks, NEW i \in Ids, Approve(t, i)
    PROVE  WorkedOn'
  <1>1. /\ IngestInv /\ WorkersFollow /\ tasks[t] = Idle /\ Live(i)
        /\ rows[i].target # NoName /\ SetStatus(i, "approved") /\ "approved" \in Statuses
    BY DEF WorkedOn, Approve, Statuses
  <1>2. /\ UNCHANGED <<disk, lock, taken, faults, kind>>
        /\ requests' \in 0 .. MaxRequests
    BY <1>1, BoundAssumption DEF Approve, Request, IngestInv, PipelineTypeOK
  <1>3. /\ RowStep /\ Live(i)'
        /\ rows'[i].status = "approved"
        /\ \A j \in Ids \ {i} : rows'[j] = rows[j]
    BY <1>1, <1>2, WriteStatus
  <1>4. ArtifactStep
    BY <1>3 DEF ArtifactStep, Inserted
  <1>5. TaskStep /\ OthersSame(t) /\ tasks'[t] # Idle /\ tasks'[t].id = i /\ tasks'[t].pc = "approved"
    <2>1. rows'[i] # NoRow
      BY <1>3 DEF Live
    <2>2. QED
      BY <1>1, <1>2, <2>1, BecomeWork DEF Approve
  <1>6. HoldsLock(t)' <=> HoldsLock(t)
    BY <1>1, <1>5 DEF HoldsLock, LockSteps
  <1>7. LockStep
    BY <1>1, <1>2, <1>5, <1>6, LockKept
  <1>8. CountStep /\ Quiet
    BY <1>1, <1>2 DEF CountStep, Quiet, IngestInv, PipelineTypeOK
  <1>9. Serves(rows'[i].status, tasks'[t].pc)
    BY <1>3, <1>5 DEF Serves
  <1>10. QED
    BY <1>1, <1>2, <1>3, <1>4, <1>5, <1>7, <1>8, <1>9, OneTaskStep

LEMMA RejectKeeps ==
    ASSUME WorkedOn, NEW i \in Ids, Reject(i)
    PROVE  WorkedOn'
  <1>1. /\ IngestInv /\ WorkersFollow /\ Live(i) /\ SetStatus(i, "rejected")
        /\ "rejected" \in Statuses
    BY DEF WorkedOn, Reject, Statuses
  <1>2. /\ UNCHANGED <<disk, tasks, lock, taken, faults, kind>>
        /\ requests' \in 0 .. MaxRequests
    BY <1>1, BoundAssumption DEF Reject, Request, IngestInv, PipelineTypeOK
  <1>3. /\ RowStep
        /\ rows'[i].status = "rejected"
        /\ \A j \in Ids \ {i} : rows'[j] = rows[j]
    BY <1>1, <1>2, WriteStatus
  <1>4. ArtifactStep
    BY <1>3 DEF ArtifactStep, Inserted
  <1>5. TaskStep /\ LockStep /\ CountStep /\ Quiet
    BY <1>1, <1>2
       DEF IngestInv, PipelineTypeOK, TaskStep, LockStep, CountStep, Quiet, HoldsLock, LockSteps
  <1>6. IngestInv'
    BY <1>1, <1>2, <1>3, <1>4, <1>5, QuietKeeps
  <1>7. WorkersFollow'
    BY <1>1, <1>2, <1>3 DEF WorkersFollow, Live, Active
  <1>8. QED
    BY <1>6, <1>7 DEF WorkedOn

\* A request that reads the row before it waits for the lock.
LEMMA DeleteKeeps ==
    ASSUME WorkedOn, NEW t \in Tasks, NEW i \in Ids,
           Delete(t, i) \/ \E q \in Projects : Patch(t, i, q)
    PROVE  WorkedOn'
  <1>1. IngestInv /\ WorkersFollow /\ tasks[t] = Idle /\ Live(i)
    BY DEF WorkedOn, Delete, Patch
  <1>2. /\ UNCHANGED <<rows, disk, lock, taken, faults, kind>>
        /\ requests' \in 0 .. MaxRequests
    <2>1. Request /\ UNCHANGED <<rows, disk, lock, taken, faults, kind>>
      BY DEF Delete, Patch
    <2>2. QED
      BY <1>1, <2>1, BoundAssumption DEF Request, IngestInv, PipelineTypeOK
  <1>3. RowStep /\ ArtifactStep
    BY <1>1, <1>2, RowsSame
  <1>4. ASSUME NEW u, Become(t, u), GoodTask(u), u.pc \in {"delete", "patch"}, u.id = i,
               u.path.name = rows[i].file
        PROVE  WorkedOn'
    <2>1. rows'[u.id] # NoRow /\ (Live(u.id)' => rows'[u.id].file = u.path.name)
      BY <1>1, <1>2, <1>4 DEF Live
    <2>2. TaskStep /\ OthersSame(t) /\ tasks'[t] = u /\ u # Idle
      BY <1>1, <1>2, <1>4, <2>1, BecomeTask
    <2>3. HoldsLock(t)' <=> HoldsLock(t)
      BY <1>1, <1>4, <2>2 DEF HoldsLock, LockSteps
    <2>4. LockStep
      BY <1>1, <1>2, <2>2, <2>3, LockKept
    <2>5. CountStep /\ Quiet
      BY <1>1, <1>2 DEF CountStep, Quiet, IngestInv, PipelineTypeOK
    <2>6. rows'[i] = rows[i]
      BY <1>2
    <2>7. QED
      BY <1>1, <1>2, <1>3, <1>4, <2>2, <2>4, <2>5, <2>6, OneTaskStep
  <1> DEFINE r == Reading("delete", i)
  <1>5. GoodTask(r) /\ r.pc = "delete" /\ r.id = i /\ r.path.name = rows[i].file
    BY <1>1, ReadingGood
  <1>6. CASE Delete(t, i)
    <2>1. Become(t, r)
      BY <1>6 DEF Delete
    <2> HIDE DEF r
    <2>2. QED
      BY <1>4, <1>5, <2>1
  <1>7. ASSUME NEW q \in Projects, Patch(t, i, q) PROVE WorkedOn'
    <2> DEFINE u == [Reading("patch", i) EXCEPT !.project = q, !.target = NoName]
    <2>1. rows[i] \in Row /\ GoodRow(rows[i])
      BY <1>1, LiveRow
    <2>2. /\ u \in Task /\ u.pc = "patch" /\ u.id = i /\ u.path = rows[i].path
          /\ u.project = q
      BY <1>7, <2>1 DEF Reading, Task, Row, RequestSteps
    <2>3. Become(t, u)
      BY <1>7 DEF Patch
    <2> HIDE DEF u
    <2>4. rows[i].path # Input(q, rows[i].path.name)
      BY <1>7, <2>1, NoFileAssumption DEF Patch, GoodRow, GoodPath, Row
    <2>5. GoodTask(u) /\ u.path.name = rows[i].file
      BY <2>1, <2>2, <2>4 DEF GoodTask, GoodRow, GoodPath, Row
    <2>6. QED
      BY <1>4, <2>2, <2>3, <2>5
  <1>8. QED
    BY <1>6, <1>7

LEMMA DeleteRowKeeps ==
    ASSUME WorkedOn, NEW t \in Tasks, DeleteRow(t)
    PROVE  WorkedOn'
  <1>1. /\ tasks[t] # Idle /\ tasks[t].pc = "deleting" /\ Become(t, Idle) /\ lock' = Free
        /\ UNCHANGED <<disk, taken, requests, faults, kind>>
    BY DEF DeleteRow, At
  <1>2. PICK i \in Ids : i = tasks[t].id
    BY <1>1, BusyStart
  <1>3. IngestInv /\ WorkersFollow /\ rows' = [rows EXCEPT ![i] = Gone]
    BY <1>2 DEF WorkedOn, DeleteRow, Of
  <1>4. /\ RowStep /\ ArtifactStep /\ ~ Live(i)'
        /\ \A j \in Ids \ {i} : rows'[j] = rows[j]
    BY <1>3, RowAssumption
       DEF IngestInv, PipelineTypeOK, RowStep, ArtifactStep, Inserted, Live
  <1>5. TaskStep /\ OthersSame(t) /\ tasks'[t] = Idle
    BY <1>1, <1>3, EndTask
  <1>6. lock = t /\ ~ HoldsLock(t)'
    BY <1>1, <1>3, <1>5 DEF IngestInv, PipelineTypeOK, HoldsLock, LockSteps
  <1>7. LockStep
    BY <1>1, <1>3, <1>5, <1>6, LockReleased
  <1>8. CountStep /\ Quiet
    BY <1>1, <1>3 DEF CountStep, Quiet, IngestInv, PipelineTypeOK
  <1>9. QED
    BY <1>1, <1>2, <1>3, <1>4, <1>5, <1>7, <1>8, OneTaskStep

\* A patch that gives up, or commits the row's new place under the lock.
LEMMA PatchCommitKeeps ==
    ASSUME WorkedOn, NEW t \in Tasks, PatchCommit(t)
    PROVE  WorkedOn'
  <1>1. /\ tasks[t] # Idle /\ tasks[t].pc = "patch" /\ lock = Free
        /\ UNCHANGED <<disk, taken, requests, faults, kind>>
    BY DEF PatchCommit, At
  <1>2. PICK i \in Ids : i = tasks[t].id
    BY <1>1, BusyStart
  <1>3. /\ IngestInv /\ WorkersFollow /\ tasks[t] \in Task /\ GoodTask(tasks[t])
        /\ OfItsRow(tasks[t])
    BY <1>1, BusyStart
  <1>4. CountStep /\ Quiet
    BY <1>1, <1>3 DEF CountStep, Quiet, IngestInv, PipelineTypeOK
  <1>5. \A s : ~ Serves(s, tasks[t].pc)
    BY <1>1 DEF Serves
  <1>6. CASE Become(t, Idle) /\ UNCHANGED <<rows, lock>>
    <2>1. RowStep /\ ArtifactStep
      BY <1>3, <1>6, RowsSame
    <2>2. TaskStep /\ OthersSame(t) /\ tasks'[t] = Idle
      BY <1>3, <1>6, EndTask
    <2>3. HoldsLock(t)' <=> HoldsLock(t)
      BY <1>1, <2>2 DEF HoldsLock, LockSteps
    <2>4. LockStep
      BY <1>3, <1>6, <2>2, <2>3, LockKept
    <2>5. rows'[i] = rows[i] /\ (Live(i)' <=> Live(i))
      BY <1>6 DEF Live
    <2>6. QED
      BY <1>1, <1>2, <1>3, <1>4, <1>5, <1>6, <2>1, <2>2, <2>4, <2>5, OneTaskStep
  <1>7. ASSUME NEW q, q = tasks[t].project, NEW f, f = FileOf(t),
               Update(i, [rows[i] EXCEPT !.project = q, !.path = Input(q, f)]),
               lock' = t, GoTo(t, "move")
        PROVE  WorkedOn'
    <2> DEFINE r == [rows[i] EXCEPT !.project = q, !.path = Input(q, f)]
    <2>1. q \in Projects /\ f \in Files /\ (Live(i) => rows[i].file = f)
      BY <1>1, <1>2, <1>3, <1>7 DEF GoodTask, OfItsRow, PathSteps, FileOf
    <2>2. Input(q, f) \in Inputs /\ Input(q, f) \notin Targets /\ Input(q, f).name = f
      BY <2>1 DEF Input, Inputs, Targets
    <2>3. Live(i) => rows[i] \in Row /\ GoodRow(rows[i])
      BY <1>3, LiveRow
    <2>4. Live(i) => /\ r \in Row /\ r.file = rows[i].file /\ r.path = Input(q, f)
                     /\ r.status = rows[i].status /\ r.target = rows[i].target
      BY <2>1, <2>2, <2>3 DEF Row, Locations
    <2>5. Update(i, r)
      BY <1>7
    <2> HIDE DEF r
    <2>6. Live(i) => GoodRow(r) /\ r.file = rows[i].file
      BY <2>1, <2>2, <2>3, <2>4 DEF GoodRow, GoodPath, Locations
    <2>7. /\ RowStep
          /\ Live(i)' <=> Live(i)
          /\ Live(i) => rows'[i] = r
          /\ \A j \in Ids \ {i} : rows'[j] = rows[j]
      BY <1>1, <1>3, <2>5, <2>6, UpdateRow
    <2>8. ArtifactStep
      BY <2>4, <2>7 DEF ArtifactStep, Inserted
    <2>9. "move" \in Steps /\ tasks[t].pc \in PathSteps /\ "move" \notin Placing
      BY <1>1 DEF Steps, RequestSteps, PathSteps, Placing
    <2>10. TaskStep /\ OthersSame(t) /\ tasks'[t] # Idle /\ tasks'[t].pc = "move" /\ tasks'[t].id = i
      BY <1>1, <1>2, <1>3, <1>7, <2>7, <2>9, MoveTask
    <2>11. LockStep
      <3>1. HoldsLock(t)'
        BY <2>10 DEF HoldsLock, LockSteps
      <3>2. QED
        BY <1>1, <1>3, <1>7, <2>10, <3>1, LockTaken
    <2>12. Live(i)' => Live(i) /\ rows'[i].status = rows[i].status
      BY <2>4, <2>7
    <2>13. QED
      BY <1>1, <1>2, <1>3, <1>4, <1>5, <2>7, <2>8, <2>10, <2>11, <2>12, OneTaskStep
  <1>8. QED
    BY <1>2, <1>6, <1>7 DEF PatchCommit, Of

-----------------------------------------------------------------------------
(* The ends of a saga, and crashes.                                        *)

\* A spreadsheet found in place: the saga goes on with the artifact there is.
LEMMA SagaRecoverKeeps ==
    ASSUME WorkedOn, NEW t \in Tasks, SagaRecover(t)
    PROVE  WorkedOn'
  <1> DEFINE u == [tasks[t] EXCEPT !.pc = "record", !.target = FileOf(t)]
  <1>1. /\ tasks[t] # Idle /\ tasks[t].pc = "saga" /\ Become(t, u)
        /\ UNCHANGED <<rows, disk, lock, taken, requests, faults, kind>>
    BY DEF SagaRecover, At
  <1>2. PICK i \in Ids : i = tasks[t].id
    BY <1>1, BusyStart
  <1>3. /\ IngestInv /\ WorkersFollow /\ tasks[t] \in Task /\ GoodTask(tasks[t])
        /\ OfItsRow(tasks[t])
    BY <1>1, BusyStart
  <1>4. /\ FileOf(t) \in Files /\ FileOf(t) = tasks[t].path.name
        /\ (Live(i) => rows[i].file = FileOf(t)) /\ rows[i] # NoRow
    BY <1>1, <1>2, <1>3 DEF GoodTask, OfItsRow, PathSteps, FileOf
  <1>5. /\ u \in Task /\ u.pc = "record" /\ u.id = i /\ u.path = tasks[t].path
        /\ u.project = tasks[t].project /\ u.target = FileOf(t)
    BY <1>2, <1>3, <1>4 DEF Task, Names, SagaSteps
  <1>6. GoodTask(u)
    <2> HIDE DEF u
    <2>1. QED
      BY <1>1, <1>3, <1>4, <1>5 DEF GoodTask, PathSteps, Proper
  <1>7. TaskStep /\ OthersSame(t) /\ tasks'[t] = u /\ u # Idle
    <2>1. PICK v : v = u
      OBVIOUS
    <2> HIDE DEF u
    <2>2. /\ GoodTask(v) /\ Become(t, v) /\ rows'[v.id] # NoRow
          /\ Live(v.id)' => rows'[v.id].file = v.path.name
      BY <1>1, <1>4, <1>5, <1>6, <2>1 DEF Live
    <2>3. QED
      BY <1>1, <1>3, <2>1, <2>2, BecomeTask
  <1> HIDE DEF u
  <1>8. RowStep /\ ArtifactStep /\ CountStep /\ Quiet
    BY <1>1, <1>3, RowsSame DEF CountStep, Quiet, IngestInv, PipelineTypeOK
  <1>9. HoldsLock(t)' <=> HoldsLock(t)
    BY <1>1, <1>5, <1>7 DEF HoldsLock, LockSteps
  <1>10. LockStep
    BY <1>1, <1>3, <1>7, <1>9, LockKept
  <1>11. Backed(tasks[t])'
    <2>1. disk[Target(tasks[t].project, FileOf(t))] = FileOf(t)
      BY DEF SagaRecover
    <2>2. QED
      BY <1>1, <1>4, <1>5, <1>7, <2>1 DEF Backed
  <1>12. \A x \in Tasks : \/ tasks'[x] = tasks[x]
                          \/ /\ ~ At(x, "unlink")'
                             /\ At(x, "record")' => Backed(tasks[x])'
    BY <1>5, <1>7, <1>11 DEF OthersSame, At
  <1>13. IngestInv'
    BY <1>3, <1>7, <1>8, <1>10, <1>12, QuietKeeps
  <1>14. /\ \A j \in Ids \ {i} : rows'[j] = rows[j]
         /\ rows'[i] = rows[i] /\ (Live(i)' <=> Live(i))
    BY <1>1 DEF Live
  <1>15. Serves(rows[i].status, tasks[t].pc) => Serves(rows[i].status, tasks'[t].pc)
    BY <1>1, <1>5, <1>7 DEF Serves
  <1>16. tasks'[t].id = i
    BY <1>5, <1>7
  <1>17. WorkersFollow'
    BY <1>1, <1>2, <1>3, <1>7, <1>14, <1>15, <1>16, WorkersKept
  <1>18. QED
    BY <1>13, <1>17 DEF WorkedOn

\* The row of an artifact that is in place says so, if it is still approved.
LEMMA SagaRecordKeeps ==
    ASSUME WorkedOn, NEW t \in Tasks, SagaRecord(t)
    PROVE  WorkedOn'
  <1>1. /\ tasks[t] # Idle /\ tasks[t].pc = "record"
        /\ UNCHANGED <<disk, lock, taken, requests, faults, kind>>
    BY DEF SagaRecord, At
  <1>2. PICK i \in Ids : i = tasks[t].id
    BY <1>1, BusyStart
  <1>3. /\ IngestInv /\ WorkersFollow /\ tasks[t] \in Task /\ GoodTask(tasks[t])
        /\ OfItsRow(tasks[t]) /\ rows[i] # NoRow
    BY <1>1, <1>2, BusyStart DEF OfItsRow
  <1>4. Become(t, Work("finish", i))
    BY <1>2 DEF SagaRecord, Of
  <1>5. ASSUME RowStep PROVE LockStep
    <2>1. rows'[i] # NoRow
      BY <1>3, <1>5 DEF RowStep
    <2>2. OthersSame(t) /\ tasks'[t].pc = "finish"
      BY <1>1, <1>3, <1>4, <2>1, BecomeWork
    <2>3. HoldsLock(t)' <=> HoldsLock(t)
      BY <1>1, <2>2 DEF HoldsLock, LockSteps
    <2>4. QED
      BY <1>1, <1>3, <2>2, <2>3, LockKept
  <1>6. CASE Live(i) /\ rows[i].status = "approved"
    <2> DEFINE to == Target(tasks[t].project, tasks[t].target)
               l == IF kind[FileOf(t)] = "xlsx" THEN to ELSE tasks[t].path
               r == [rows[i] EXCEPT !.status = "inserted", !.target = tasks[t].target, !.path = l]
    <2>1. Update(i, r)
      BY <1>2, <1>6 DEF SagaRecord, Of
    <2>2. /\ FileOf(t) \in Files /\ FileOf(t) = tasks[t].path.name
          /\ GoodPath(FileOf(t), tasks[t].path)
          /\ tasks[t].project \in Projects /\ rows[i].file = FileOf(t)
          /\ Proper(FileOf(t), tasks[t].target)
      BY <1>1, <1>2, <1>3, <1>6 DEF GoodTask, OfItsRow, PathSteps, FileOf
    <2>3. tasks[t].target \in Names /\ tasks[t].target # NoName
      BY <2>2, NameAssumption DEF Proper, Names
    <2>4. to \in Targets /\ to.name = tasks[t].target
      BY <2>2, <2>3 DEF Target, Targets
    <2>5. l \in Locations /\ GoodPath(FileOf(t), l)
      BY <2>2, <2>4 DEF GoodPath, Locations, Proper
    <2> HIDE DEF l
    <2>6. rows[i] \in Row /\ GoodRow(rows[i])
      BY <1>3, <1>6, LiveRow
    <2>7. /\ r \in Row /\ r.file = FileOf(t) /\ r.path = l /\ r.status = "inserted"
          /\ r.target = tasks[t].target
      BY <2>2, <2>3, <2>5, <2>6 DEF Row, Statuses
    <2> HIDE DEF r
    <2>8. GoodRow(r) /\ r.file = rows[i].file
      BY <2>2, <2>3, <2>5, <2>7 DEF GoodRow
    <2>9. /\ RowStep
          /\ rows'[i] = r
          /\ \A j \in Ids \ {i} : rows'[j] = rows[j]
      BY <1>1, <1>3, <1>6, <2>1, <2>8, UpdateRow
    <2>10. ArtifactStep
      <3>1. Backed(tasks[t])
        BY <1>1, <1>3 DEF IngestInv, RecordsBacked, At
      <3>2. HasArtifact(i)'
        BY <1>1, <2>2, <2>7, <2>9, <3>1 DEF Backed, HasArtifact
      <3>3. QED
        BY <2>9, <3>2 DEF ArtifactStep
    <2>11. LockStep
      BY <1>5, <2>9
    <2>12. Serves(rows'[i].status, "finish")
      BY <2>7, <2>9 DEF Serves
    <2>13. QED
      BY <1>1, <1>2, <1>4, <2>9, <2>10, <2>11, <2>12, StatusThenWork
  <1>7. CASE ~ (Live(i) /\ rows[i].status = "approved")
    <2>1. UNCHANGED rows
      BY <1>2, <1>7 DEF SagaRecord, Of
    <2>2. RowStep /\ ArtifactStep
      BY <1>3, <2>1, RowsSame
    <2>3. Live(i) => ~ Serves(rows[i].status, tasks[t].pc)
      BY <1>1, <1>7 DEF Serves
    <2>4. rows'[i] = rows[i] /\ (Live(i)' <=> Live(i)) /\ \A j \in Ids \ {i} : rows'[j] = rows[j]
      BY <2>1 DEF Live
    <2>5. LockStep
      BY <1>5, <2>2
    <2>6. QED
      BY <1>1, <1>2, <1>4, <2>2, <2>3, <2>4, <2>5, StatusThenWork
  <1>8. QED
    BY <1>6, <1>7

LEMMA SagaFinishKeeps ==
    ASSUME WorkedOn, NEW t \in Tasks, SagaFinish(t)
    PROVE  WorkedOn'
  <1>1. /\ tasks[t] # Idle /\ tasks[t].pc = "finish" /\ Become(t, Idle)
        /\ UNCHANGED <<disk, lock, taken, requests, faults, kind>>
    BY DEF SagaFinish, At
  <1>2. PICK i \in Ids : i = tasks[t].id
    BY <1>1, BusyStart
  <1>3. IngestInv /\ {"done", "queued"} \subseteq Statuses /\ "done" \notin Active
    BY DEF WorkedOn, Statuses, Active
  <1>4. OthersSame(t) /\ tasks'[t] = Idle
    BY <1>1, <1>3, EndTask
  <1>5. HoldsLock(t)' <=> HoldsLock(t)
    BY <1>1, <1>4 DEF HoldsLock, LockSteps
  <1>6. LockStep
    BY <1>1, <1>3, <1>4, <1>5, LockKept
  <1>7. CASE Live(i) /\ rows[i].status = "inserted"
    <2>1. SetStatus(i, "done")
      BY <1>2, <1>7 DEF SagaFinish, Of
    <2>2. QED
      BY <1>1, <1>2, <1>3, <1>6, <1>7, <2>1, StatusThenEnd
  <1>8. CASE ~ (Live(i) /\ rows[i].status = "inserted")
    <2>1. UNCHANGED rows /\ (Live(i) => ~ Serves(rows[i].status, tasks[t].pc))
      BY <1>1, <1>2, <1>8 DEF SagaFinish, Of, Serves
    <2>2. QED
      BY <1>1, <1>2, <1>3, <1>6, <2>1, StatusThenEnd
  <1>9. QED
    BY <1>7, <1>8

LEMMA CrashKeeps ==
    ASSUME WorkedOn, NEW dead \in SUBSET Tasks, Crash(dead)
    PROVE  WorkedOn'
  <1>1. /\ IngestInv /\ UNCHANGED <<rows, disk, taken, requests, kind>>
        /\ faults < MaxFaults /\ faults' = faults + 1
        /\ tasks' = [t \in Tasks |-> IF t \in dead THEN Idle ELSE tasks[t]]
        /\ lock' = IF lock \in dead THEN Free ELSE lock
    BY DEF WorkedOn, Crash
  <1>2. faults \in 0 .. MaxFaults /\ tasks \in [Tasks -> Task \cup {Idle}]
    BY <1>1 DEF IngestInv, PipelineTypeOK
  <1>3. faults' \in 0 .. MaxFaults /\ faults' # 0
    BY <1>1, <1>2, BoundAssumption
  <1>4. RowStep /\ ArtifactStep
    BY <1>1, RowsSame
  <1>5. TaskStep
    BY <1>1, <1>2 DEF TaskStep
  <1>6. LockStep
    <2>1. lock \in Tasks \cup {Free} /\ \A t \in Tasks : lock = t <=> HoldsLock(t)
      BY <1>1 DEF IngestInv, PipelineTypeOK, HoldsLock, LockSteps
    <2>2. \A t \in Tasks : HoldsLock(t)' <=> HoldsLock(t) /\ t \notin dead
      BY <1>1 DEF HoldsLock
    <2>3. QED
      BY <1>1, <2>1, <2>2, FreeAssumption DEF LockStep
  <1>7. CountStep /\ Quiet
    BY <1>1, <1>3 DEF CountStep, Quiet, IngestInv, PipelineTypeOK
  <1>8. \A t \in Tasks : tasks'[t] = tasks[t] \/ tasks'[t] = Idle
    BY <1>1
  <1>9. IngestInv'
    BY <1>1, <1>4, <1>5, <1>6, <1>7, <1>8, QuietKeeps DEF At
  <1>10. QED
    BY <1>3, <1>9 DEF WorkedOn, WorkersFollow

-----------------------------------------------------------------------------
(* The steps that change files.  All of them hold the project lock.        *)

LEMMA LockedOut ==
    ASSUME IngestInv, NEW t \in Tasks, lock \in {Free, t}
    PROVE  \A x \in Tasks \ {t} : ~ At(x, "unlink")
  BY FreeAssumption DEF IngestInv, PipelineTypeOK, At

\* A step of one task on the files, under the lock, that writes no row.
LEMMA FileStep ==
    ASSUME WorkedOn, NEW t \in Tasks, lock \in {Free, t}, tasks[t] # Idle,
           UNCHANGED <<rows, requests, faults, kind>>,
           TaskStep, OthersSame(t), tasks'[t] # Idle => tasks'[t].id = tasks[t].id, LockStep,
           disk' \in [Locations -> Files \cup {NoFile}], taken' \subseteq Targets \X Files,
           DigestNames',
           \A l \in Targets, f \in Files :
                disk[l] = f \/ <<l, f>> \in taken => disk'[l] = f \/ <<l, f>> \in taken',
           At(t, "unlink")' => /\ tasks'[t].path \in Inputs
                               /\ disk'[Target(tasks'[t].project, tasks'[t].target)] = FileOf(t)',
           At(t, "record")' => Backed(tasks[t])',
           \A s \in Statuses : Serves(s, tasks[t].pc) =>
                tasks'[t] # Idle /\ Serves(s, tasks'[t].pc)
    PROVE  WorkedOn'
  <1>1. PICK i \in Ids : i = tasks[t].id
    BY BusyStart
  <1>2. IngestInv /\ WorkersFollow
    BY DEF WorkedOn
  <1>3. RowStep /\ ArtifactStep /\ CountStep
    BY <1>2, RowsSame DEF CountStep, IngestInv, PipelineTypeOK
  <1>4. UnlinksSafe'
    <2>1. ASSUME NEW x \in Tasks \ {t} PROVE ~ At(x, "unlink")'
      BY <1>2, LockedOut DEF OthersSame, At
    <2>2. QED
      BY <2>1 DEF UnlinksSafe
  <1>5. \A x \in Tasks : tasks'[x] = tasks[x] \/ (At(x, "record")' => Backed(tasks[x])')
    BY DEF OthersSame
  <1>6. IngestInv'
    BY <1>2, <1>3, <1>4, <1>5, LoudKeeps
  <1>7. Live(i) => rows[i].status \in Statuses
    BY <1>2, LiveRow DEF Row
  <1>8. rows'[i] = rows[i] /\ (Live(i)' <=> Live(i)) /\ \A j \in Ids \ {i} : rows'[j] = rows[j]
    BY DEF Live
  <1>9. WorkersFollow'
    BY <1>1, <1>2, <1>7, <1>8, WorkersKept
  <1>10. QED
    BY <1>6, <1>9 DEF WorkedOn

\* Content under a name made of a digest.
LEMMA Digested ==
    ASSUME IngestInv, NEW l \in Locations, l.name \in Files
    PROVE  disk[l] = NoFile \/ disk[l] = l.name
  BY DEF IngestInv, DigestNames

LEMMA PlaceFacts ==
    ASSUME NEW p \in Projects
    PROVE  /\ \A f \in Files : /\ Input(p, f) \in Inputs /\ Input(p, f) \notin Targets
                               /\ Input(p, f) \in Locations /\ Input(p, f).name = f
                               /\ Input(p, f).project = p
           /\ \A n \in Names : /\ Target(p, n) \in Targets /\ Target(p, n) \notin Inputs
                               /\ Target(p, n) \in Locations /\ Target(p, n).name = n
                               /\ Target(p, n).project = p
  BY DEF Input, Inputs, Target, Targets, Locations

LEMMA PlaceOf ==
    ASSUME NEW l \in Locations
    PROVE  /\ l \in Inputs => l \notin Targets /\ l.name \in Files
           /\ l \in Targets => l \notin Inputs /\ l.project \in Projects /\ l.name \in Names
                               /\ l = Target(l.project, l.name)
  BY DEF Inputs, Target, Targets, Locations

LEMMA DeleteFilesKeeps ==
    ASSUME WorkedOn, NEW t \in Tasks, DeleteFiles(t)
    PROVE  WorkedOn'
  <1>1. /\ tasks[t] # Idle /\ tasks[t].pc = "delete" /\ lock = Free /\ lock' = t
        /\ GoTo(t, "deleting") /\ UNCHANGED <<rows, requests, faults, kind>>
        /\ disk' = [l \in Locations |-> IF l \in Named(t) THEN NoFile ELSE disk[l]]
        /\ taken' = taken \cup {<<l, disk[l]>> : l \in {k \in Named(t) \cap Targets : disk[k] # NoFile}}
    BY DEF DeleteFiles, At
  <1>2. IngestInv /\ WorkersFollow
    BY DEF WorkedOn
  <1>3. /\ disk \in [Locations -> Files \cup {NoFile}] /\ taken \subseteq Targets \X Files
        /\ Targets \subseteq Locations
    BY <1>2 DEF IngestInv, PipelineTypeOK, Locations
  <1>4. "deleting" \in Steps /\ tasks[t].pc \in PathSteps /\ "deleting" \notin Placing
    BY <1>1 DEF Steps, RequestSteps, PathSteps, Placing
  <1>5. RowStep
    BY <1>1, <1>2, RowsSame
  <1>6. /\ TaskStep /\ OthersSame(t) /\ tasks'[t] # Idle /\ tasks'[t].pc = "deleting"
        /\ tasks'[t].id = tasks[t].id
    BY <1>1, <1>2, <1>4, <1>5, MoveTask
  <1>7. LockStep
    <2>1. HoldsLock(t)'
      BY <1>6 DEF HoldsLock, LockSteps
    <2>2. QED
      BY <1>1, <1>2, <1>6, <2>1, LockTaken
  <1>8. disk' \in [Locations -> Files \cup {NoFile}]
    BY <1>1, <1>3
  <1>9. taken' \subseteq Targets \X Files
    BY <1>1, <1>3
  <1>10. DigestNames'
    BY <1>1, <1>2, <1>3 DEF IngestInv, DigestNames
  <1>11. \A l \in Targets, f \in Files :
            disk[l] = f \/ <<l, f>> \in taken => disk'[l] = f \/ <<l, f>> \in taken'
    BY <1>1, <1>3, NoFileAssumption
  <1>12. ~ At(t, "unlink")' /\ ~ At(t, "record")' /\ \A s : ~ Serves(s, tasks[t].pc)
    BY <1>1, <1>6 DEF At, Serves
  <1>13. QED
    BY <1>1, <1>6, <1>7, <1>8, <1>9, <1>10, <1>11, <1>12, FileStep

\* What a patch's move does to the files: one content changes its place.
LEMMA PatchMoveFiles ==
    ASSUME IngestInv, NEW t \in Tasks, PatchMove(t)
    PROVE  LET f == FileOf(t)
               from == tasks[t].path
               to == Input(tasks[t].project, f)
           IN  /\ f \in Files /\ from \in Locations /\ from.name = f /\ to \in Inputs
               /\ from # to
               /\ disk' = [disk EXCEPT ![to] = f, ![from] = NoFile]
               /\ disk[from] \in {NoFile, f} /\ disk[to] \in {NoFile, f}
               /\ taken' = taken \cup ({<<from, f>>} \cap Targets \X Files)
  <1>1. tasks[t] # Idle /\ tasks[t].pc = "move"
    BY DEF PatchMove, At
  <1>2. /\ FileOf(t) \in Files /\ tasks[t].path \in Locations /\ tasks[t].path.name = FileOf(t)
        /\ tasks[t].project \in Projects /\ tasks[t].path # Input(tasks[t].project, FileOf(t))
    BY <1>1, BusyTask DEF GoodTask, PathSteps, GoodPath, FileOf
  <1>3. Input(tasks[t].project, FileOf(t)) \in Inputs
    BY <1>2, PlaceFacts
  <1>4. disk[tasks[t].path] \in {NoFile, FileOf(t)}
    BY <1>2, Digested
  <1>5. disk[Input(tasks[t].project, FileOf(t))] \in {NoFile, FileOf(t)}
    BY <1>2, PlaceFacts, Digested
  <1>6. QED
    BY <1>2, <1>3, <1>4, <1>5 DEF PatchMove

LEMMA PatchMoveKeeps ==
    ASSUME WorkedOn, NEW t \in Tasks, PatchMove(t)
    PROVE  WorkedOn'
  <1>1. /\ tasks[t] # Idle /\ tasks[t].pc = "move" /\ lock' = Free
        /\ Become(t, Idle) /\ UNCHANGED <<rows, requests, faults, kind>>
    BY DEF PatchMove, At
  <1>2. IngestInv /\ WorkersFollow
    BY DEF WorkedOn
  <1>3. /\ disk \in [Locations -> Files \cup {NoFile}] /\ taken \subseteq Targets \X Files
        /\ Targets \subseteq Locations /\ Inputs \subseteq Locations
    BY <1>2 DEF IngestInv, PipelineTypeOK, Locations
  <1>4. PICK f, from, to :
            /\ f \in Files /\ from \in Locations /\ from.name = f /\ to \in Inputs
            /\ to = Input(tasks[t].project, f)
            /\ disk' = [disk EXCEPT ![to] = f, ![from] = NoFile]
            /\ disk[from] \in {NoFile, f} /\ disk[to] \in {NoFile, f}
            /\ taken' = taken \cup ({<<from, f>>} \cap Targets \X Files)
    BY <1>2, PatchMoveFiles
  <1>5. to \in Locations /\ to \notin Targets
    BY <1>3, <1>4, PlaceOf
  <1>6. to.name = f
    BY <1>4 DEF Input
  <1>7. TaskStep /\ OthersSame(t) /\ tasks'[t] = Idle
    BY <1>1, <1>2, EndTask
  <1>8. lock = t /\ ~ HoldsLock(t)'
    BY <1>1, <1>2, <1>7 DEF IngestInv, PipelineTypeOK, HoldsLock, LockSteps
  <1>9. LockStep
    BY <1>1, <1>2, <1>7, <1>8, LockReleased
  <1>10. disk' \in [Locations -> Files \cup {NoFile}]
    BY <1>3, <1>4, <1>5
  <1>11. taken' \subseteq Targets \X Files
    BY <1>3, <1>4
  <1>12. DigestNames'
    BY <1>2, <1>3, <1>4, <1>5, <1>6 DEF IngestInv, DigestNames, Input
  <1>13. \A l \in Targets, g \in Files :
            disk[l] = g \/ <<l, g>> \in taken => disk'[l] = g \/ <<l, g>> \in taken'
    BY <1>3, <1>4, <1>5, NoFileAssumption
  <1>14. ~ At(t, "unlink")' /\ ~ At(t, "record")' /\ \A s : ~ Serves(s, tasks[t].pc)
    BY <1>1, <1>7 DEF At, Serves
  <1>15. QED
    BY <1>1, <1>7, <1>8, <1>9, <1>10, <1>11, <1>12, <1>13, <1>14, FileStep

\* A file that is routed elsewhere leaves an input folder and gets into another.
LEMMA SwitchFiles ==
    ASSUME IngestInv, NEW t \in Tasks, NEW q \in Projects, Switch(t, q), ~ UNCHANGED disk
    PROVE  \E f, from, to :
            /\ f = FileOf(t) /\ f \in Files /\ from = tasks[t].path
            /\ from \in Inputs /\ from.name = f /\ to \in Inputs /\ from # to
            /\ to.name = f /\ disk[from] = f /\ disk[to] = NoFile
            /\ disk' = [disk EXCEPT ![to] = f, ![from] = NoFile]
            /\ lock' = t /\ UNCHANGED rows
            /\ Become(t, [tasks[t] EXCEPT !.pc = "switched", !.project = q, !.path = to])
  <1> DEFINE f == FileOf(t)
             from == tasks[t].path
             to == Input(q, f)
  <1>1. tasks[t] # Idle /\ tasks[t].pc = "parse"
    BY DEF Switch, At
  <1>2. f \in Files /\ GoodPath(f, from)
    BY <1>1, BusyTask DEF GoodTask, PathSteps, GoodPath, FileOf
  <1>3. kind[f] # "xlsx"
    BY <1>2, OutcomeFacts DEF Switch
  <1>4. from \in Inputs /\ from \in Locations /\ from.name = f
    BY <1>2, <1>3 DEF GoodPath, Locations
  <1>5. to \in Inputs /\ to.name = f
    BY <1>2, PlaceFacts
  <1>6. /\ disk[to] = NoFile /\ disk[from] # NoFile
        /\ disk' = [disk EXCEPT ![to] = f, ![from] = NoFile]
        /\ lock' = t /\ UNCHANGED rows
        /\ Become(t, [tasks[t] EXCEPT !.pc = "switched", !.project = q, !.path = to])
    BY DEF Switch
  <1>7. disk[from] = f
    BY <1>2, <1>4, <1>6, Digested
  <1>8. f = FileOf(t) /\ from = tasks[t].path
    OBVIOUS
  <1> HIDE DEF f, from, to
  <1>9. QED
    BY <1>2, <1>4, <1>5, <1>6, <1>7, <1>8

LEMMA SwitchKeeps ==
    ASSUME WorkedOn, NEW t \in Tasks, NEW q \in Projects, Switch(t, q)
    PROVE  WorkedOn'
  <1>1. /\ tasks[t] # Idle /\ tasks[t].pc = "parse" /\ lock = Free
        /\ UNCHANGED <<taken, requests, faults, kind>>
    BY DEF Switch, At
  <1>2. IngestInv /\ WorkersFollow
    BY DEF WorkedOn
  <1>3. CASE UNCHANGED disk
    <2>1. FileOf(t) \in Files
      BY <1>1, BusyStart DEF GoodTask, PathSteps, FileOf
    <2>2. CASE \E n \in TargetNames(FileOf(t)) : WriteParsed(t, "rejected", n) /\ UNCHANGED lock
      <3>1. lock' = IF lock = t THEN Free ELSE lock
        BY <1>1, <2>2
      <3>2. QED
        BY <1>1, <1>3, <2>2, <3>1, WriteParsedKeeps
    <2>3. CASE ~ \E n \in TargetNames(FileOf(t)) : WriteParsed(t, "rejected", n) /\ UNCHANGED lock
      <3>1. /\ disk[Input(q, FileOf(t))] = NoFile /\ disk[tasks[t].path] # NoFile
            /\ disk' = [disk EXCEPT ![Input(q, FileOf(t))] = FileOf(t), ![tasks[t].path] = NoFile]
        BY <2>3 DEF Switch
      <3>2. disk \in [Locations -> Files \cup {NoFile}] /\ Input(q, FileOf(t)) \in Locations
        BY <1>2, <2>1, PlaceFacts DEF IngestInv, PipelineTypeOK
      <3>3. disk'[Input(q, FileOf(t))] = FileOf(t)
        BY <3>1, <3>2
      <3>4. QED
        BY <1>3, <2>1, <3>1, <3>3, NoFileAssumption
    <2>4. QED
      BY <2>2, <2>3
  <1>4. CASE ~ UNCHANGED disk
    <2>1. PICK f, from, to :
            /\ f = FileOf(t) /\ f \in Files /\ from = tasks[t].path
            /\ from \in Inputs /\ from.name = f /\ to \in Inputs /\ from # to
            /\ to.name = f /\ disk[from] = f /\ disk[to] = NoFile
            /\ disk' = [disk EXCEPT ![to] = f, ![from] = NoFile]
            /\ lock' = t /\ UNCHANGED rows
            /\ Become(t, [tasks[t] EXCEPT !.pc = "switched", !.project = q, !.path = to])
      BY <1>2, <1>4, SwitchFiles
    <2>2. /\ disk \in [Locations -> Files \cup {NoFile}] /\ taken \subseteq Targets \X Files
          /\ Targets \subseteq Locations /\ Inputs \subseteq Locations
      BY <1>2 DEF IngestInv, PipelineTypeOK, Locations
    <2>3. to \in Locations /\ from \in Locations /\ to \notin Targets /\ from \notin Targets
      BY <2>1, <2>2, PlaceOf
    <2>4. PICK u : u = [tasks[t] EXCEPT !.pc = "switched", !.project = q, !.path = to]
      OBVIOUS
    <2>5. tasks[t] \in Task /\ GoodTask(tasks[t]) /\ OfItsRow(tasks[t])
      BY <1>1, BusyStart
    <2>6. /\ u \in Task /\ u.pc = "switched" /\ u.id = tasks[t].id /\ u.project = q
          /\ u.path = to
      BY <2>3, <2>4, <2>5 DEF Task, ParseSteps
    <2>7. GoodTask(u)
      BY <2>1, <2>3, <2>6 DEF GoodTask, GoodPath
    <2>8. rows'[u.id] # NoRow /\ (Live(u.id)' => rows'[u.id].file = u.path.name)
      BY <1>1, <2>1, <2>5, <2>6 DEF OfItsRow, PathSteps, Live, FileOf
    <2>9. TaskStep /\ OthersSame(t) /\ tasks'[t] = u /\ u # Idle
      BY <1>1, <1>2, <2>1, <2>4, <2>7, <2>8, BecomeTask
    <2>10. LockStep
      <3>1. HoldsLock(t)'
        BY <2>6, <2>9 DEF HoldsLock, LockSteps
      <3>2. QED
        BY <1>1, <1>2, <2>1, <2>9, <3>1, LockTaken
    <2>11. disk' \in [Locations -> Files \cup {NoFile}]
      BY <2>1, <2>2, <2>3
    <2>12. DigestNames'
      BY <1>2, <2>1, <2>2, <2>3 DEF IngestInv, DigestNames
    <2>13. \A l \in Targets, g \in Files :
              disk[l] = g \/ <<l, g>> \in taken => disk'[l] = g \/ <<l, g>> \in taken'
      BY <1>1, <2>1, <2>2, <2>3
    <2>14. ~ At(t, "unlink")' /\ ~ At(t, "record")'
      BY <2>6, <2>9 DEF At
    <2>15. \A s \in Statuses : Serves(s, tasks[t].pc) => Serves(s, tasks'[t].pc)
      BY <1>1, <2>6, <2>9 DEF Serves
    <2>16. QED
      BY <1>1, <2>1, <2>2, <2>6, <2>9, <2>10, <2>11, <2>12, <2>13, <2>14, <2>15, FileStep
  <1>5. QED
    BY <1>3, <1>4

\* A materialization writes the one place it found free or already right, and
\* never removes a source that is an artifact.
LEMMA MaterializeFiles ==
    ASSUME IngestInv, NEW t \in Tasks, SagaMaterialize(t)
    PROVE  \E f, from, to, two :
            /\ f = FileOf(t) /\ f \in Files /\ from = tasks[t].path /\ from \in Locations
            /\ from.name = f /\ disk[from] = f
            /\ to \in Targets /\ to = Target(tasks[t].project, to.name) /\ Proper(f, to.name)
            /\ disk[to] \in {NoFile, f} /\ (from # to => from \in Inputs)
            /\ two \in BOOLEAN /\ (two => from \in Inputs)
            /\ disk' = IF from = to THEN disk
                       ELSE [disk EXCEPT ![to] = f, ![from] = IF two THEN f ELSE NoFile]
            /\ lock' = IF two THEN t ELSE Free
            /\ Become(t, [tasks[t] EXCEPT !.pc = IF two THEN "unlink" ELSE "record",
                                          !.target = to.name])
            /\ taken' = taken \ {<<to, f>>}
  <1> DEFINE f == FileOf(t)
             from == tasks[t].path
             to == UniqueTarget(tasks[t].project, f, tasks[t].target)
             two == kind[f] \in {"extracted", "xlsx"} /\ disk[to] = NoFile
  <1>1. /\ tasks[t] # Idle /\ tasks[t].pc = "saga"
        /\ disk[from] # NoFile /\ from.project = tasks[t].project
        /\ disk[to] \in {NoFile, f}
        /\ disk' = IF from = to THEN disk
                   ELSE [disk EXCEPT ![to] = f, ![from] = IF two THEN f ELSE NoFile]
        /\ lock' = IF two THEN t ELSE Free
        /\ Become(t, [tasks[t] EXCEPT !.pc = IF two THEN "unlink" ELSE "record",
                                      !.target = to.name])
        /\ taken' = taken \ {<<to, f>>}
    BY DEF SagaMaterialize, At, SourceThere
  <1>2. /\ f \in Files /\ GoodPath(f, from) /\ tasks[t].project \in Projects
        /\ Proper(f, tasks[t].target)
    BY <1>1, BusyTask DEF GoodTask, PathSteps, FileOf
  <1>3. from \in Locations /\ from.name = f /\ (from \in Targets => kind[f] = "xlsx")
    BY <1>2 DEF GoodPath
  <1>4. disk[from] = f
    BY <1>1, <1>2, <1>3, Digested
  <1>5. PICK n \in {f, tasks[t].target} : to = Target(tasks[t].project, n)
    BY DEF UniqueTarget
  <1>6. Proper(f, n) /\ n \in Names
    BY <1>2, <1>5 DEF Proper, Names
  <1>7. to \in Targets /\ to.name = n
    BY <1>2, <1>5, <1>6, PlaceFacts
  <1>8. from \in Targets => from = to
    <2>1. SUFFICES ASSUME from \in Targets PROVE from = to
      OBVIOUS
    <2>2. n = f
      BY <1>3, <1>6, <2>1 DEF Proper
    <2>3. QED
      BY <1>1, <1>3, <1>5, <2>1, <2>2, PlaceOf
  <1>9. from # to => from \in Inputs
    BY <1>3, <1>8 DEF Locations
  <1>10. two \in BOOLEAN /\ (two => from \in Inputs)
    BY <1>1, <1>4, <1>9
  <1> HIDE DEF f, from, to, two
  <1>11. f = FileOf(t) /\ from = tasks[t].path
    BY DEF f, from
  <1>12. to = Target(tasks[t].project, to.name) /\ Proper(f, to.name)
    BY <1>5, <1>6, <1>7
  <1>13. QED
    BY <1>1, <1>2, <1>3, <1>4, <1>7, <1>9, <1>10, <1>11, <1>12

LEMMA SagaMaterializeKeeps ==
    ASSUME WorkedOn, NEW t \in Tasks, SagaMaterialize(t)
    PROVE  WorkedOn'
  <1>1. /\ tasks[t] # Idle /\ tasks[t].pc = "saga" /\ lock = Free
        /\ UNCHANGED <<rows, requests, faults, kind>>
    BY DEF SagaMaterialize, At
  <1>2. IngestInv /\ WorkersFollow
    BY DEF WorkedOn
  <1>3. PICK f, from, to, two :
            /\ f = FileOf(t) /\ f \in Files /\ from = tasks[t].path /\ from \in Locations
            /\ from.name = f /\ disk[from] = f
            /\ to \in Targets /\ to = Target(tasks[t].project, to.name) /\ Proper(f, to.name)
            /\ disk[to] \in {NoFile, f} /\ (from # to => from \in Inputs)
            /\ two \in BOOLEAN /\ (two => from \in Inputs)
            /\ disk' = IF from = to THEN disk
                       ELSE [disk EXCEPT ![to] = f, ![from] = IF two THEN f ELSE NoFile]
            /\ lock' = IF two THEN t ELSE Free
            /\ Become(t, [tasks[t] EXCEPT !.pc = IF two THEN "unlink" ELSE "record",
                                          !.target = to.name])
            /\ taken' = taken \ {<<to, f>>}
    BY <1>2, MaterializeFiles
  <1>4. /\ disk \in [Locations -> Files \cup {NoFile}] /\ taken \subseteq Targets \X Files
        /\ Targets \subseteq Locations /\ to \notin Inputs
    BY <1>2, <1>3, PlaceOf DEF IngestInv, PipelineTypeOK, Locations
  <1>5. disk' \in [Locations -> Files \cup {NoFile}] /\ taken' \subseteq Targets \X Files
    BY <1>3, <1>4
  <1>6. disk'[to] = f
    BY <1>3, <1>4
  <1>7. DigestNames'
    <2>1. to.name \in Files => to.name = f
      BY <1>3, NameAssumption DEF Proper
    <2>2. QED
      BY <1>2, <1>3, <1>4, <2>1 DEF IngestInv, DigestNames
  <1>8. \A l \in Targets, g \in Files :
            disk[l] = g \/ <<l, g>> \in taken => disk'[l] = g \/ <<l, g>> \in taken'
    <2>1. SUFFICES ASSUME NEW l \in Targets, NEW g \in Files, disk[l] = g \/ <<l, g>> \in taken
                   PROVE  disk'[l] = g \/ <<l, g>> \in taken'
      OBVIOUS
    <2>2. CASE l = to
      BY <1>3, <1>6, <2>1, <2>2, NoFileAssumption
    <2>3. CASE l # to
      <3>1. disk'[l] = disk[l]
        BY <1>3, <1>4, <2>3, PlaceOf
      <3>2. QED
        BY <1>3, <2>1, <2>3, <3>1
    <2>4. QED
      BY <2>2, <2>3
  <1>9. PICK u : u = [tasks[t] EXCEPT !.pc = IF two THEN "unlink" ELSE "record",
                                      !.target = to.name]
    OBVIOUS
  <1>10. tasks[t] \in Task /\ GoodTask(tasks[t]) /\ OfItsRow(tasks[t])
    BY <1>1, BusyStart
  <1>11. /\ u \in Task /\ u.pc = (IF two THEN "unlink" ELSE "record") /\ u.id = tasks[t].id
         /\ u.project = tasks[t].project /\ u.path = from /\ u.target = to.name
    <2>1. to.name \in Names
      BY <1>3 DEF Proper, Names
    <2>2. QED
      BY <1>3, <1>9, <1>10, <2>1 DEF Task, SagaSteps
  <1>12. GoodTask(u) /\ u.path.name = f
    BY <1>1, <1>3, <1>10, <1>11 DEF GoodTask, PathSteps
  <1>13. rows'[u.id] # NoRow /\ (Live(u.id)' => rows'[u.id].file = u.path.name)
    BY <1>1, <1>3, <1>10, <1>11, <1>12 DEF OfItsRow, PathSteps, Live
  <1>14. TaskStep /\ OthersSame(t) /\ tasks'[t] = u /\ u # Idle
    <2>1. Become(t, u)
      BY <1>3, <1>9
    <2>2. QED
      BY <1>1, <1>2, <1>12, <1>13, <2>1, BecomeTask
  <1>15. LockStep
    <2>1. CASE two
      <3>1. HoldsLock(t)'
        BY <1>11, <1>14, <2>1 DEF HoldsLock, LockSteps
      <3>2. QED
        BY <1>1, <1>2, <1>3, <1>14, <2>1, <3>1, LockTaken
    <2>2. CASE ~ two
      <3>1. HoldsLock(t)' <=> HoldsLock(t)
        BY <1>1, <1>11, <1>14, <2>2 DEF HoldsLock, LockSteps
      <3>2. QED
        BY <1>1, <1>2, <1>3, <1>14, <2>2, <3>1, LockKept
    <2>3. QED
      BY <2>1, <2>2
  <1>16. Target(u.project, u.target) = to
    BY <1>3, <1>11
  <1>17. /\ At(t, "unlink")' => /\ tasks'[t].path \in Inputs
                                /\ disk'[Target(tasks'[t].project, tasks'[t].target)] = FileOf(t)'
         /\ At(t, "record")' => Backed(tasks[t])'
    BY <1>3, <1>6, <1>11, <1>12, <1>14, <1>16 DEF At, Backed, FileOf
  <1>18. \A s \in Statuses : Serves(s, tasks[t].pc) => Serves(s, tasks'[t].pc)
    BY <1>1, <1>11, <1>14 DEF Serves
  <1>19. QED
    BY <1>1, <1>5, <1>7, <1>8, <1>11, <1>14, <1>15, <1>17, <1>18, FileStep

\* The second half of a materialization: the artifact is there, the source goes.
LEMMA UnlinkFiles ==
    ASSUME IngestInv, NEW t \in Tasks, SagaUnlink(t)
    PROVE  LET f == FileOf(t)
               from == tasks[t].path
               to == Target(tasks[t].project, tasks[t].target)
           IN  /\ f \in Files /\ from \in Inputs /\ from.name = f
               /\ to \in Targets /\ disk[to] = f
               /\ disk' = [disk EXCEPT ![from] = NoFile]
  <1>1. At(t, "unlink") /\ disk' = [disk EXCEPT ![tasks[t].path] = NoFile]
    BY DEF SagaUnlink
  <1>2. /\ tasks[t].path \in Inputs
        /\ disk[Target(tasks[t].project, tasks[t].target)] = FileOf(t)
    BY <1>1 DEF IngestInv, UnlinksSafe
  <1>3. /\ FileOf(t) \in Files /\ tasks[t].project \in Projects
        /\ Proper(FileOf(t), tasks[t].target) /\ tasks[t].path.name = FileOf(t)
    BY <1>1, BusyTask DEF At, GoodTask, PathSteps, FileOf
  <1>4. Target(tasks[t].project, tasks[t].target) \in Targets
    BY <1>3, PlaceFacts DEF Proper, Names
  <1>5. QED
    BY <1>1, <1>2, <1>3, <1>4

LEMMA SagaUnlinkKeeps ==
    ASSUME WorkedOn, NEW t \in Tasks, SagaUnlink(t)
    PROVE  WorkedOn'
  <1>1. /\ tasks[t] # Idle /\ tasks[t].pc = "unlink" /\ lock' = Free /\ GoTo(t, "record")
        /\ UNCHANGED <<rows, taken, requests, faults, kind>>
    BY DEF SagaUnlink, At
  <1>2. IngestInv /\ WorkersFollow
    BY DEF WorkedOn
  <1>3. PICK f, from, to :
            /\ f = FileOf(t) /\ from = tasks[t].path
            /\ to = Target(tasks[t].project, tasks[t].target)
            /\ f \in Files /\ from \in Inputs /\ from.name = f
            /\ to \in Targets /\ disk[to] = f
            /\ disk' = [disk EXCEPT ![from] = NoFile]
    BY <1>2, UnlinkFiles
  <1>4. /\ disk \in [Locations -> Files \cup {NoFile}] /\ taken \subseteq Targets \X Files
        /\ Targets \subseteq Locations /\ from \notin Targets
    BY <1>2, <1>3 DEF IngestInv, PipelineTypeOK, Locations, Inputs, Targets
  <1>5. disk' \in [Locations -> Files \cup {NoFile}]
    BY <1>3, <1>4
  <1>6. DigestNames'
    BY <1>2, <1>3, <1>4 DEF IngestInv, DigestNames
  <1>7. \A l \in Targets, g \in Files :
            disk[l] = g \/ <<l, g>> \in taken => disk'[l] = g \/ <<l, g>> \in taken'
    BY <1>1, <1>3, <1>4
  <1>8. "record" \in Steps /\ tasks[t].pc \in PathSteps /\ tasks[t].pc \in Placing
    BY <1>1 DEF Steps, SagaSteps, PathSteps, Placing
  <1>9. RowStep
    BY <1>1, <1>2, RowsSame
  <1>10. /\ TaskStep /\ OthersSame(t)
         /\ tasks'[t] # Idle /\ tasks'[t].pc = "record"
         /\ tasks'[t].id = tasks[t].id /\ tasks'[t].project = tasks[t].project
         /\ tasks'[t].path = tasks[t].path /\ tasks'[t].target = tasks[t].target
    BY <1>1, <1>2, <1>8, <1>9, MoveTask
  <1>11. lock = t /\ ~ HoldsLock(t)'
    BY <1>1, <1>2, <1>10 DEF IngestInv, PipelineTypeOK, HoldsLock, LockSteps
  <1>12. LockStep
    BY <1>1, <1>2, <1>10, <1>11, LockReleased
  <1>13. Backed(tasks[t])'
    BY <1>3, <1>4, <1>10 DEF Backed, FileOf
  <1>14. ~ At(t, "unlink")'
    BY <1>10 DEF At
  <1>15. \A s \in Statuses : Serves(s, tasks[t].pc) => Serves(s, tasks'[t].pc)
    BY <1>1, <1>10 DEF Serves
  <1>16. QED
    BY <1>1, <1>4, <1>5, <1>6, <1>7, <1>10, <1>11, <1>12, <1>13, <1>14, <1>15, FileStep

-----------------------------------------------------------------------------
(* The theorems.                                                           *)

LEMMA WorkedOnInit == Init => WorkedOn
  <1> SUFFICES ASSUME Init PROVE WorkedOn
    OBVIOUS
  <1>1. /\ rows = [i \in Ids |-> NoRow] /\ tasks = [t \in Tasks |-> Idle] /\ lock = Free
        /\ taken = {} /\ kind \in Kinds /\ requests = 0 /\ faults = 0
        /\ disk = [l \in Locations |->
                     IF \E f \in Files : l = Input(Dropped[f], f) THEN l.name ELSE NoFile]
    BY DEF Init
  <1>2. \A f \in Files : Input(Dropped[f], f).name = f
    BY DEF Input
  <1>3. disk \in [Locations -> Files \cup {NoFile}] /\ DigestNames
    BY <1>1, <1>2 DEF DigestNames
  <1>4. requests \in 0 .. MaxRequests /\ faults \in 0 .. MaxFaults
    BY <1>1, BoundAssumption
  <1>5. PipelineTypeOK
    BY <1>1, <1>3, <1>4, FreeAssumption DEF PipelineTypeOK
  <1>6. \A i \in Ids : ~ Live(i)
    BY <1>1 DEF Live
  <1>7. \A t \in Tasks : tasks[t] = Idle
    BY <1>1
  <1>8. IngestInv
    BY <1>3, <1>5, <1>6, <1>7
       DEF IngestInv, RowsNamed, TasksNamed, UnlinksSafe, RecordsBacked, At,
           ArtifactsBehindInsertedRows
  <1>9. QED
    BY <1>6, <1>8 DEF WorkedOn, WorkersFollow

LEMMA WorkedOnNext ==
    ASSUME WorkedOn, [Next]_vars
    PROVE  WorkedOn'
  <1>1. CASE UNCHANGED vars
    <2>1. UNCHANGED <<rows, disk, tasks, lock, taken, kind, requests, faults>>
      BY <1>1 DEF vars
    <2>2. IngestInv /\ WorkersFollow
      BY DEF WorkedOn
    <2>3. RowStep /\ ArtifactStep /\ CountStep /\ Quiet
      BY <2>1, <2>2, RowsSame DEF CountStep, Quiet, IngestInv, PipelineTypeOK
    <2>4. TaskStep /\ LockStep
      BY <2>1, <2>2
         DEF IngestInv, PipelineTypeOK, TaskStep, LockStep, HoldsLock, LockSteps
    <2>5. IngestInv'
      BY <2>1, <2>2, <2>3, <2>4, QuietKeeps
    <2>6. WorkersFollow'
      BY <2>1, <2>2 DEF WorkersFollow, Live
    <2>7. QED
      BY <2>5, <2>6 DEF WorkedOn
  <1>2. ASSUME NEW t \in Tasks, NEW i \in Ids,
               \/ \E f \in Files, p \in Projects : Enqueue(t, f, p, i)
               \/ \E q \in Projects : Patch(t, i, q)
               \/ Retry(t, i) \/ Requeue(t, i) \/ Approve(t, i) \/ Delete(t, i)
        PROVE  WorkedOn'
    BY <1>2, EnqueueKeeps, RetryKeeps, ApproveKeeps, DeleteKeeps
  <1>3. ASSUME NEW t \in Tasks,
               \/ RequeueWrite(t) \/ DeleteFiles(t) \/ DeleteRow(t)
               \/ PatchCommit(t) \/ PatchMove(t)
        PROVE  WorkedOn'
    BY <1>3, RequeueWriteKeeps, DeleteFilesKeeps, DeleteRowKeeps, PatchCommitKeeps, PatchMoveKeeps
  <1>4. ASSUME NEW t \in Tasks,
               \/ ClaimRead(t) \/ ClaimWrite(t) \/ Activate(t) \/ ParseLight(t)
               \/ RetryTransient(t) \/ FailParse(t)
        PROVE  WorkedOn'
    BY <1>4, ReadingKeeps, ClaimWriteKeeps, ActivateKeeps, ParseLightKeeps, RetryTransientKeeps,
       FailParseKeeps
  <1>5. ASSUME NEW t \in Tasks,
               \/ \E s \in Statuses, n \in Names : FinishParse(t, s, n)
               \/ \E q \in Projects : Switch(t, q)
               \/ \E n \in Names : FinishSwitch(t, n)
        PROVE  WorkedOn'
    BY <1>5, FinishParseKeeps, SwitchKeeps
  <1>6. ASSUME NEW t \in Tasks,
               \/ SagaStart(t) \/ SagaMaterialize(t) \/ SagaUnlink(t) \/ SagaRecover(t)
               \/ SagaRecord(t) \/ SagaFinish(t) \/ SagaFails(t)
        PROVE  WorkedOn'
    BY <1>6, ReadingKeeps, SagaMaterializeKeeps, SagaUnlinkKeeps, SagaRecoverKeeps,
       SagaRecordKeeps, SagaFinishKeeps, FailParseKeeps
  <1>7. QED
    BY <1>1, <1>2, <1>3, <1>4, <1>5, <1>6, RejectKeeps, CrashKeeps DEF Next

LEMMA WorkedOnAlways == Spec => []WorkedOn
  BY WorkedOnInit, WorkedOnNext, PTL DEF Spec

\* Rows, tasks, files and the lock stay well typed, and the lock is held at
\* exactly the places of the code that are inside a project_lock block.
THEOREM PipelineTypeCorrect == Spec => []PipelineTypeOK
  <1>1. WorkedOn => PipelineTypeOK
    BY DEF WorkedOn, IngestInv
  <1>2. QED
    BY <1>1, WorkedOnAlways, PTL

\* A row that says its file was inserted has an artifact with that content,
\* however many runs of the saga, parses, patches and crashes there were.
THEOREM InsertedRowsHaveArtifacts == Spec => []ArtifactsBehindInsertedRows
  <1>1. WorkedOn => ArtifactsBehindInsertedRows
    BY DEF WorkedOn, IngestInv
  <1>2. QED
    BY <1>1, WorkedOnAlways, PTL

\* As long as nothing crashes, no row waits for a task that has gone away.
THEOREM NoRowIsForgotten == Spec => []ActiveRowsHaveWorkers
  <1>1. ASSUME WorkedOn PROVE ActiveRowsHaveWorkers
    <2>1. SUFFICES ASSUME faults = 0, NEW i \in Ids, Live(i), rows[i].status \in Active
                   PROVE  \E t \in Tasks : /\ tasks[t] # Idle /\ tasks[t].id = i
                                           /\ Serves(rows[i].status, tasks[t].pc)
      BY DEF ActiveRowsHaveWorkers, Working, Active, Serves, ParseSteps, SagaSteps
    <2>2. QED
      BY <1>1, <2>1 DEF WorkedOn, WorkersFollow
  <1>2. QED
    BY <1>1, WorkedOnAlways, PTL

\* The five steps that change files.
LEMMA FileSteps ==
    ASSUME [Next]_vars, ~ UNCHANGED disk
    PROVE  \E t \in Tasks :
            \/ DeleteFiles(t) \/ PatchMove(t) \/ SagaMaterialize(t) \/ SagaUnlink(t)
            \/ \E q \in Projects : Switch(t, q)
  <1>1. ~ UNCHANGED vars
    BY DEF vars
  <1>2. ASSUME NEW t \in Tasks, NEW i \in Ids,
               \/ \E f \in Files, p \in Projects : Enqueue(t, f, p, i)
               \/ \E q \in Projects : Patch(t, i, q)
               \/ Retry(t, i) \/ Requeue(t, i) \/ Approve(t, i) \/ Delete(t, i)
        PROVE  UNCHANGED disk
    BY <1>2 DEF Enqueue, Patch, Retry, Requeue, Approve, Delete
  <1>3. ASSUME NEW t \in Tasks, RequeueWrite(t) \/ DeleteRow(t) \/ PatchCommit(t)
        PROVE  UNCHANGED disk
    BY <1>3 DEF RequeueWrite, DeleteRow, PatchCommit
  <1>4. ASSUME NEW t \in Tasks,
               \/ ClaimRead(t) \/ ClaimWrite(t) \/ Activate(t) \/ ParseLight(t)
               \/ RetryTransient(t) \/ FailParse(t)
               \/ \E s \in Statuses, n \in Names : FinishParse(t, s, n)
               \/ \E n \in Names : FinishSwitch(t, n)
        PROVE  UNCHANGED disk
    <2>1. CASE ClaimRead(t) \/ ClaimWrite(t) \/ Activate(t) \/ ParseLight(t)
      BY <2>1 DEF ClaimRead, ClaimWrite, Activate, ParseLight
    <2>2. CASE RetryTransient(t) \/ FailParse(t)
      BY <2>2 DEF RetryTransient, FailParse
    <2>3. CASE \/ \E s \in Statuses, n \in Names : FinishParse(t, s, n)
               \/ \E n \in Names : FinishSwitch(t, n)
      BY <2>3 DEF FinishParse, FinishSwitch
    <2>4. QED
      BY <1>4, <2>1, <2>2, <2>3
  <1>5. ASSUME NEW t \in Tasks,
               \/ SagaStart(t) \/ SagaRecover(t) \/ SagaRecord(t) \/ SagaFinish(t) \/ SagaFails(t)
        PROVE  UNCHANGED disk
    BY <1>5 DEF SagaStart, SagaRecover, SagaRecord, SagaFinish, SagaFails
  <1>6. ASSUME \/ \E i \in Ids : Reject(i)
               \/ \E dead \in SUBSET Tasks : Crash(dead)
        PROVE  UNCHANGED disk
    BY <1>6 DEF Reject, Crash
  <1>7. QED
    BY <1>1, <1>2, <1>3, <1>4, <1>5, <1>6 DEF Next

\* Only a delete request makes the last copy of an upload disappear.
THEOREM UploadsAlwaysSurvive == Spec => UploadsSurvive
  <1> DEFINE Survive ==
        \A f \in Files : Held(f) /\ ~ Held(f)' =>
            \E t \in Tasks : At(t, "delete") /\ tasks'[t] = [tasks[t] EXCEPT !.pc = "deleting"]
  <1>1. ASSUME WorkedOn, [Next]_vars, NEW g \in Files, Held(g), ~ Held(g)'
        PROVE  \E t \in Tasks : At(t, "delete") /\ tasks'[t] = [tasks[t] EXCEPT !.pc = "deleting"]
    <2>1. /\ IngestInv /\ disk \in [Locations -> Files \cup {NoFile}]
          /\ tasks \in [Tasks -> Task \cup {Idle}]
      BY <1>1 DEF WorkedOn, IngestInv, PipelineTypeOK
    <2>2. PICK l \in Locations : disk[l] = g /\ disk'[l] # g
      BY <1>1 DEF Held
    <2>3. \A k \in Locations : disk'[k] # g
      BY <1>1 DEF Held
    <2>4. Inputs \subseteq Locations /\ Targets \subseteq Locations
      BY DEF Locations
    <2>5. ASSUME NEW t \in Tasks, DeleteFiles(t)
          PROVE  At(t, "delete") /\ tasks'[t] = [tasks[t] EXCEPT !.pc = "deleting"]
      BY <2>1, <2>5 DEF DeleteFiles, GoTo
    <2>6. ASSUME NEW t \in Tasks, PatchMove(t) PROVE FALSE
      <3>1. PICK f, from, to :
                /\ f \in Files /\ from \in Locations /\ to \in Inputs /\ from # to
                /\ disk' = [disk EXCEPT ![to] = f, ![from] = NoFile]
                /\ disk[from] \in {NoFile, f} /\ disk[to] \in {NoFile, f}
        BY <2>1, <2>6, PatchMoveFiles
      <3>2. disk'[to] = f /\ (disk[l] # f => disk'[l] = disk[l])
        BY <2>1, <2>2, <2>4, <3>1, NoFileAssumption
      <3>3. QED
        BY <2>2, <2>3, <2>4, <3>1, <3>2
    <2>7. ASSUME NEW t \in Tasks, NEW q \in Projects, Switch(t, q) PROVE FALSE
      <3>1. PICK f, from, to :
                /\ f = FileOf(t) /\ f \in Files /\ from = tasks[t].path
                /\ from \in Inputs /\ from.name = f /\ to \in Inputs /\ from # to
                /\ to.name = f /\ disk[from] = f /\ disk[to] = NoFile
                /\ disk' = [disk EXCEPT ![to] = f, ![from] = NoFile]
                /\ lock' = t /\ UNCHANGED rows
                /\ Become(t, [tasks[t] EXCEPT !.pc = "switched", !.project = q, !.path = to])
        BY <2>1, <2>2, <2>7, SwitchFiles
      <3>2. disk'[to] = f /\ (disk[l] # f => disk'[l] = disk[l])
        BY <2>1, <2>2, <2>4, <3>1, NoFileAssumption
      <3>3. QED
        BY <2>2, <2>3, <2>4, <3>1, <3>2
    <2>8. ASSUME NEW t \in Tasks, SagaMaterialize(t) PROVE FALSE
      <3>1. PICK f, from, to, two :
                /\ f = FileOf(t) /\ f \in Files /\ from = tasks[t].path /\ from \in Locations
                /\ from.name = f /\ disk[from] = f
                /\ to \in Targets /\ to = Target(tasks[t].project, to.name) /\ Proper(f, to.name)
                /\ disk[to] \in {NoFile, f} /\ (from # to => from \in Inputs)
                /\ two \in BOOLEAN /\ (two => from \in Inputs)
                /\ disk' = IF from = to THEN disk
                           ELSE [disk EXCEPT ![to] = f, ![from] = IF two THEN f ELSE NoFile]
                /\ lock' = IF two THEN t ELSE Free
                /\ Become(t, [tasks[t] EXCEPT !.pc = IF two THEN "unlink" ELSE "record",
                                              !.target = to.name])
                /\ taken' = taken \ {<<to, f>>}
        BY <2>1, <2>8, MaterializeFiles
      <3>2. disk'[to] = f /\ (disk[l] # f => disk'[l] = disk[l])
        BY <2>1, <2>2, <2>4, <3>1, NoFileAssumption
      <3>3. QED
        BY <2>2, <2>3, <2>4, <3>1, <3>2
    <2>9. ASSUME NEW t \in Tasks, SagaUnlink(t) PROVE FALSE
      <3>1. PICK f, from, to :
                /\ f \in Files /\ from \in Inputs /\ from.name = f
                /\ to \in Targets /\ disk[to] = f
                /\ disk' = [disk EXCEPT ![from] = NoFile]
        BY <2>1, <2>9, UnlinkFiles
      <3>2. from # to /\ from \in Locations
        BY <2>4, <3>1, PlaceOf
      <3>3. disk[from] \in {NoFile, f}
        BY <2>1, <3>1, <3>2, Digested
      <3>4. disk'[to] = f /\ (disk[l] # f => disk'[l] = disk[l])
        BY <2>1, <2>2, <2>4, <3>1, <3>2, <3>3, NoFileAssumption
      <3>5. QED
        BY <2>2, <2>3, <2>4, <3>1, <3>4
    <2>10. ~ UNCHANGED disk
      BY <2>2
    <2>11. QED
      BY <1>1, <2>5, <2>6, <2>7, <2>8, <2>9, <2>10, FileSteps
  <1>2. ASSUME WorkedOn, [Next]_vars PROVE [Survive]_vars
    BY <1>1, <1>2
  <1>3. QED
    BY <1>2, WorkedOnAlways, PTL DEF Spec, UploadsSurvive

\* No step overwrites an artifact, and only a delete that names it or the patch
\* of the row whose path it is removes one.
THEOREM ArtifactsStayInPlace == Spec => ArtifactsNotReplaced
  <1> DEFINE Kept ==
        \A l \in Targets : disk[l] # NoFile /\ disk'[l] # disk[l] =>
            /\ disk'[l] = NoFile
            /\ \E t \in Tasks : \/ At(t, "delete") /\ l \in Named(t)
                                \/ At(t, "move") /\ tasks[t].path = l
  <1>1. ASSUME WorkedOn, [Next]_vars, NEW l \in Targets, disk[l] # NoFile, disk'[l] # disk[l]
        PROVE  /\ disk'[l] = NoFile
               /\ \E t \in Tasks : \/ At(t, "delete") /\ l \in Named(t)
                                   \/ At(t, "move") /\ tasks[t].path = l
    <2>1. /\ IngestInv /\ disk \in [Locations -> Files \cup {NoFile}]
          /\ l \in Locations /\ l \notin Inputs /\ Inputs \subseteq Locations
      BY <1>1, PlaceOf DEF WorkedOn, IngestInv, PipelineTypeOK, Locations
    <2>2. ASSUME NEW t \in Tasks, DeleteFiles(t)
          PROVE  disk'[l] = NoFile /\ At(t, "delete") /\ l \in Named(t)
      BY <1>1, <2>1, <2>2 DEF DeleteFiles
    <2>3. ASSUME NEW t \in Tasks, PatchMove(t)
          PROVE  disk'[l] = NoFile /\ At(t, "move") /\ tasks[t].path = l
      <3>1. At(t, "move")
        BY <2>3 DEF PatchMove
      <3>2. PICK f, from, to :
                /\ from = tasks[t].path /\ from \in Locations /\ to \in Inputs
                /\ disk' = [disk EXCEPT ![to] = f, ![from] = NoFile]
        BY <2>1, <2>3, PatchMoveFiles
      <3>3. QED
        BY <1>1, <2>1, <3>1, <3>2
    <2>4. ASSUME NEW t \in Tasks, NEW q \in Projects, Switch(t, q) PROVE FALSE
      <3>1. PICK f, from, to :
                /\ f = FileOf(t) /\ f \in Files /\ from = tasks[t].path
                /\ from \in Inputs /\ from.name = f /\ to \in Inputs /\ from # to
                /\ to.name = f /\ disk[from] = f /\ disk[to] = NoFile
                /\ disk' = [disk EXCEPT ![to] = f, ![from] = NoFile]
                /\ lock' = t /\ UNCHANGED rows
                /\ Become(t, [tasks[t] EXCEPT !.pc = "switched", !.project = q, !.path = to])
        BY <1>1, <2>1, <2>4, SwitchFiles
      <3>2. QED
        BY <1>1, <2>1, <3>1
    <2>5. ASSUME NEW t \in Tasks, SagaMaterialize(t) PROVE FALSE
      <3>1. PICK f, from, to, two :
                /\ f = FileOf(t) /\ f \in Files /\ from = tasks[t].path /\ from \in Locations
                /\ from.name = f /\ disk[from] = f
                /\ to \in Targets /\ to = Target(tasks[t].project, to.name) /\ Proper(f, to.name)
                /\ disk[to] \in {NoFile, f} /\ (from # to => from \in Inputs)
                /\ two \in BOOLEAN /\ (two => from \in Inputs)
                /\ disk' = IF from = to THEN disk
                           ELSE [disk EXCEPT ![to] = f, ![from] = IF two THEN f ELSE NoFile]
                /\ lock' = IF two THEN t ELSE Free
                /\ Become(t, [tasks[t] EXCEPT !.pc = IF two THEN "unlink" ELSE "record",
                                              !.target = to.name])
                /\ taken' = taken \ {<<to, f>>}
        BY <2>1, <2>5, MaterializeFiles
      <3>2. from # to /\ from \in Inputs
        BY <1>1, <3>1
      <3>3. disk' = [disk EXCEPT ![to] = f, ![from] = IF two THEN f ELSE NoFile]
        BY <3>1, <3>2
      <3>4. l = to
        BY <1>1, <2>1, <3>2, <3>3
      <3>5. disk'[to] = f /\ disk[to] = f
        BY <1>1, <2>1, <3>1, <3>2, <3>3, <3>4
      <3>6. QED
        BY <1>1, <3>4, <3>5
    <2>6. ASSUME NEW t \in Tasks, SagaUnlink(t) PROVE FALSE
      <3>1. PICK from \in Inputs : disk' = [disk EXCEPT ![from] = NoFile]
        BY <2>1, <2>6, UnlinkFiles
      <3>2. QED
        BY <1>1, <2>1, <3>1
    <2>7. ~ UNCHANGED disk
      BY <1>1
    <2>8. QED
      BY <1>1, <2>2, <2>3, <2>4, <2>5, <2>6, <2>7, FileSteps
  <1>2. ASSUME WorkedOn, [Next]_vars PROVE [Kept]_vars
    BY <1>1, <1>2
  <1>3. QED
    BY <1>2, WorkedOnAlways, PTL DEF Spec, ArtifactsNotReplaced
=============================================================================
