-------------------------- MODULE GovernedDecisions ---------------------------
(***************************************************************************)
(* The four governed-decision operations, beside the archives, writers and *)
(* Cloud/F changes of their workspace                                      *)
(* (core/api/services/governed_decisions.py, migration 187).               *)
(*                                                                         *)
(* create, accept and supersede rewrite the frontmatter of a Markdown file *)
(* and then its row in governed_decisions; a historical pointer adds a row *)
(* only.  Each is a saga like the archive: a first commit takes the lease  *)
(* and the fence of one project, the file is written, a second commit      *)
(* checkpoints it, a third records the outcome, lifts the fence and        *)
(* advances the epoch.  A path stands for a project and a relative path, a *)
(* digest for the content it is the digest of.  What a refused call read   *)
(* is forgotten; a completed operation is replayed and changes nothing.    *)
(***************************************************************************)
EXTENDS ProjectLifecycle

CONSTANTS
    Paths,         \* artifact paths
    ProjectOf,     \* the project of each path
    Ids,           \* decision identifiers
    Texts,         \* normalized bodies
    NoId,          \* NULL in a decision column
    NoDocument,    \* no file at that path
    DecisionKind   \* operation_kind 'decision_...'

ASSUME PathAssumption == ProjectOf \in [Paths -> Projects]
ASSUME DecisionKindAssumption == DecisionKind \in Kinds \ {ArchiveKind}
ASSUME IdAssumption == NoId \notin Ids

VARIABLES
    document,      \* the files, by path
    record,        \* governed_decisions, by identifier
    decision,      \* decision_lifecycle_operations, by operation
    pointers       \* historical_artifact_pointers

decisionVars == <<document, record, decision, pointers>>
systemVars == <<allVars, decisionVars>>

Document ==
    [id: Ids \cup {NoId}, lifecycle: {"none", "draft", "accepted", "superseded"},
     by: Ids \cup {NoId}, text: Texts]

\* body keeps the body digest, which an acceptance does not update.
DecisionRow ==
    [path: Paths, content: Document, body: Texts,
     lifecycle: {"draft", "accepted", "superseded"}, by: Ids \cup {NoId}]

\* The two kinds of pointer are the two relations of operation_kind 'pointer'.
PointerKinds == {"forward", "applies_to"}

Request ==
    [kind: {"create", "accept", "supersede"} \cup PointerKinds,
     id: Ids \cup {NoId}, path: Paths, content: Document,
     target: Ids \cup {NoId}, targetContent: Document \cup {NoDocument}]

DecisionOperation ==
    [request: Request, actor: Actors, base: Nat,
     state: {"prepared", "filesystem_applied", "completed"}]

Pointer ==
    [path: Paths, relation: PointerKinds, target: Ids \cup {NoId}, text: Texts]

DecisionSaga ==
    [pc: {"starting", "restarting", "ready", "written", "marked"},
     op: Ops, actor: Actors, base: Nat, seen: Nat, generation: Nat,
     expires: Nat, request: Request]

ASSUME NoRowDecisionAssumption ==
    /\ NoRow \notin DecisionRow \cup DecisionOperation
    /\ NoDocument \notin Document

DecisionTypeOK ==
    /\ TypeOK
    /\ document \in [Paths -> Document \cup {NoDocument}]
    /\ record \in [Ids -> DecisionRow \cup {NoRow}]
    /\ decision \in [Ops -> DecisionOperation \cup {NoRow}]
    /\ pointers \subseteq Pointer
    /\ saga \in [Callers -> Saga \cup DecisionSaga \cup {NoSaga}]

\* A file without decision frontmatter, and the ones the operations write.
Plain(t) == [id |-> NoId, lifecycle |-> "none", by |-> NoId, text |-> t]
DraftOf(i, t) == [id |-> i, lifecycle |-> "draft", by |-> NoId, text |-> t]
AcceptedForm(doc, i) == [doc EXCEPT !.id = i, !.lifecycle = "accepted"]
SupersededForm(doc, i, j) ==
    [doc EXCEPT !.id = i, !.lifecycle = "superseded", !.by = j]

\* An activated workspace with historical files and decisions accepted
\* earlier; the epoch and the generation count from there.
DecisionInit ==
    /\ LifecycleInit
    /\ ready
    /\ \E t \in Texts : document \in
            [Paths -> {NoDocument, Plain(t)} \cup {AcceptedForm(Plain(t), i) : i \in Ids}]
    /\ \A q, r \in Paths : q # r /\ document[q] # NoDocument /\ document[r] # NoDocument =>
            document[q].id # document[r].id \/ document[q].id = NoId
    /\ record = [i \in Ids |->
            IF \E q \in Paths : document[q] # NoDocument /\ document[q].id = i
            THEN LET q == CHOOSE r \in Paths :
                            document[r] # NoDocument /\ document[r].id = i
                 IN [path |-> q, content |-> document[q], body |-> document[q].text,
                     lifecycle |-> "accepted", by |-> NoId]
            ELSE NoRow]
    /\ decision = [o \in Ops |-> NoRow]
    /\ pointers = {}

Exists(q) == document[q] # NoDocument
Known(i) == i \in Ids /\ record[i] # NoRow
Governed(q) == \E i \in Ids : Known(i) /\ record[i].path = q

-----------------------------------------------------------------------------
(* The checks made before the saga starts.  The digests a request carries  *)
(* are the ones its author saw; only a request that carries the present    *)
(* ones gets further, so it is built from them.                            *)

RequestFor(k, i, q, j, t) ==
    [kind |-> k, id |-> i, path |-> q, target |-> j,
     content |-> CASE k = "create" -> DraftOf(i, t)
                   [] k \in PointerKinds -> Plain(document[q].text)
                   [] OTHER -> document[q],
     targetContent |-> IF k = "supersede" THEN record[j].content ELSE NoDocument]

TargetExists(r) == Known(r.target)
TargetAccepted(r) == Known(r.target) /\ record[r.target].lifecycle = "accepted"

\* The source of a supersession is an accepted decision at that path or, when
\* the identifier is new, whatever file is there.
SourceAccepted(r) ==
    Known(r.id) => record[r.id].path = r.path /\ record[r.id].lifecycle = "accepted"

SupersedeStillAllowed(r) ==
    /\ TargetAccepted(r)
    /\ record[r.target].content = r.targetContent
    /\ document[record[r.target].path] = r.targetContent
    /\ SourceAccepted(r)
    /\ Exists(r.path)

PointerStillAllowed(r) ==
    /\ Exists(r.path)
    /\ document[r.path].text = r.content.text
    /\ r.target # NoId => TargetAccepted(r)

\* Checked by the first request and by every retry.
StillAllowed(r) ==
    /\ r.kind = "accept" => Known(r.id) /\ Exists(r.path)
    /\ r.kind = "supersede" => SupersedeStillAllowed(r)
    /\ r.kind \in PointerKinds => PointerStillAllowed(r)

CreateAllowed(r) == ~Known(r.id) /\ ~Governed(r.path) /\ ~Exists(r.path)

AcceptAllowed(r) ==
    /\ record[r.id].path = r.path
    /\ record[r.id].lifecycle = "draft"
    /\ record[r.id].content = r.content
    /\ document[r.path] = r.content

\* Checked by the first request only.
FirstAllowed(r) ==
    /\ StillAllowed(r)
    /\ r.kind = "create" => CreateAllowed(r)
    /\ r.kind = "accept" => AcceptAllowed(r)
    /\ r.kind = "supersede" => document[r.path] = r.content

\* What each kind of request names.
Names(k, i, q, j) ==
    CASE k = "create" -> i # NoId /\ j = NoId
      [] k = "accept" -> i # NoId /\ j = NoId /\ Exists(q)
      [] k = "supersede" -> i # NoId /\ Known(j) /\ Exists(q)
      [] k = "forward" -> i = NoId /\ j # NoId /\ Exists(q)
      [] k = "applies_to" -> i = NoId /\ Exists(q)

ControlFreeOrExpired == leaseOp = NoOp \/ leaseExpires <= now
ControlFree == leaseOp = NoOp /\ NothingActive

(* _start_or_resume_operation, the reads of a first request.  Every caller *)
(* fences one project: the one whose artifact changes or is pointed from.  *)
DecisionRead(p, o, act, x, r) ==
    LET s == ProjectOf[r.path] IN
    /\ ProcessIdle(p)
    /\ lock = Free
    /\ decision[o] = NoRow
    /\ FirstAllowed(r)
    /\ x > now
    /\ ready
    /\ ControlFree
    /\ Writable(s)
    /\ generation < MaxGeneration
    /\ epoch < MaxEpoch
    /\ lock' = p
    /\ saga' = [saga EXCEPT ![p] =
            [pc |-> "starting", op |-> o, actor |-> act, base |-> epoch,
             seen |-> generation, generation |-> generation + 1,
             expires |-> x, request |-> r]]
    /\ UNCHANGED <<vars, stateVars, archiveVars, yaml, files, writing, faults, decisionVars>>

(* The first commit: lease, registry, write event, fence and operation.    *)
CanStart(c) ==
    /\ ready
    /\ epoch = c.base
    /\ ControlFree
    /\ Writable(ProjectOf[c.request.path])

FenceForgotten(s, o) == UNCHANGED transition
RaiseFence(s, o) == transition' = [transition EXCEPT ![s] = o]

DecisionLeaseRowWithoutBase(c) ==
    [kind |-> DecisionKind, actor |-> c.actor, generation |-> c.generation]
DecisionLeaseRow(c) ==
    [kind |-> DecisionKind, actor |-> c.actor, base |-> c.base,
     generation |-> c.generation]

HoldLease(c) ==
    /\ generation' = c.generation
    /\ leaseOp' = c.op
    /\ leaseOwner' = c.actor
    /\ leaseExpires' = c.expires
    /\ active' = [active EXCEPT ![c.op] = DecisionLeaseRow(c)]
    /\ UNCHANGED <<ready, epoch, journal, now, call>>

DecisionPrepare(p) ==
    LET c == saga[p]
        s == ProjectOf[c.request.path]
    IN
    /\ c.pc = "starting"
    /\ CanStart(c)
    /\ HoldLease(c)
    /\ writer' = [writer EXCEPT ![s] = @ + 1]
    /\ RaiseFence(s, c.op)
    /\ decision' = [decision EXCEPT ![c.op] =
            [request |-> c.request, actor |-> c.actor, base |-> c.base,
             state |-> "prepared"]]
    /\ saga' = [saga EXCEPT ![p].pc = "ready"]
    /\ UNCHANGED <<lifecycle, selector, digest, archiveVars, yaml, files, lock,
                   writing, faults, document, record, pointers>>

(* A retry of an unfinished operation.  It takes up the lease its earlier  *)
(* attempt left, and goes on where the journal says it stopped.            *)
UnfinishedDecision(o) ==
    decision[o] # NoRow /\ decision[o].state \in {"prepared", "filesystem_applied"}

DecisionResumable(o, act) ==
    /\ UnfinishedDecision(o)
    /\ decision[o].actor = act
    /\ StillAllowed(decision[o].request)
    /\ ready
    /\ epoch = decision[o].base
    /\ leaseOp \in {NoOp, o}
    /\ NoOtherActive(o)
    /\ IsActive(o)
    /\ RowMatches(active[o], DecisionKind, act, epoch)
    /\ active[o].generation = generation
    /\ leaseOp = o => leaseOwner = act
    /\ transition[ProjectOf[decision[o].request.path]] = o

DecisionResume(p, o, act, x) ==
    /\ ProcessIdle(p)
    /\ lock = Free
    /\ DecisionResumable(o, act)
    /\ x > now
    /\ leaseOp = NoOp => generation < MaxGeneration
    /\ lock' = p
    /\ saga' = [saga EXCEPT ![p] =
            [pc |-> "restarting", op |-> o, actor |-> act, base |-> epoch,
             seen |-> generation,
             generation |-> IF leaseOp = NoOp THEN generation + 1 ELSE generation,
             expires |-> x, request |-> decision[o].request]]
    /\ UNCHANGED <<vars, stateVars, archiveVars, yaml, files, writing, faults, decisionVars>>

CanRestart(c) ==
    /\ epoch = c.base
    /\ generation = c.seen
    /\ leaseOp = NoOp \/ (leaseOp = c.op /\ leaseOwner = c.actor)
    /\ IsActive(c.op)
    /\ RowMatches(active[c.op], DecisionKind, c.actor, c.base)

DecisionRenew(p) ==
    LET c == saga[p] IN
    /\ c.pc = "restarting"
    /\ CanRestart(c)
    /\ HoldLease(c)
    /\ saga' = [saga EXCEPT ![p].pc =
            IF decision[c.op].state = "prepared" THEN "ready" ELSE "marked"]
    /\ UNCHANGED <<stateVars, archiveVars, yaml, files, lock, writing, faults, decisionVars>>

-----------------------------------------------------------------------------
(* The file, and the checkpoint.                                           *)

AcceptApplied(r) ==
    LET doc == document[r.path] IN
    /\ doc.id = r.id
    /\ doc.lifecycle = "accepted"
    /\ doc.text = record[r.id].body

SupersedeApplied(r) ==
    LET doc == document[r.path] IN
    /\ doc.lifecycle = "superseded"
    /\ doc.by = r.target
    /\ doc.text = r.content.text

\* An earlier attempt wrote the file; a pointer has no file to write, but its
\* source must still be the one it was made for.
AlreadyApplied(r) ==
    CASE r.kind = "create" -> document[r.path] = r.content
      [] r.kind = "accept" -> AcceptApplied(r)
      [] r.kind = "supersede" -> SupersedeApplied(r)
      [] OTHER -> document[r.path].text = r.content.text

\* What the file must say for the step to be taken.
ReadyForStep(r) ==
    IF r.kind = "create" THEN ~Exists(r.path) ELSE document[r.path] = r.content

StepResult(r) ==
    CASE r.kind = "create" -> r.content
      [] r.kind = "accept" -> AcceptedForm(document[r.path], r.id)
      [] r.kind = "supersede" -> SupersededForm(document[r.path], r.id, r.target)

CanApplyOnce(r) ==
    IF r.kind \in PointerKinds THEN AlreadyApplied(r) ELSE ReadyForStep(r)
CanApply(r) == AlreadyApplied(r) \/ (r.kind \notin PointerKinds /\ ReadyForStep(r))

DecisionApply(p) ==
    LET c == saga[p]
        r == c.request
    IN
    /\ c.pc = "ready"
    /\ CanApply(r)
    /\ document' = IF AlreadyApplied(r) THEN document
                   ELSE [document EXCEPT ![r.path] = StepResult(r)]
    /\ saga' = [saga EXCEPT ![p].pc = "written"]
    /\ UNCHANGED <<vars, stateVars, archiveVars, yaml, files, lock, writing, faults,
                   record, decision, pointers>>

\* The file is read again before the step is marked as done.
BodyKept(r) ==
    /\ r.kind = "accept" => document[r.path].text = record[r.id].body
    /\ r.kind = "supersede" => document[r.path].text = r.content.text

DecisionMark(p) ==
    LET c == saga[p] IN
    /\ c.pc = "written"
    /\ BodyKept(c.request)
    /\ decision' = [decision EXCEPT ![c.op].state = "filesystem_applied"]
    /\ saga' = [saga EXCEPT ![p].pc = "marked"]
    /\ UNCHANGED <<vars, stateVars, archiveVars, yaml, files, lock, writing, faults,
                   document, record, pointers>>

-----------------------------------------------------------------------------
(* The last transaction: the rows of the operation, from a new look at the *)
(* file, then _complete_operation.                                         *)

\* The unique index on pointers.
SameIdentity(ptr, path, relation, target) ==
    ptr.path = path /\ ptr.relation = relation /\ ptr.target = target

PointerTaken(r) == \E ptr \in pointers : SameIdentity(ptr, r.path, r.kind, r.target)

\* No row or unique index stands against the rows of the operation.
CanRecord(r) ==
    CASE r.kind = "create" -> ~Known(r.id) /\ ~Governed(r.path)
      [] r.kind = "accept" -> record[r.id].lifecycle = "draft"
      [] r.kind = "supersede" -> Known(r.id) \/ ~Governed(r.path)
      [] OTHER -> ~PointerTaken(r)

DraftRow(r) ==
    [path |-> r.path, content |-> document[r.path], body |-> document[r.path].text,
     lifecycle |-> "draft", by |-> NoId]

AcceptedRowWithOldDigest(r) == [record[r.id] EXCEPT !.lifecycle = "accepted"]
AcceptedRow(r) ==
    [record[r.id] EXCEPT !.lifecycle = "accepted", !.content = document[r.path]]

SupersededRow(r) ==
    [path |-> r.path, content |-> document[r.path], body |-> document[r.path].text,
     lifecycle |-> "superseded", by |-> r.target]

RecordAfter(r) ==
    CASE r.kind = "create" -> [record EXCEPT ![r.id] = DraftRow(r)]
      [] r.kind = "accept" -> [record EXCEPT ![r.id] = AcceptedRow(r)]
      [] r.kind = "supersede" -> [record EXCEPT ![r.id] = SupersededRow(r)]
      [] OTHER -> record

\* A supersession leaves a forward pointer unless there is one already.
ForwardPointers(r) ==
    IF \E ptr \in pointers : SameIdentity(ptr, r.path, "forward", r.target)
    THEN {}
    ELSE {[path |-> r.path, relation |-> "forward", target |-> r.target,
           text |-> r.content.text]}

PointersAfter(r) ==
    CASE r.kind \in PointerKinds -> pointers \cup
            {[path |-> r.path, relation |-> r.kind, target |-> r.target,
              text |-> r.content.text]}
      [] r.kind = "supersede" -> pointers \cup ForwardPointers(r)
      [] OTHER -> pointers

CanComplete(c) ==
    /\ decision[c.op].state = "filesystem_applied"
    /\ decision[c.op].actor = c.actor
    /\ epoch = c.base
    /\ leaseOp = c.op
    /\ leaseOwner = c.actor
    /\ IsActive(c.op)
    /\ NoOtherActive(c.op)
    /\ RowMatches(active[c.op], DecisionKind, c.actor, c.base)
    /\ active[c.op].generation = generation
    /\ leaseExpires > now
    /\ transition[ProjectOf[c.request.path]] = c.op

DecisionFinish(p) ==
    LET c == saga[p]
        r == c.request
    IN
    /\ c.pc = "marked"
    /\ CanRecord(r)
    /\ CanComplete(c)
    /\ record' = RecordAfter(r)
    /\ pointers' = PointersAfter(r)
    /\ LiftFence(ProjectOf[r.path])
    /\ decision' = [decision EXCEPT ![c.op].state = "completed"]
    /\ active' = [active EXCEPT ![c.op] = NoRow]
    /\ epoch' = epoch + 1
    /\ leaseOp' = NoOp
    /\ leaseOwner' = NoActor
    /\ leaseExpires' = 0
    /\ lock' = Free
    /\ saga' = [saga EXCEPT ![p] = NoSaga]
    /\ UNCHANGED <<ready, generation, journal, now, call, lifecycle, writer, selector,
                   digest, archiveVars, yaml, files, writing, faults, document>>

-----------------------------------------------------------------------------
DecisionRefused(c) ==
    \/ c.pc = "starting" /\ ~CanStart(c)
    \/ c.pc = "restarting" /\ ~CanRestart(c)
    \/ c.pc = "ready" /\ ~CanApply(c.request)
    \/ c.pc = "written" /\ ~BodyKept(c.request)
    \/ c.pc = "marked" /\ ~(CanRecord(c.request) /\ CanComplete(c))

DecisionRefuse(p) ==
    /\ saga[p] # NoSaga
    /\ DecisionRefused(saga[p])
    /\ EndSaga(p)
    /\ UNCHANGED <<faults, decisionVars>>

\* A decision file is edited behind the journal, like project.yaml.
DocumentEdit(q, t) ==
    /\ Exists(q)
    /\ document[q].text # t
    /\ faults < MaxFaults
    /\ faults' = faults + 1
    /\ document' = [document EXCEPT ![q].text = t]
    /\ UNCHANGED <<vars, stateVars, archiveVars, yaml, files, lock, writing, saga,
                   record, decision, pointers>>

\* The requests whose author saw the workspace as it is now.
BodiesFor(q) == IF Exists(q) THEN {document[q].text} ELSE Texts

DecisionStart(p) ==
    \/ \E k \in {"create", "accept", "supersede"} \cup PointerKinds,
           i, j \in Ids \cup {NoId}, q \in Paths :
            /\ ProcessIdle(p)
            /\ Names(k, i, q, j)
            /\ \E t \in BodiesFor(q), o \in Ops, act \in Actors, x \in 1 .. MaxTime + 1 :
                    DecisionRead(p, o, act, x, RequestFor(k, i, q, j, t))
    \/ \E o \in Ops, act \in Actors, x \in 1 .. MaxTime + 1 :
            DecisionResume(p, o, act, x)

DecisionStep(p) ==
    \/ DecisionPrepare(p)
    \/ DecisionRenew(p)
    \/ DecisionApply(p)
    \/ DecisionMark(p)
    \/ DecisionFinish(p)
    \/ DecisionRefuse(p)

\* ArchiveCrash ends any saga, a decision's too.
DecisionNext ==
    \/ LifecycleNext /\ UNCHANGED decisionVars
    \/ \E p \in Callers : DecisionStart(p) \/ DecisionStep(p)
    \/ \E q \in Paths, t \in Texts : DocumentEdit(q, t)

DecisionSpec == DecisionInit /\ [][DecisionNext]_systemVars

-----------------------------------------------------------------------------
(* Properties.                                                             *)

\* Archives and decisions share one fence: a project is fenced exactly while
\* an operation of either kind is unfinished for it, and by that operation.
FenceMatchesEitherOperation ==
    \A s \in Projects, o \in Ops : transition[s] = o <=>
        \/ Unfinished(o) /\ operation[o].project = s
        \/ UnfinishedDecision(o) /\ ProjectOf[decision[o].request.path] = s

\* What the file of a decision says of itself is what its row says, whatever
\* crashed and whoever edited the body, unless an unfinished operation is at
\* work on that file.
FrontmatterMatchesRecord ==
    \A i \in Ids : Known(i) =>
        LET row == record[i] IN
        \/ \E o \in Ops : UnfinishedDecision(o) /\ decision[o].request.path = row.path
        \/ /\ row.content.id = i
           /\ row.content.lifecycle = row.lifecycle
           /\ row.content.by = row.by
           /\ document[row.path] = [row.content EXCEPT !.text = document[row.path].text]

\* A request that contradicts a row already there, which nothing finds out
\* before the last transaction (or, for a decision superseded by itself, before
\* a retry).
Contradicted(r) ==
    \/ r.kind \in PointerKinds /\ PointerTaken(r)
    \/ r.kind = "supersede" /\ (r.id = r.target \/ (~Known(r.id) /\ Governed(r.path)))

\* The files the operation reads have the bodies the request was made for.
BodiesAsRequested(r) ==
    /\ Exists(r.path) => document[r.path].text = r.content.text
    /\ r.kind = "supersede" =>
            document[record[r.target].path].text = r.targetContent.text

CanBeFinished(o) ==
    LET r == decision[o].request IN
    /\ DecisionResumable(o, decision[o].actor)
    /\ decision[o].state = "prepared" => CanApply(r)
    /\ CanRecord(r)

\* Within one process, a decision operation that was interrupted or refused
\* anywhere can be taken up by its actor and finished, once bodies that were
\* edited meanwhile are put back.
InterruptedDecisionsResume ==
    \A o \in Ops :
        UnfinishedDecision(o) /\ lock = Free /\ BodiesAsRequested(decision[o].request)
            => Contradicted(decision[o].request) \/ CanBeFinished(o)

\* The same without the exception: "SQLite persists a resumable saga"
\* (governed_decisions.py:4).
EveryDecisionResumes ==
    \A o \in Ops :
        UnfinishedDecision(o) /\ lock = Free /\ BodiesAsRequested(decision[o].request)
            => CanBeFinished(o)

\* Following superseded_by from decision to decision comes to an end: every
\* set of decisions has one that is not superseded by another one of the set.
\* Exception: a decision superseded by itself, which the code does not refuse,
\* ends a chain although it names a next decision, itself.
SupersessionEnds ==
    \A S \in (SUBSET Ids) \ {{}} :
        \E i \in S : Known(i) => record[i].by \notin S \ {i}

\* Within one process, no operation creates or rewrites a decision file unless
\* its own fence is up, the lease is its own and the project is not archived.
\* (Another process may have taken the lease over, as in AtMostOneActive.)
FilesChangeUnderFence ==
    [][\A q \in Paths :
        document'[q] # document[q]
        /\ (Exists(q) => document'[q] # [document[q] EXCEPT !.text = document'[q].text])
            => LET o == transition[ProjectOf[q]] IN
               /\ lifecycle[ProjectOf[q]] = "active"
               /\ o # NoOp
               /\ UnfinishedDecision(o)
               /\ decision[o].request.path = q
               /\ leaseOp = o]_systemVars

\* Within one process, decisions, archives and the other protected changes
\* together implement the abstract exclusive change.
ImplementsExclusiveChangeWithDecisions == Exclusive!Spec
=============================================================================
