------------------------ MODULE GovernedDecisionsProofs ------------------------
(***************************************************************************)
(* Proofs about GovernedDecisions.                                         *)
(*                                                                         *)
(* DecisionInv holds for any number of processes.  At most one operation,  *)
(* an archive or a decision, is unfinished in a workspace, because its     *)
(* registry row stays until it is finished and a first commit wants the    *)
(* registry empty.  While a decision is unfinished the rows say what they  *)
(* said when it was asked for, and the file is as it was before its step   *)
(* or after it, whoever crashed or edited the body.                        *)
(*                                                                         *)
(* With a single process OneInv holds as well: lease, registry and the     *)
(* unfinished operations agree, and decisions join archives as operations  *)
(* of the abstract exclusive change.                                       *)
(***************************************************************************)
EXTENDS GovernedDecisions, ProjectLifecycleProofs

-----------------------------------------------------------------------------
(* The inductive invariant.                                                *)

\* The lifecycle variables but saga, which also serves decisions here.
LifecycleTyped ==
    /\ lifecycle \in [Projects -> {"active", "archived"}]
    /\ writer \in [Projects -> Nat]
    /\ selector \in [Projects -> Selectors]
    /\ transition \in [Projects -> Ops \cup {NoOp}]
    /\ digest \in [Projects -> Content]
    /\ yaml \in [Projects -> Content]
    /\ files \in [Projects -> Nat]
    /\ approval \in [Approvals -> ApprovalRow \cup {NoRow}]
    /\ operation \in [Ops -> OperationRow \cup {NoRow}]
    /\ lock \in Callers \cup Writers \cup {Free}
    /\ writing \in [Writers -> Projects \cup {NoProject}]
    /\ faults \in Nat

Pending(o) == Unfinished(o) \/ UnfinishedDecision(o)

\* Archives and decisions in work are registered and are no change of a route;
\* one is in work at a time, and the first commit of each was let through by
\* an empty registry.
OneOperation ==
    /\ \A o \in Ops :
        /\ JournalActive(o) => IsActive(o)
        /\ Unfinished(o) =>
            /\ IsActive(o) /\ ~JournalActive(o)
            /\ RowMatches(active[o], ArchiveKind, operation[o].actor,
                          approval[operation[o].approval].epoch)
        /\ UnfinishedDecision(o) =>
            /\ IsActive(o) /\ ~JournalActive(o)
            /\ RowMatches(active[o], DecisionKind, decision[o].actor, decision[o].base)
    /\ \A o1, o2 \in Ops : Pending(o1) /\ Pending(o2) => o1 = o2

ApprovalsKept ==
    \A o \in Ops : operation[o] # NoRow => approval[operation[o].approval] # NoRow

\* Two files that differ in their bodies only.
Alike(doc, other) ==
    doc.id = other.id /\ doc.lifecycle = other.lifecycle /\ doc.by = other.by

HasForm(q, form) == Exists(q) /\ Alike(document[q], form)

\* A row says what the file it was made from says of itself.
RowsSound ==
    /\ \A i \in Ids : Known(i) =>
        /\ record[i].content.id = i
        /\ record[i].content.lifecycle = record[i].lifecycle
        /\ record[i].content.by = record[i].by
        /\ record[i].lifecycle # "superseded" => record[i].by = NoId
        /\ record[i].lifecycle = "draft" => record[i].body = record[i].content.text
    /\ \A i, j \in Ids : Known(i) /\ Known(j) /\ record[i].path = record[j].path => i = j

\* Files that no unfinished operation may rewrite.
Rewritten(q) ==
    \E o \in Ops : /\ UnfinishedDecision(o)
                   /\ decision[o].request.path = q
                   /\ decision[o].request.kind \notin PointerKinds

FilesSound ==
    \A q \in Paths : ~Rewritten(q) =>
        /\ \A i \in Ids : Known(i) /\ record[i].path = q => HasForm(q, record[i].content)
        /\ Exists(q) /\ ~Governed(q) => Alike(document[q], Plain(document[q].text))

\* What the rows say as long as the request r is served.
Asked(r) ==
    /\ r.kind = "create" =>
        /\ r.id \in Ids /\ ~Known(r.id) /\ ~Governed(r.path)
        /\ r.content = DraftOf(r.id, r.content.text)
    /\ r.kind = "accept" =>
        /\ Known(r.id) /\ record[r.id].path = r.path
        /\ record[r.id].lifecycle = "draft" /\ record[r.id].content = r.content
    /\ r.kind = "supersede" =>
        /\ r.id \in Ids
        /\ TargetAccepted(r) /\ record[r.target].content = r.targetContent
        /\ SourceAccepted(r)
        /\ Known(r.id) => Alike(r.content, record[r.id].content)
        /\ ~Governed(r.path) => r.content.lifecycle = "none"
    /\ r.kind \in PointerKinds /\ r.target # NoId => TargetAccepted(r)

Before(r) ==
    /\ r.kind = "create" => ~Exists(r.path)
    /\ r.kind \in {"accept", "supersede"} => HasForm(r.path, r.content)
    /\ r.kind \in PointerKinds => Exists(r.path)

After(r) ==
    /\ r.kind = "create" => HasForm(r.path, r.content)
    /\ r.kind = "accept" => HasForm(r.path, AcceptedForm(r.content, r.id))
    /\ r.kind = "supersede" =>
            HasForm(r.path, SupersededForm(r.content, r.id, r.target))
    /\ r.kind \in PointerKinds => Exists(r.path)

\* A new identifier for a path that is already governed: the file may look as
\* if it was superseded, and the last transaction refuses.
DeadEnd(r) == r.kind = "supersede" /\ ~Known(r.id) /\ Governed(r.path)

DecisionsSound ==
    \A o \in Ops, r \in Request : UnfinishedDecision(o) /\ decision[o].request = r =>
        /\ Asked(r)
        /\ Before(r) \/ After(r)
        /\ decision[o].state = "filesystem_applied" => After(r) \/ DeadEnd(r)

\* What a process that serves a saga knows of it.
SagaFits(c) ==
    /\ c.pc = "reserving" => approval[c.approval] # NoRow
    /\ c.pc \in {"resuming", "prepared", "applied", "checkpointed"} =>
        /\ Unfinished(c.op)
        /\ operation[c.op].approval = c.approval
        /\ operation[c.op].actor = c.actor
    /\ c.pc = "starting" => Asked(c.request) /\ Before(c.request)
    /\ c.pc \in {"restarting", "ready", "written", "marked"} =>
        /\ UnfinishedDecision(c.op)
        /\ decision[c.op].request = c.request
        /\ decision[c.op].actor = c.actor
        /\ decision[c.op].base = c.base
    /\ c.pc = "written" => After(c.request) \/ DeadEnd(c.request)

SagasSound ==
    \A p \in Callers, c \in Saga \cup DecisionSaga : saga[p] = c => SagaFits(c)

DecisionInv ==
    /\ DecisionTypeOK /\ LifecycleTyped
    /\ LocksHeld
    /\ FenceMatchesEitherOperation
    /\ ArchivedNotFenced
    /\ OneOperation
    /\ ApprovalsKept
    /\ RowsSound
    /\ FilesSound
    /\ DecisionsSound
    /\ SagasSound

-----------------------------------------------------------------------------
(* Rows and sagas.                                                         *)

LEMMA ApprovalFields ==
    ASSUME LifecycleTyped, NEW a \in Approvals, approval[a] # NoRow
    PROVE  /\ approval[a] \in ApprovalRow
           /\ approval[a].project \in Projects /\ approval[a].content \in Content
           /\ approval[a].epoch \in Nat
  <1>1. approval[a] \in ApprovalRow
    BY DEF LifecycleTyped
  <1>2. QED
    BY <1>1 DEF ApprovalRow

LEMMA OperationFields ==
    ASSUME LifecycleTyped, NEW o \in Ops, operation[o] # NoRow
    PROVE  /\ operation[o] \in OperationRow
           /\ operation[o].project \in Projects /\ operation[o].approval \in Approvals
           /\ operation[o].actor \in Actors /\ operation[o].content \in Content
           /\ operation[o].state \in {"prepared", "filesystem_applied", "completed"}
  <1>1. operation[o] \in OperationRow
    BY DEF LifecycleTyped
  <1>2. QED
    BY <1>1 DEF OperationRow

LEMMA RequestFields ==
    ASSUME NEW r \in Request
    PROVE  /\ r.kind \in {"create", "accept", "supersede", "forward", "applies_to"}
           /\ r.id \in Ids \cup {NoId} /\ r.path \in Paths /\ r.content \in Document
           /\ r.target \in Ids \cup {NoId}
           /\ r.content # NoDocument /\ ProjectOf[r.path] \in Projects
  <1>1. /\ r.kind \in {"create", "accept", "supersede", "forward", "applies_to"}
        /\ r.id \in Ids \cup {NoId} /\ r.path \in Paths /\ r.content \in Document
        /\ r.target \in Ids \cup {NoId}
    BY DEF Request, PointerKinds
  <1>2. QED
    BY <1>1, NoRowDecisionAssumption, PathAssumption

LEMMA DecisionFields ==
    ASSUME DecisionTypeOK, NEW o \in Ops, decision[o] # NoRow
    PROVE  /\ decision[o] \in DecisionOperation
           /\ decision[o].request \in Request /\ decision[o].actor \in Actors
           /\ decision[o].base \in Nat
           /\ decision[o].state \in {"prepared", "filesystem_applied", "completed"}
  <1>1. decision[o] \in DecisionOperation
    BY DEF DecisionTypeOK
  <1>2. QED
    BY <1>1 DEF DecisionOperation

LEMMA RecordFields ==
    ASSUME DecisionTypeOK, NEW i, Known(i)
    PROVE  /\ i \in Ids /\ record[i] \in DecisionRow
           /\ record[i].path \in Paths /\ record[i].content \in Document
           /\ record[i].body \in Texts /\ record[i].by \in Ids \cup {NoId}
           /\ record[i].lifecycle \in {"draft", "accepted", "superseded"}
  <1>1. i \in Ids /\ record[i] \in DecisionRow
    BY DEF DecisionTypeOK, Known
  <1>2. QED
    BY <1>1 DEF DecisionRow

ArchivePcs == {"reserving", "resuming", "prepared", "applied", "checkpointed"}
DecisionPcs == {"starting", "restarting", "ready", "written", "marked"}

\* The program counter tells what a process serves.
LEMMA SagaKinds ==
    ASSUME DecisionTypeOK, NEW p \in Callers
    PROVE  /\ saga[p] = NoSaga \/ saga[p].pc \in ArchivePcs \cup DecisionPcs
           /\ saga[p].pc \in ArchivePcs =>
                /\ saga[p] # NoSaga /\ saga[p] \in Saga
                /\ saga[p].op \in Ops /\ saga[p].approval \in Approvals
                /\ saga[p].actor \in Actors /\ saga[p].generation \in Nat
                /\ saga[p].expires \in Nat /\ saga[p].found \in Content
           /\ saga[p].pc \in DecisionPcs =>
                /\ saga[p] # NoSaga /\ saga[p] \in DecisionSaga
                /\ saga[p].op \in Ops /\ saga[p].actor \in Actors
                /\ saga[p].base \in Nat /\ saga[p].generation \in Nat
                /\ saga[p].expires \in Nat /\ saga[p].request \in Request
  <1>1. saga[p] \in Saga \cup DecisionSaga \cup {NoSaga}
    BY DEF DecisionTypeOK
  <1>2. CASE saga[p] \in Saga
    BY <1>2 DEF Saga, ArchivePcs, DecisionPcs, NoSaga
  <1>3. CASE saga[p] \in DecisionSaga
    BY <1>3 DEF DecisionSaga, ArchivePcs, DecisionPcs, NoSaga
  <1>4. CASE saga[p] = NoSaga
    BY <1>4 DEF NoSaga, ArchivePcs, DecisionPcs
  <1>5. QED
    BY <1>1, <1>2, <1>3, <1>4

\* At most one process or writer is inside the project lock.
LEMMA OneHolder ==
    ASSUME DecisionInv
    PROVE  /\ \A p \in Callers : saga[p] # NoSaga =>
                /\ lock = p
                /\ \A q \in Callers : q # p => saga[q] = NoSaga
                /\ \A w \in Writers : writing[w] = NoProject
           /\ \A w \in Writers : writing[w] # NoProject =>
                /\ lock = w
                /\ \A q \in Callers : saga[q] = NoSaga
                /\ \A v \in Writers : v # w => writing[v] = NoProject
           /\ lock = Free =>
                /\ \A q \in Callers : saga[q] = NoSaga
                /\ \A w \in Writers : writing[w] = NoProject
  BY WriterAssumption, FreeAssumption DEF DecisionInv, LocksHeld

\* A process begins, goes on with or ends what it serves, and nobody else is
\* inside the project lock.
LEMMA SagaMoves ==
    ASSUME DecisionInv, NEW p \in Callers, NEW d \in Saga \cup DecisionSaga \cup {NoSaga},
           saga' = [saga EXCEPT ![p] = d], UNCHANGED writing,
           lock = Free \/ saga[p] # NoSaga, lock' = IF d = NoSaga THEN Free ELSE p
    PROVE  /\ saga' \in [Callers -> Saga \cup DecisionSaga \cup {NoSaga}]
           /\ saga'[p] = d /\ \A q \in Callers : q # p => saga'[q] = NoSaga
           /\ LocksHeld'
           /\ lock' \in Callers \cup Writers \cup {Free}
           /\ writing' \in [Writers -> Projects \cup {NoProject}]
           /\ (d # NoSaga => SagaFits(d)') => SagasSound'
  <1>1. /\ \A q \in Callers : q # p => saga[q] = NoSaga
        /\ \A w \in Writers : writing[w] = NoProject
    BY OneHolder
  <1>2. saga \in [Callers -> Saga \cup DecisionSaga \cup {NoSaga}]
    BY DEF DecisionInv, DecisionTypeOK
  <1>3. /\ saga' \in [Callers -> Saga \cup DecisionSaga \cup {NoSaga}]
        /\ saga'[p] = d /\ \A q \in Callers : q # p => saga'[q] = NoSaga
    BY <1>1, <1>2
  <1>4. LocksHeld'
    BY <1>1, <1>3 DEF LocksHeld
  <1>5. /\ lock' \in Callers \cup Writers \cup {Free}
        /\ writing' \in [Writers -> Projects \cup {NoProject}]
    BY DEF DecisionInv, LifecycleTyped
  <1>6. ASSUME d # NoSaga => SagaFits(d)' PROVE SagasSound'
    <2>1. NoSaga \notin Saga \cup DecisionSaga
      BY DEF NoSaga, Saga, DecisionSaga
    <2>2. ASSUME NEW q \in Callers, NEW c \in Saga \cup DecisionSaga, saga'[q] = c
          PROVE  SagaFits(c)'
      <3>1. q = p /\ c = d /\ d # NoSaga
        BY <1>3, <2>1, <2>2
      <3>2. QED
        BY <1>6, <3>1
    <2>3. QED
      BY <2>2 DEF SagasSound
  <1>7. QED
    BY <1>3, <1>4, <1>5, <1>6

-----------------------------------------------------------------------------
(* What a step leaves alone.                                               *)

\* What the invariant says of files does not depend on their bodies.
FormsKept ==
    \A q \in Paths :
        /\ (document'[q] = NoDocument) <=> (document[q] = NoDocument)
        /\ document[q] # NoDocument =>
            /\ document'[q].id = document[q].id
            /\ document'[q].lifecycle = document[q].lifecycle
            /\ document'[q].by = document[q].by

LEMMA RequestKept ==
    ASSUME FormsKept, UNCHANGED record, NEW r \in Request
    PROVE  /\ Asked(r)' <=> Asked(r)
           /\ Before(r)' <=> Before(r)
           /\ After(r)' <=> After(r)
           /\ DeadEnd(r)' <=> DeadEnd(r)
  <1>1. r.path \in Paths
    BY RequestFields
  <1>2. Asked(r)' <=> Asked(r)
    BY DEF Asked, TargetAccepted, SourceAccepted, Known, Governed, Alike
  <1>3. /\ Exists(r.path)' <=> Exists(r.path)
        /\ \A form : HasForm(r.path, form)' <=> HasForm(r.path, form)
    BY <1>1 DEF FormsKept, Exists, HasForm, Alike
  <1>4. (Before(r)' <=> Before(r)) /\ (After(r)' <=> After(r))
    BY <1>3 DEF Before, After
  <1>5. DeadEnd(r)' <=> DeadEnd(r)
    BY DEF DeadEnd, Known, Governed
  <1>6. QED
    BY <1>2, <1>4, <1>5

\* The rows and the files stay as they are, but for bodies.
LEMMA RecordsKept ==
    ASSUME DecisionInv, FormsKept, UNCHANGED <<record, decision>>
    PROVE  RowsSound' /\ FilesSound' /\ DecisionsSound'
  <1>1. RowsSound'
    BY DEF DecisionInv, RowsSound, Known
  <1>2. FilesSound'
    <2>1. ASSUME NEW q \in Paths, ~Rewritten(q)'
          PROVE  /\ \A i \in Ids : Known(i)' /\ record'[i].path = q =>
                        HasForm(q, record[i].content)'
                 /\ Exists(q)' /\ ~Governed(q)' =>
                        Alike(document[q], Plain(document[q].text))'
      <3>1. ~Rewritten(q)
        BY <2>1 DEF Rewritten, UnfinishedDecision
      <3>2. /\ \A i \in Ids : Known(i) /\ record[i].path = q => HasForm(q, record[i].content)
            /\ Exists(q) /\ ~Governed(q) => Alike(document[q], Plain(document[q].text))
        BY <3>1 DEF DecisionInv, FilesSound
      <3>3. \A i \in Ids : Known(i)' /\ record'[i].path = q => HasForm(q, record[i].content)'
        BY <3>2 DEF FormsKept, Known, HasForm, Exists, Alike
      <3>4. Exists(q)' /\ ~Governed(q)' => Alike(document[q], Plain(document[q].text))'
        BY <3>2 DEF FormsKept, Known, Governed, Exists, Alike, Plain
      <3>5. QED
        BY <3>3, <3>4
    <2>2. QED
      BY <2>1 DEF FilesSound
  <1>3. DecisionsSound'
    <2>1. ASSUME NEW o \in Ops, NEW r \in Request, UnfinishedDecision(o)',
                 decision'[o].request = r
          PROVE  /\ Asked(r)' /\ (Before(r)' \/ After(r)')
                 /\ decision'[o].state = "filesystem_applied" => After(r)' \/ DeadEnd(r)'
      <3>1. /\ Asked(r) /\ (Before(r) \/ After(r))
            /\ decision[o].state = "filesystem_applied" => After(r) \/ DeadEnd(r)
        BY <2>1 DEF DecisionInv, DecisionsSound, UnfinishedDecision
      <3>2. QED
        BY <3>1, RequestKept
    <2>2. QED
      BY <2>1 DEF DecisionsSound
  <1>4. QED
    BY <1>1, <1>2, <1>3

\* The operations in work, the fences and the approvals stay as they are.
LEMMA OperationsKept ==
    ASSUME DecisionInv, UNCHANGED <<lifecycle, transition, operation, decision>>,
           \A a \in Approvals : approval[a] # NoRow => approval'[a] = approval[a],
           \A o \in Ops : Pending(o) => active'[o] = active[o] /\ ~JournalActive(o)',
           \A o \in Ops : JournalActive(o)' => IsActive(o)'
    PROVE  /\ FenceMatchesEitherOperation' /\ ArchivedNotFenced' /\ OneOperation'
           /\ ApprovalsKept'
  <1>1. FenceMatchesEitherOperation' /\ ArchivedNotFenced'
    BY DEF DecisionInv, FenceMatchesEitherOperation, ArchivedNotFenced, Unfinished,
           UnfinishedDecision
  <1>2. \A o \in Ops : operation[o] # NoRow =>
            /\ approval[operation[o].approval] # NoRow
            /\ approval'[operation[o].approval] = approval[operation[o].approval]
    BY OperationFields DEF DecisionInv, ApprovalsKept
  <1>3. ApprovalsKept'
    BY <1>2 DEF ApprovalsKept
  <1>4. \A o \in Ops : /\ Unfinished(o)' <=> Unfinished(o)
                       /\ UnfinishedDecision(o)' <=> UnfinishedDecision(o)
    BY DEF Unfinished, UnfinishedDecision
  <1>5. ASSUME NEW o \in Ops, Unfinished(o)
        PROVE  /\ active'[o] # NoRow
               /\ RowMatches(active'[o], ArchiveKind, operation'[o].actor,
                             approval'[operation'[o].approval].epoch)
    BY <1>2, <1>5 DEF DecisionInv, OneOperation, Pending, Unfinished, IsActive, RowMatches
  <1>6. ASSUME NEW o \in Ops, UnfinishedDecision(o)
        PROVE  /\ active'[o] # NoRow
               /\ RowMatches(active'[o], DecisionKind, decision'[o].actor, decision'[o].base)
    BY <1>6 DEF DecisionInv, OneOperation, Pending, IsActive, RowMatches
  <1>7. \A o1, o2 \in Ops : Pending(o1)' /\ Pending(o2)' => o1 = o2
    BY <1>4 DEF DecisionInv, OneOperation, Pending
  <1>8. OneOperation'
    BY <1>4, <1>5, <1>6, <1>7 DEF OneOperation, Pending, IsActive, RowMatches
  <1>9. QED
    BY <1>1, <1>3, <1>8

\* What a process serves fits as long as the rows stay.
LEMMA SagasKept ==
    ASSUME DecisionInv, FormsKept, UNCHANGED <<saga, operation, decision, record>>,
           \A a \in Approvals : approval[a] # NoRow => approval'[a] = approval[a]
    PROVE  SagasSound'
  <1>1. ASSUME NEW p \in Callers, NEW c \in Saga \cup DecisionSaga, saga[p] = c
        PROVE  SagaFits(c)'
    <2>1. SagaFits(c)
      BY <1>1 DEF DecisionInv, SagasSound
    <2>2. /\ c.pc \in ArchivePcs \cup DecisionPcs
          /\ c.pc \in ArchivePcs => c.approval \in Approvals
          /\ c.pc \in DecisionPcs => c.request \in Request
      <3>1. CASE c \in Saga
        BY <3>1 DEF Saga, ArchivePcs, DecisionPcs
      <3>2. CASE c \in DecisionSaga
        BY <3>2 DEF DecisionSaga, ArchivePcs, DecisionPcs
      <3>3. QED
        BY <1>1, <3>1, <3>2
    <2>3. CASE c.pc \in ArchivePcs
      BY <2>1, <2>2, <2>3 DEF ArchivePcs, SagaFits, Unfinished
    <2>4. CASE c.pc \in DecisionPcs
      <3>1. PICK r \in Request : r = c.request
        BY <2>2, <2>4
      <3>2. /\ Asked(r)' <=> Asked(r)
            /\ Before(r)' <=> Before(r)
            /\ After(r)' <=> After(r)
            /\ DeadEnd(r)' <=> DeadEnd(r)
        BY RequestKept
      <3>3. QED
        BY <2>1, <2>4, <3>1, <3>2 DEF DecisionPcs, SagaFits, UnfinishedDecision
    <2>5. QED
      BY <2>2, <2>3, <2>4
  <1>2. QED
    BY <1>1 DEF SagasSound

\* Nothing of the decisions changes, and what serves them neither.
LEMMA SameForms ==
    ASSUME UNCHANGED document
    PROVE  FormsKept
  BY DEF FormsKept

-----------------------------------------------------------------------------
(* The initial states.                                                     *)

LEMMA FormsTyped ==
    ASSUME NEW t \in Texts, NEW i \in Ids
    PROVE  /\ Plain(t) \in Document /\ AcceptedForm(Plain(t), i) \in Document
           /\ DraftOf(i, t) \in Document
           /\ Plain(t).id = NoId /\ Plain(t).lifecycle = "none" /\ Plain(t).by = NoId
           /\ AcceptedForm(Plain(t), i).id = i
           /\ AcceptedForm(Plain(t), i).lifecycle = "accepted"
           /\ AcceptedForm(Plain(t), i).by = NoId
  BY DEF Plain, AcceptedForm, DraftOf, Document

LEMMA DecisionInvInit == DecisionInit => DecisionInv
  <1> SUFFICES ASSUME DecisionInit PROVE DecisionInv
    OBVIOUS
  <1>1. /\ LifecycleInit /\ decision = [o \in Ops |-> NoRow] /\ pointers = {}
        /\ operation = [o \in Ops |-> NoRow] /\ journal = [o \in Ops |-> NoRow]
        /\ saga = [p \in Callers |-> NoSaga] /\ writing = [w \in Writers |-> NoProject]
    BY DEF DecisionInit, LifecycleInit, Init
  <1>2. TypeOK
    BY <1>1, InitTypeOK DEF LifecycleInit
  <1>3. PICK t \in Texts : document \in
            [Paths -> {NoDocument, Plain(t)} \cup {AcceptedForm(Plain(t), i) : i \in Ids}]
    BY DEF DecisionInit
  <1> DEFINE Decided(q, i) == document[q] # NoDocument /\ document[q].id = i
             Row0(i) == LET q == CHOOSE r \in Paths : Decided(r, i)
                        IN [path |-> q, content |-> document[q], body |-> document[q].text,
                            lifecycle |-> "accepted", by |-> NoId]
  <1>4. ASSUME NEW q \in Paths
        PROVE  /\ document[q] \in Document \cup {NoDocument}
               /\ document[q] # NoDocument =>
                    /\ document[q].text \in Texts
                    /\ \/ document[q] = Plain(t)
                       \/ \E i \in Ids : document[q] = AcceptedForm(Plain(t), i)
    <2>1. \/ document[q] = NoDocument \/ document[q] = Plain(t)
          \/ \E i \in Ids : document[q] = AcceptedForm(Plain(t), i)
      BY <1>3
    <2>2. CASE document[q] = Plain(t)
      BY <2>2 DEF Plain, Document
    <2>3. ASSUME NEW i \in Ids, document[q] = AcceptedForm(Plain(t), i)
          PROVE  document[q] \in Document /\ document[q].text \in Texts
      BY <2>3 DEF Plain, AcceptedForm, Document
    <2>4. QED
      BY <2>1, <2>2, <2>3
  <1>5. \A q, r \in Paths, i \in Ids : Decided(q, i) /\ Decided(r, i) => q = r
    BY IdAssumption DEF DecisionInit
  <1>6. record = [i \in Ids |-> IF \E q \in Paths : Decided(q, i) THEN Row0(i) ELSE NoRow]
    BY DEF DecisionInit
  <1>7. ASSUME NEW i \in Ids, NEW q \in Paths, Decided(q, i)
        PROVE  record[i] = [path |-> q, content |-> document[q], body |-> document[q].text,
                            lifecycle |-> "accepted", by |-> NoId]
    <2>1. record[i] = Row0(i)
      BY <1>6, <1>7
    <2>2. (CHOOSE r \in Paths : Decided(r, i)) = q
      BY <1>5, <1>7
    <2>3. QED
      BY <2>1, <2>2
  <1>8. ASSUME NEW i \in Ids, ~ \E q \in Paths : Decided(q, i)
        PROVE  record[i] = NoRow
    BY <1>6, <1>8
  <1>9. ASSUME NEW i \in Ids, NEW q \in Paths, Decided(q, i)
        PROVE  /\ record[i] \in DecisionRow
               /\ record[i].path = q /\ record[i].content = document[q]
               /\ record[i].body = document[q].text /\ record[i].lifecycle = "accepted"
               /\ record[i].by = NoId
               /\ document[q].lifecycle = "accepted" /\ document[q].by = NoId
    <2>1. document[q] \in Document /\ document[q].text \in Texts
      BY <1>4, <1>9
    <2>2. PICK j \in Ids : document[q] = AcceptedForm(Plain(t), j)
      BY <1>4, <1>9, FormsTyped, IdAssumption
    <2>3. document[q].lifecycle = "accepted" /\ document[q].by = NoId
      BY <2>2, FormsTyped
    <2>4. PICK row : row = record[i]
      OBVIOUS
    <2>5. row = [path |-> q, content |-> document[q], body |-> document[q].text,
                 lifecycle |-> "accepted", by |-> NoId]
      BY <1>7, <1>9, <2>4
    <2>6. /\ row \in DecisionRow
          /\ row.path = q /\ row.content = document[q] /\ row.body = document[q].text
          /\ row.lifecycle = "accepted" /\ row.by = NoId
      BY <2>1, <2>5 DEF DecisionRow
    <2>7. QED
      BY <2>3, <2>4, <2>6
  <1>10. record \in [Ids -> DecisionRow \cup {NoRow}]
    <2>1. \A i \in Ids : record[i] \in DecisionRow \cup {NoRow}
      BY <1>8, <1>9
    <2>2. QED
      BY <1>6, <2>1
  <1>11. \A i \in Ids : Known(i) => \E q \in Paths : Decided(q, i)
    BY <1>8 DEF Known
  <1> HIDE DEF Row0
  <1>12. RowsSound
    <2>1. \A i \in Ids : Known(i) =>
            /\ record[i].content.id = i
            /\ record[i].content.lifecycle = record[i].lifecycle
            /\ record[i].content.by = record[i].by
            /\ record[i].lifecycle = "accepted" /\ record[i].by = NoId
      BY <1>9, <1>11
    <2>2. \A i, j \in Ids : Known(i) /\ Known(j) /\ record[i].path = record[j].path => i = j
      BY <1>9, <1>11
    <2>3. QED
      BY <2>1, <2>2 DEF RowsSound
  <1>13. FilesSound
    <2>1. ASSUME NEW q \in Paths, NEW i \in Ids, Known(i), record[i].path = q
          PROVE  HasForm(q, record[i].content)
      BY <1>9, <1>11, <2>1 DEF HasForm, Exists, Alike
    <2>2. ASSUME NEW q \in Paths, Exists(q), ~Governed(q)
          PROVE  Alike(document[q], Plain(document[q].text))
      <3>1. ASSUME NEW i \in Ids, document[q] = AcceptedForm(Plain(t), i) PROVE FALSE
        <4>1. Decided(q, i)
          BY <2>2, <3>1, FormsTyped DEF Exists
        <4>2. record[i] \in DecisionRow /\ record[i].path = q
          BY <1>9, <4>1
        <4>3. record[i] # NoRow
          BY <4>2, NoRowDecisionAssumption
        <4>4. QED
          BY <2>2, <4>2, <4>3 DEF Governed, Known
      <3>2. document[q] = Plain(t)
        BY <1>4, <2>2, <3>1 DEF Exists
      <3>3. QED
        BY <3>2 DEF Alike, Plain
    <2>3. QED
      BY <2>1, <2>2 DEF FilesSound
  <1>14. document \in [Paths -> Document \cup {NoDocument}]
    BY <1>3, <1>4
  <1>15. DecisionTypeOK
    BY <1>1, <1>2, <1>10, <1>14 DEF DecisionTypeOK
  <1>16. LifecycleTyped
    BY <1>1 DEF LifecycleTyped, LifecycleInit
  <1>17. \A o \in Ops : ~Unfinished(o) /\ ~UnfinishedDecision(o) /\ ~JournalActive(o)
    BY <1>1 DEF Unfinished, UnfinishedDecision, JournalActive
  <1>18. OneOperation /\ ApprovalsKept /\ DecisionsSound
    BY <1>1, <1>17 DEF OneOperation, ApprovalsKept, DecisionsSound, Pending
  <1>19. \A s \in Projects : transition[s] = NoOp
    BY DEF DecisionInit, LifecycleInit
  <1>20. FenceMatchesEitherOperation /\ ArchivedNotFenced
    BY <1>17, <1>19, NullAssumption DEF FenceMatchesEitherOperation, ArchivedNotFenced
  <1>21. LocksHeld /\ SagasSound
    <2>1. NoSaga \notin Saga \cup DecisionSaga
      BY DEF NoSaga, Saga, DecisionSaga
    <2>2. QED
      BY <1>1, <2>1 DEF LocksHeld, SagasSound
  <1>22. QED
    BY <1>12, <1>13, <1>15, <1>16, <1>18, <1>20, <1>21 DEF DecisionInv

-----------------------------------------------------------------------------
(* The clock, the calls of the cloud routes and the writers.               *)

\* Steps that touch neither the rows nor the sagas of decisions.
LEMMA CloudDecisionStep ==
    ASSUME DecisionInv, UNCHANGED decisionVars, UNCHANGED lifecycleVars,
           Tick \/ \E p \in Callers : CloudStep(p)
    PROVE  DecisionInv'
  <1>1. UNCHANGED <<lifecycle, writer, selector, transition, digest, approval, operation, yaml,
                    files, lock, writing, saga, faults, document, record, decision, pointers>>
    BY DEF lifecycleVars, stateVars, archiveVars, decisionVars
  <1>2. TypeOK'
    BY NextTypeOK DEF CloudStep, Next, DecisionInv, DecisionTypeOK
  <1>3. DecisionTypeOK' /\ LifecycleTyped'
    BY <1>1, <1>2 DEF DecisionInv, DecisionTypeOK, LifecycleTyped
  <1>4. LocksHeld'
    BY <1>1 DEF DecisionInv, LocksHeld, Writable
  <1>5. FormsKept
    BY <1>1, SameForms
  <1>6. \A o \in Ops : /\ JournalActive(o) => IsActive(o)
                       /\ Pending(o) => IsActive(o) /\ ~JournalActive(o)
    BY DEF DecisionInv, OneOperation, Pending
  <1> DEFINE Goal == /\ \A o \in Ops : Pending(o) => active'[o] = active[o] /\ ~JournalActive(o)'
                     /\ \A o \in Ops : JournalActive(o)' => IsActive(o)'
  <1>7. ASSUME UNCHANGED <<active, journal>> PROVE Goal
    BY <1>6, <1>7 DEF IsActive, JournalActive
  <1>8. ASSUME NEW p \in Callers, AcquireCommit(p) PROVE Goal
    <2>1. PICK c : c = call[p]
      OBVIOUS
    <2>2. PICK row : row = RegistryRow(c)
      OBVIOUS
    <2>3. /\ c.type = "acquire" /\ RowsForAcquire(c)
          /\ active' = [active EXCEPT ![c.op] = row]
          /\ \A o \in Ops : o # c.op => journal'[o] = journal[o]
      BY <1>8, <2>1, <2>2 DEF AcquireCommit, DecisionInv, DecisionTypeOK, TypeOK
    <2>4. c \in AcquireCall /\ c.op \in Ops
      BY <2>1, <2>3, CallShapes DEF DecisionInv, DecisionTypeOK, AcquireCall
    <2>5. row # NoRow
      <3>1. GrantedGeneration(c) \in Nat
        BY <2>4 DEF GrantedGeneration, AcquireCall
      <3>2. row \in Row
        BY <2>2, <2>4, <3>1 DEF RegistryRow, Row, AcquireCall
      <3>3. QED
        BY <3>2, NoRowAssumption
    <2>6. /\ active'[c.op] = row /\ \A o \in Ops : o # c.op => active'[o] = active[o]
      BY <2>3, <2>4 DEF DecisionInv, DecisionTypeOK, TypeOK
    <2>7. ~Pending(c.op)
      BY <1>6, <2>3, <2>4 DEF RowsForAcquire, JournalActive
    <2>8. QED
      BY <1>6, <2>3, <2>4, <2>5, <2>6, <2>7 DEF IsActive, JournalActive
  <1>9. ASSUME NEW p \in Callers, CompleteCommit(p) PROVE Goal
    <2>1. PICK c : c = call[p]
      OBVIOUS
    <2>2. PICK new : new = [journal[c.op] EXCEPT !.state = "completed", !.advance = c.advance,
                                                 !.result = CompletedEpoch(c)]
      OBVIOUS
    <2>3. /\ c.type = "complete" /\ RowsForComplete(c)
          /\ active' = [active EXCEPT ![c.op] = NoRow]
          /\ journal' = [journal EXCEPT ![c.op] = new]
      BY <1>9, <2>1, <2>2 DEF CompleteCommit
    <2>4. c.op \in Ops
      BY <2>1, <2>3, CallShapes DEF DecisionInv, DecisionTypeOK, CompleteCall
    <2>5. new.state = "completed"
      <3>1. journal[c.op] \in JournalRow
        BY <2>3, <2>4 DEF DecisionInv, DecisionTypeOK, TypeOK, RowsForComplete
      <3>2. QED
        BY <2>2, <3>1 DEF JournalRow
    <2>6. /\ journal'[c.op] = new
          /\ \A o \in Ops : o # c.op => active'[o] = active[o] /\ journal'[o] = journal[o]
      BY <2>3, <2>4 DEF DecisionInv, DecisionTypeOK, TypeOK
    <2>7. ~Pending(c.op)
      BY <1>6, <2>3, <2>4 DEF RowsForComplete, JournalActive
    <2>8. QED
      BY <1>6, <2>4, <2>5, <2>6, <2>7 DEF IsActive, JournalActive
  <1>10. Goal
    <2>1. CASE Tick
      BY <1>7, <2>1 DEF Tick, cloudVars
    <2>2. ASSUME NEW p \in Callers, CloudStep(p) PROVE Goal
      <3>1. ASSUME NEW bootstrap \in BOOLEAN, Activate(p, bootstrap) PROVE Goal
        BY <1>7, <3>1 DEF Activate
      <3>2. CASE UNCHANGED cloudVars
        BY <1>7, <3>2 DEF cloudVars
      <3>3. QED
        BY <1>8, <1>9, <2>2, <3>1, <3>2
           DEF CloudStep, CallStart, CallEnd, AcquireRead, CompleteRead, Rollback
    <2>3. QED
      BY <2>1, <2>2
  <1>11. /\ FenceMatchesEitherOperation' /\ ArchivedNotFenced' /\ OneOperation' /\ ApprovalsKept'
    BY <1>1, <1>10, OperationsKept
  <1>12. RowsSound' /\ FilesSound' /\ DecisionsSound'
    BY <1>1, <1>5, RecordsKept
  <1>13. SagasSound'
    BY <1>1, <1>5, SagasKept
  <1>14. QED
    BY <1>3, <1>4, <1>11, <1>12, <1>13 DEF DecisionInv

\* What follows for a step that changes no row of the control, of an operation,
\* of a decision or of an approval, when its types and locks are shown.
LEMMA RestKept ==
    ASSUME DecisionInv, UNCHANGED <<vars, lifecycle, transition, operation, record, decision,
                                    pointers, saga>>,
           \A a \in Approvals : approval[a] # NoRow => approval'[a] = approval[a],
           document' \in [Paths -> Document \cup {NoDocument}], FormsKept,
           LifecycleTyped', LocksHeld'
    PROVE  DecisionInv'
  <1>1. TypeOK' /\ UNCHANGED <<active, journal>>
    BY CloudUnchanged DEF DecisionInv, DecisionTypeOK, vars, cloudVars
  <1>2. DecisionTypeOK'
    BY <1>1 DEF DecisionInv, DecisionTypeOK
  <1>3. /\ \A o \in Ops : Pending(o) => active'[o] = active[o] /\ ~JournalActive(o)'
        /\ \A o \in Ops : JournalActive(o)' => IsActive(o)'
    BY <1>1 DEF DecisionInv, OneOperation, Pending, JournalActive, IsActive
  <1>4. FenceMatchesEitherOperation' /\ ArchivedNotFenced' /\ OneOperation' /\ ApprovalsKept'
    BY <1>3, OperationsKept
  <1>5. RowsSound' /\ FilesSound' /\ DecisionsSound'
    BY RecordsKept
  <1>6. SagasSound'
    BY SagasKept
  <1>7. QED
    BY <1>2, <1>4, <1>5, <1>6 DEF DecisionInv

\* Writes that are journaled: by a trigger, with the selector, or by a task
\* that goes on to change a file.
LEMMA JournaledWrites ==
    ASSUME DecisionInv, UNCHANGED decisionVars, NEW s \in Projects, RecordProjectWrite(s),
           selector' \in [Projects -> Selectors],
           UNCHANGED <<vars, lifecycle, transition, digest, archiveVars, yaml, files, saga,
                       faults>>,
           \/ UNCHANGED <<lock, writing>>
           \/ \E w \in Writers :
                /\ lock = Free /\ lock' = w
                /\ writing' = [writing EXCEPT ![w] = s]
    PROVE  DecisionInv'
  <1>1. /\ UNCHANGED <<vars, lifecycle, transition, digest, approval, operation, yaml, files,
                       saga, faults, document, record, decision, pointers>>
        /\ Writable(s) /\ writer' = [writer EXCEPT ![s] = @ + 1]
    BY DEF RecordProjectWrite, archiveVars, decisionVars
  <1>2. writer' \in [Projects -> Nat]
    BY <1>1 DEF DecisionInv, LifecycleTyped
  <1>3. /\ lock' \in Callers \cup Writers \cup {Free}
        /\ writing' \in [Writers -> Projects \cup {NoProject}]
        /\ LocksHeld'
    <2>1. CASE UNCHANGED <<lock, writing>>
      BY <1>1, <2>1 DEF DecisionInv, LifecycleTyped, LocksHeld, Writable
    <2>2. ASSUME NEW w \in Writers, lock = Free, lock' = w, writing' = [writing EXCEPT ![w] = s]
          PROVE  /\ lock' \in Callers \cup Writers \cup {Free}
                 /\ writing' \in [Writers -> Projects \cup {NoProject}]
                 /\ LocksHeld'
      <3>1. writing' \in [Writers -> Projects \cup {NoProject}]
        BY <2>2 DEF DecisionInv, LifecycleTyped
      <3>2. /\ \A q \in Callers : saga'[q] = NoSaga
            /\ \A v \in Writers : v # w => writing'[v] = NoProject
            /\ writing'[w] = s
        BY <1>1, <2>2, OneHolder DEF DecisionInv, LifecycleTyped
      <3>3. Writable(s)'
        BY <1>1 DEF Writable
      <3>4. QED
        BY <2>2, <3>1, <3>2, <3>3 DEF LocksHeld, Writable
    <2>3. QED
      BY <2>1, <2>2
  <1>4. LifecycleTyped'
    BY <1>1, <1>2, <1>3 DEF DecisionInv, LifecycleTyped
  <1>5. document' \in [Paths -> Document \cup {NoDocument}] /\ FormsKept
    BY <1>1, SameForms DEF DecisionInv, DecisionTypeOK
  <1>6. QED
    BY <1>1, <1>3, <1>4, <1>5, RestKept

LEMMA FileReleases ==
    ASSUME DecisionInv, UNCHANGED decisionVars, NEW w \in Writers,
           FileWriteEnd(w) \/ FileWriteFails(w)
    PROVE  DecisionInv'
  <1>1. /\ UNCHANGED <<vars, lifecycle, writer, selector, transition, digest, approval,
                       operation, yaml, saga, faults, document, record, decision, pointers>>
        /\ writing[w] # NoProject /\ lock' = Free
        /\ writing' = [writing EXCEPT ![w] = NoProject]
    BY DEF FileWriteEnd, FileWriteFails, ReleaseFileWrite, stateVars, archiveVars, decisionVars
  <1>2. writing[w] \in Projects /\ lock = w
    BY <1>1 DEF DecisionInv, LifecycleTyped, LocksHeld
  <1>3. files' \in [Projects -> Nat]
    BY <1>2 DEF FileWriteEnd, FileWriteFails, DecisionInv, LifecycleTyped
  <1>4. /\ \A q \in Callers : saga'[q] = NoSaga
        /\ \A v \in Writers : writing'[v] = NoProject
    BY <1>1, OneHolder DEF DecisionInv, LifecycleTyped
  <1>5. LocksHeld'
    BY <1>4 DEF LocksHeld
  <1>6. LifecycleTyped'
    BY <1>1, <1>3 DEF DecisionInv, LifecycleTyped
  <1>7. document' \in [Paths -> Document \cup {NoDocument}] /\ FormsKept
    BY <1>1, SameForms DEF DecisionInv, DecisionTypeOK
  <1>8. QED
    BY <1>1, <1>5, <1>6, <1>7, RestKept

\* An edit of project.yaml, a new approval or an edit of a decision file.
LEMMA EditsAndApprovals ==
    ASSUME DecisionInv,
           \/ /\ UNCHANGED decisionVars
              /\ \E s \in Projects, b \in Bodies : ExternalEdit(s, b)
           \/ /\ UNCHANGED decisionVars
              /\ \E p \in Callers, a \in Approvals, s \in Projects, x \in 1 .. MaxTime + 1 :
                    CreateApproval(p, a, s, x)
           \/ \E q \in Paths, t \in Texts : DocumentEdit(q, t)
    PROVE  DecisionInv'
  <1>1. ASSUME UNCHANGED decisionVars, NEW s \in Projects, NEW b \in Bodies, ExternalEdit(s, b)
        PROVE  DecisionInv'
    <2>1. /\ UNCHANGED <<vars, lifecycle, writer, selector, transition, digest, approval,
                         operation, files, lock, writing, saga, faults, document, record,
                         decision, pointers>>
          /\ yaml' = [yaml EXCEPT ![s].body = b]
      BY <1>1 DEF ExternalEdit, stateVars, archiveVars, decisionVars
    <2>2. yaml' \in [Projects -> Content]
      BY <2>1 DEF DecisionInv, LifecycleTyped, Content
    <2>3. LifecycleTyped' /\ LocksHeld'
      BY <2>1, <2>2 DEF DecisionInv, LifecycleTyped, LocksHeld, Writable
    <2>4. document' \in [Paths -> Document \cup {NoDocument}] /\ FormsKept
      BY <2>1, SameForms DEF DecisionInv, DecisionTypeOK
    <2>5. QED
      BY <2>1, <2>3, <2>4, RestKept
  <1>2. ASSUME UNCHANGED decisionVars, NEW p \in Callers, NEW a \in Approvals,
               NEW s \in Projects, NEW x \in 1 .. MaxTime + 1, CreateApproval(p, a, s, x)
        PROVE  DecisionInv'
    <2>1. PICK row : row = [project |-> s, content |-> yaml[s], writer |-> writer[s],
                            selector |-> selector[s], epoch |-> epoch, expires |-> x,
                            consumed |-> NoOp]
      OBVIOUS
    <2>2. /\ UNCHANGED <<vars, lifecycle, writer, selector, transition, digest, operation, yaml,
                         files, lock, writing, saga, faults, document, record, decision,
                         pointers>>
          /\ approval[a] = NoRow /\ approval' = [approval EXCEPT ![a] = row]
      BY <1>2, <2>1 DEF CreateApproval, stateVars, decisionVars
    <2>3. row \in ApprovalRow
      BY <2>1, BoundAssumption DEF DecisionInv, DecisionTypeOK, LifecycleTyped, TypeOK,
                                   ApprovalRow
    <2>4. /\ approval' \in [Approvals -> ApprovalRow \cup {NoRow}]
          /\ \A b \in Approvals : approval[b] # NoRow => approval'[b] = approval[b]
      BY <2>2, <2>3 DEF DecisionInv, LifecycleTyped
    <2>5. LifecycleTyped' /\ LocksHeld'
      BY <2>2, <2>4 DEF DecisionInv, LifecycleTyped, LocksHeld, Writable
    <2>6. document' \in [Paths -> Document \cup {NoDocument}] /\ FormsKept
      BY <2>2, SameForms DEF DecisionInv, DecisionTypeOK
    <2>7. QED
      BY <2>2, <2>4, <2>5, <2>6, RestKept
  <1>3. ASSUME NEW q \in Paths, NEW t \in Texts, DocumentEdit(q, t) PROVE DecisionInv'
    <2>1. PICK doc : doc = [document[q] EXCEPT !.text = t]
      OBVIOUS
    <2>2. /\ UNCHANGED <<vars, lifecycle, writer, selector, transition, digest, approval,
                         operation, yaml, files, lock, writing, saga, record, decision,
                         pointers>>
          /\ Exists(q) /\ document' = [document EXCEPT ![q] = doc] /\ faults' = faults + 1
      BY <1>3, <2>1 DEF DocumentEdit, stateVars, archiveVars
    <2>3. document[q] \in Document
      BY <2>2 DEF DecisionInv, DecisionTypeOK, Exists
    <2>4. /\ doc \in Document /\ doc.id = document[q].id
          /\ doc.lifecycle = document[q].lifecycle /\ doc.by = document[q].by
      BY <2>1, <2>3 DEF Document
    <2>5. /\ document' \in [Paths -> Document \cup {NoDocument}]
          /\ document'[q] = doc /\ \A r \in Paths : r # q => document'[r] = document[r]
      BY <2>2, <2>4 DEF DecisionInv, DecisionTypeOK
    <2>6. FormsKept
      BY <2>2, <2>4, <2>5, NoRowDecisionAssumption DEF FormsKept, Exists
    <2>7. LifecycleTyped' /\ LocksHeld'
      BY <2>2 DEF DecisionInv, LifecycleTyped, LocksHeld, Writable
    <2>8. QED
      BY <2>2, <2>5, <2>6, <2>7, RestKept
  <1>4. QED
    BY <1>1, <1>2, <1>3

-----------------------------------------------------------------------------
(* What sagas need to know.                                                *)

LEMMA SagaFitsNow ==
    ASSUME DecisionInv, NEW p \in Callers, saga[p] # NoSaga
    PROVE  SagaFits(saga[p])
  BY DEF DecisionInv, DecisionTypeOK, SagasSound

LEMMA SagaDefined == NoSaga \notin Saga \cup DecisionSaga
  BY DEF NoSaga, Saga, DecisionSaga

\* An archive and a decision have different registry rows: no identifier is in
\* work as both.
LEMMA NotBoth ==
    ASSUME DecisionInv, NEW o \in Ops
    PROVE  /\ ~(Unfinished(o) /\ UnfinishedDecision(o))
           /\ Pending(o) => IsActive(o) /\ ~JournalActive(o)
           /\ Pending(o) => \A other \in Ops \ {o} : ~Pending(other)
  BY DecisionKindAssumption DEF DecisionInv, OneOperation, Pending, RowMatches

\* Nothing is in work when the registry is empty.
LEMMA NothingPending ==
    ASSUME DecisionInv, NothingActive
    PROVE  /\ \A o \in Ops : ~Unfinished(o) /\ ~UnfinishedDecision(o) /\ ~JournalActive(o)
           /\ \A s \in Projects : transition[s] = NoOp
  <1>1. \A o \in Ops : ~Unfinished(o) /\ ~UnfinishedDecision(o) /\ ~JournalActive(o)
    BY DEF NothingActive, DecisionInv, OneOperation
  <1>2. QED
    BY <1>1 DEF DecisionInv, FenceMatchesEitherOperation, LifecycleTyped

\* The fences of the projects of an operation in work.
LEMMA FenceOf ==
    ASSUME DecisionInv, NEW o \in Ops, NEW s \in Projects
    PROVE  /\ Unfinished(o) => (transition[s] = o <=> operation[o].project = s)
           /\ UnfinishedDecision(o) =>
                (transition[s] = o <=> ProjectOf[decision[o].request.path] = s)
           /\ transition[s] = o => Pending(o)
  BY NotBoth DEF DecisionInv, FenceMatchesEitherOperation, Pending

\* A saga that changes no row begins, goes on or ends.
LEMMA OnlySagas ==
    ASSUME DecisionInv, UNCHANGED <<vars, lifecycle, transition, operation, approval, record,
                                    decision, pointers, document>>,
           saga' \in [Callers -> Saga \cup DecisionSaga \cup {NoSaga}],
           LifecycleTyped', LocksHeld', SagasSound'
    PROVE  DecisionInv'
  <1>1. TypeOK' /\ UNCHANGED <<active, journal>>
    BY CloudUnchanged DEF DecisionInv, DecisionTypeOK, vars, cloudVars
  <1>2. DecisionTypeOK'
    BY <1>1 DEF DecisionInv, DecisionTypeOK
  <1>3. /\ \A o \in Ops : Pending(o) => active'[o] = active[o] /\ ~JournalActive(o)'
        /\ \A o \in Ops : JournalActive(o)' => IsActive(o)'
    BY <1>1 DEF DecisionInv, OneOperation, Pending, JournalActive, IsActive
  <1>4. FenceMatchesEitherOperation' /\ ArchivedNotFenced' /\ OneOperation' /\ ApprovalsKept'
    BY <1>3, OperationsKept
  <1>5. RowsSound' /\ FilesSound' /\ DecisionsSound'
    BY SameForms, RecordsKept
  <1>6. QED
    BY <1>2, <1>4, <1>5 DEF DecisionInv

\* A check failed, or the process died.
LEMMA SagaEnds ==
    ASSUME DecisionInv, UNCHANGED decisionVars, NEW p \in Callers, saga[p] # NoSaga,
           EndSaga(p), faults' \in Nat
    PROVE  DecisionInv'
  <1>1. /\ UNCHANGED <<vars, lifecycle, writer, selector, transition, digest, approval,
                       operation, yaml, files, writing, record, decision, pointers, document>>
        /\ lock' = Free /\ saga' = [saga EXCEPT ![p] = NoSaga]
    BY DEF EndSaga, stateVars, archiveVars, decisionVars
  <1>2. /\ saga' \in [Callers -> Saga \cup DecisionSaga \cup {NoSaga}]
        /\ LocksHeld' /\ SagasSound'
    BY <1>1, SagaMoves
  <1>3. LifecycleTyped'
    BY <1>1 DEF DecisionInv, LifecycleTyped
  <1>4. QED
    BY <1>1, <1>2, <1>3, OnlySagas

-----------------------------------------------------------------------------
(* The archive.                                                            *)

LEMMA ArchiveBegins ==
    ASSUME DecisionInv, UNCHANGED decisionVars, NEW p \in Callers, ArchiveStart(p)
    PROVE  DecisionInv'
  <1>1. ASSUME NEW c \in Saga, lock = Free, lock' = p, saga' = [saga EXCEPT ![p] = c],
               UNCHANGED <<vars, stateVars, archiveVars, yaml, files, writing, faults>>,
               SagaFits(c)'
        PROVE  DecisionInv'
    <2>1. UNCHANGED <<lifecycle, writer, selector, transition, digest, approval, operation,
                      record, decision, pointers, document>>
      BY <1>1 DEF stateVars, archiveVars, decisionVars
    <2>2. /\ saga' \in [Callers -> Saga \cup DecisionSaga \cup {NoSaga}]
          /\ LocksHeld' /\ SagasSound'
      BY <1>1, SagaMoves, SagaDefined
    <2>3. LifecycleTyped'
      BY <1>1, <2>1 DEF DecisionInv, LifecycleTyped
    <2>4. QED
      BY <1>1, <2>1, <2>2, <2>3, OnlySagas
  <1>2. UNCHANGED <<approval, operation>>
    BY DEF ArchiveStart, ArchiveRead, ArchiveResume, archiveVars
  <1>3. ASSUME NEW o \in Ops, NEW a \in Approvals, NEW act \in Actors,
               NEW x \in 1 .. MaxTime + 1, ArchiveRead(p, o, a, act, x)
        PROVE  DecisionInv'
    <2>1. PICK c : c = [pc |-> "reserving", op |-> o, approval |-> a, actor |-> act,
                        seen |-> generation, generation |-> generation + 1,
                        expires |-> x, found |-> yaml[approval[a].project]]
      OBVIOUS
    <2>2. /\ approval[a] # NoRow /\ lock = Free /\ lock' = p
          /\ saga' = [saga EXCEPT ![p] = c]
          /\ UNCHANGED <<vars, stateVars, archiveVars, yaml, files, writing, faults>>
      BY <1>3, <2>1 DEF ArchiveRead
    <2>3. yaml[approval[a].project] \in Content /\ generation \in Nat
      BY <2>2, ApprovalFields DEF DecisionInv, LifecycleTyped, DecisionTypeOK, TypeOK
    <2>4. c \in Saga /\ c.pc = "reserving" /\ c.approval = a
      BY <2>1, <2>3, BoundAssumption DEF Saga
    <2>5. SagaFits(c)'
      BY <1>2, <2>2, <2>4 DEF SagaFits
    <2>6. QED
      BY <1>1, <2>2, <2>4, <2>5
  <1>4. ASSUME NEW o \in Ops, NEW act \in Actors, NEW x \in 1 .. MaxTime + 1,
               ArchiveResume(p, o, act, x)
        PROVE  DecisionInv'
    <2>1. PICK c : c =
            [pc |-> "resuming", op |-> o, approval |-> operation[o].approval,
             actor |-> act, seen |-> generation,
             generation |-> IF leaseOp = NoOp THEN generation + 1 ELSE generation,
             expires |-> x, found |-> operation[o].content]
      OBVIOUS
    <2>2. /\ Unfinished(o) /\ operation[o].actor = act /\ lock = Free /\ lock' = p
          /\ saga' = [saga EXCEPT ![p] = c]
          /\ UNCHANGED <<vars, stateVars, archiveVars, yaml, files, writing, faults>>
      BY <1>4, <2>1 DEF ArchiveResume, Resumable
    <2>3. operation[o].approval \in Approvals /\ operation[o].content \in Content
      BY <2>2, OperationFields DEF DecisionInv, Unfinished
    <2>4. generation \in Nat
      BY DEF DecisionInv, DecisionTypeOK, TypeOK
    <2>5. /\ c \in Saga /\ c.pc = "resuming" /\ c.op = o /\ c.actor = act
          /\ c.approval = operation[o].approval
      BY <2>1, <2>3, <2>4, BoundAssumption DEF Saga
    <2>6. SagaFits(c)'
      BY <1>2, <2>2, <2>5 DEF SagaFits, Unfinished
    <2>7. QED
      BY <1>1, <2>2, <2>5, <2>6
  <1>5. QED
    BY <1>3, <1>4 DEF ArchiveStart

\* An operation in work takes the lease: it is the only one, and its registry
\* row says what it is.
LEMMA LeaseTaken ==
    ASSUME DecisionInv, NEW o \in Ops, NEW row, row # NoRow,
           active' = [active EXCEPT ![o] = row], UNCHANGED journal, ~JournalActive(o),
           \A other \in Ops \ {o} : ~Unfinished(other)' /\ ~UnfinishedDecision(other)',
           Unfinished(o)' => RowMatches(row, ArchiveKind, operation'[o].actor,
                                        approval'[operation'[o].approval].epoch),
           UnfinishedDecision(o)' =>
                RowMatches(row, DecisionKind, decision'[o].actor, decision'[o].base)
    PROVE  OneOperation'
  <1>1. active'[o] = row /\ \A other \in Ops \ {o} : active'[other] = active[other]
    BY DEF DecisionInv, DecisionTypeOK, TypeOK
  <1>2. \A other \in Ops : /\ JournalActive(other)' <=> JournalActive(other)
                           /\ JournalActive(other) => IsActive(other)
    BY DEF DecisionInv, OneOperation, JournalActive
  <1>3. \A other \in Ops : JournalActive(other)' => IsActive(other)'
    BY <1>1, <1>2 DEF IsActive
  <1>4. /\ IsActive(o)' /\ ~JournalActive(o)'
    BY <1>1, <1>2 DEF IsActive
  <1>5. QED
    BY <1>1, <1>3, <1>4 DEF OneOperation, Pending, RowMatches

LEMMA ArchivePrepares ==
    ASSUME DecisionInv, UNCHANGED decisionVars, NEW p \in Callers, ArchivePrepare(p)
    PROVE  DecisionInv'
  <1>1. PICK c : c = saga[p]
    OBVIOUS
  <1>2. PICK s, row, spent, entry, d :
            /\ s = approval[c.approval].project
            /\ row = [project |-> s, approval |-> c.approval, actor |-> c.actor,
                      content |-> ArchivedForm(c.found), state |-> "prepared"]
            /\ spent = [approval[c.approval] EXCEPT !.consumed = c.op]
            /\ entry = ArchiveRow(c)
            /\ d = [c EXCEPT !.pc = "prepared"]
    OBVIOUS
  <1>3. /\ c.pc = "reserving" /\ CanPrepare(c) /\ TakeLease(c)
        /\ transition' = [transition EXCEPT ![s] = c.op]
        /\ approval' = [approval EXCEPT ![c.approval] = spent]
        /\ operation' = [operation EXCEPT ![c.op] = row]
        /\ saga' = [saga EXCEPT ![p] = d]
        /\ UNCHANGED <<lifecycle, writer, selector, digest, yaml, files, lock, writing, faults,
                       document, record, decision, pointers>>
    BY <1>1, <1>2 DEF ArchivePrepare, decisionVars
  <1>4. /\ c # NoSaga /\ c \in Saga /\ c.op \in Ops /\ c.approval \in Approvals
        /\ c.actor \in Actors /\ c.found \in Content /\ c.generation \in Nat
        /\ c.expires \in Nat
    BY <1>1, <1>3, SagaKinds DEF DecisionInv, ArchivePcs
  <1>5. approval[c.approval] # NoRow
    BY <1>1, <1>3, <1>4, SagaFitsNow DEF SagaFits
  <1>6. /\ approval[c.approval] \in ApprovalRow /\ s \in Projects
        /\ approval[c.approval].epoch \in Nat
    BY <1>2, <1>4, <1>5, ApprovalFields DEF DecisionInv
  <1>7. NothingActive /\ Writable(s)
    BY <1>2, <1>3 DEF CanPrepare, PrepareControlCas, PrepareProjectCas
  <1>8. /\ \A o \in Ops : ~Unfinished(o) /\ ~UnfinishedDecision(o) /\ ~JournalActive(o)
        /\ \A z \in Projects : transition[z] = NoOp
    BY <1>7, NothingPending
  <1>9. /\ spent \in ApprovalRow /\ spent # NoRow
        /\ spent.epoch = approval[c.approval].epoch
    BY <1>2, <1>4, <1>6, NoRowLifecycleAssumption DEF ApprovalRow
  <1>10. /\ row \in OperationRow /\ row # NoRow /\ row.project = s
         /\ row.approval = c.approval /\ row.actor = c.actor /\ row.state = "prepared"
    <2>1. PICK content \in Content : content = ArchivedForm(c.found)
      BY <1>4, ArchivedFormTyped
    <2>2. row = [project |-> s, approval |-> c.approval, actor |-> c.actor,
                 content |-> content, state |-> "prepared"]
      BY <1>2, <2>1
    <2>3. QED
      BY <1>4, <1>6, <2>2, NoRowLifecycleAssumption DEF OperationRow
  <1>11. /\ d \in Saga /\ d.pc = "prepared" /\ d.op = c.op /\ d.approval = c.approval
         /\ d.actor = c.actor
    BY <1>2, <1>4 DEF Saga
  <1>12. /\ operation' \in [Ops -> OperationRow \cup {NoRow}] /\ operation'[c.op] = row
         /\ \A o \in Ops : o # c.op => operation'[o] = operation[o]
         /\ approval' \in [Approvals -> ApprovalRow \cup {NoRow}]
         /\ approval'[c.approval] = spent
         /\ \A a \in Approvals : approval[a] # NoRow => approval'[a] # NoRow
         /\ transition' \in [Projects -> Ops \cup {NoOp}] /\ transition'[s] = c.op
         /\ \A z \in Projects : z # s => transition'[z] = NoOp
    BY <1>3, <1>4, <1>6, <1>8, <1>9, <1>10 DEF DecisionInv, LifecycleTyped
  <1>13. TypeOK'
    BY <1>3, <1>4, <1>6, TakeLeaseTyped DEF DecisionInv, DecisionTypeOK
  <1>14. /\ entry # NoRow
         /\ entry.kind = ArchiveKind /\ entry.actor = c.actor
         /\ entry.base = approval[c.approval].epoch
    <2>1. entry \in Row
      BY <1>2, <1>4, <1>6, KindAssumption DEF ArchiveRow, Row, Saga
    <2>2. QED
      BY <1>2, <2>1, NoRowAssumption DEF ArchiveRow
  <1>15. \A o \in Ops : /\ Unfinished(o)' <=> o = c.op
                        /\ ~UnfinishedDecision(o)'
    BY <1>3, <1>4, <1>8, <1>10, <1>12 DEF Unfinished, UnfinishedDecision
  <1>16. /\ saga' \in [Callers -> Saga \cup DecisionSaga \cup {NoSaga}]
         /\ LocksHeld' /\ SagasSound'
    <2>1. lock = p
      BY <1>1, <1>4 DEF DecisionInv, LocksHeld
    <2>2. SagaFits(d)'
      BY <1>4, <1>10, <1>11, <1>12, <1>15 DEF SagaFits
    <2>3. QED
      BY <1>1, <1>3, <1>4, <1>11, <2>1, <2>2, SagaMoves, SagaDefined
  <1>17. DecisionTypeOK' /\ LifecycleTyped'
    <2>1. DecisionTypeOK'
      BY <1>3, <1>13, <1>16 DEF DecisionInv, DecisionTypeOK
    <2>2. LifecycleTyped'
      BY <1>3, <1>12 DEF DecisionInv, LifecycleTyped
    <2>3. QED
      BY <2>1, <2>2
  <1>18. FenceMatchesEitherOperation'
    <2>1. ASSUME NEW z \in Projects, NEW o \in Ops
          PROVE  transition'[z] = o <=> (o = c.op /\ z = s)
      BY <1>4, <1>12, NullAssumption
    <2>2. QED
      BY <1>10, <1>12, <1>15, <2>1 DEF FenceMatchesEitherOperation
  <1>19. ArchivedNotFenced'
    BY <1>3, <1>7, <1>12 DEF Writable, ArchivedNotFenced, DecisionInv, LifecycleTyped
  <1>20. OneOperation'
    <2>1. active' = [active EXCEPT ![c.op] = entry] /\ UNCHANGED journal
      BY <1>2, <1>3 DEF TakeLease
    <2>2. RowMatches(entry, ArchiveKind, operation'[c.op].actor,
                     approval'[operation'[c.op].approval].epoch)
      BY <1>9, <1>10, <1>12, <1>14 DEF RowMatches
    <2>3. QED
      BY <1>4, <1>8, <1>14, <1>15, <2>1, <2>2, LeaseTaken
  <1>21. ApprovalsKept'
    <2>1. ASSUME NEW o \in Ops, operation'[o] # NoRow PROVE approval'[operation'[o].approval] # NoRow
      <3>1. CASE o = c.op
        BY <1>9, <1>10, <1>12, <3>1
      <3>2. CASE o # c.op
        <4>1. /\ operation[o] # NoRow /\ operation'[o] = operation[o]
              /\ approval[operation[o].approval] # NoRow
          BY <1>12, <2>1, <3>2 DEF DecisionInv, ApprovalsKept
        <4>2. operation[o].approval \in Approvals
          BY <4>1, OperationFields DEF DecisionInv
        <4>3. QED
          BY <1>12, <4>1, <4>2
      <3>3. QED
        BY <3>1, <3>2
    <2>2. QED
      BY <2>1 DEF ApprovalsKept
  <1>22. RowsSound' /\ FilesSound' /\ DecisionsSound'
    BY <1>3, SameForms, RecordsKept
  <1>23. QED
    BY <1>16, <1>17, <1>18, <1>19, <1>20, <1>21, <1>22 DEF DecisionInv

LEMMA ArchiveRenews ==
    ASSUME DecisionInv, UNCHANGED decisionVars, NEW p \in Callers, ArchiveRenew(p)
    PROVE  DecisionInv'
  <1>1. PICK c : c = saga[p]
    OBVIOUS
  <1>2. PICK entry, d : entry = ArchiveRow(c) /\ d = [c EXCEPT !.pc = "prepared"]
    OBVIOUS
  <1>3. /\ c.pc = "resuming" /\ CanRenew(c) /\ TakeLease(c)
        /\ saga' = [saga EXCEPT ![p] = d]
        /\ UNCHANGED <<lifecycle, writer, selector, transition, digest, approval, operation,
                       yaml, files, lock, writing, faults, document, record, decision, pointers>>
    BY <1>1, <1>2 DEF ArchiveRenew, stateVars, archiveVars, decisionVars
  <1>4. /\ c # NoSaga /\ c \in Saga /\ c.op \in Ops /\ c.approval \in Approvals
        /\ c.actor \in Actors /\ c.generation \in Nat /\ c.expires \in Nat
    BY <1>1, <1>3, SagaKinds DEF DecisionInv, ArchivePcs
  <1>5. /\ Unfinished(c.op) /\ operation[c.op].approval = c.approval
        /\ operation[c.op].actor = c.actor
    BY <1>1, <1>3, <1>4, SagaFitsNow DEF SagaFits
  <1>6. approval[c.approval].epoch \in Nat
    BY <1>4, <1>5, ApprovalFields DEF DecisionInv, ApprovalsKept, Unfinished
  <1>7. /\ ~UnfinishedDecision(c.op) /\ ~JournalActive(c.op)
        /\ \A o \in Ops \ {c.op} : ~Unfinished(o) /\ ~UnfinishedDecision(o)
    BY <1>4, <1>5, NotBoth DEF Pending
  <1>8. /\ d \in Saga /\ d.pc = "prepared" /\ d.op = c.op /\ d.approval = c.approval
        /\ d.actor = c.actor
    BY <1>2, <1>4 DEF Saga
  <1>9. TypeOK'
    BY <1>3, <1>4, <1>6, TakeLeaseTyped DEF DecisionInv, DecisionTypeOK
  <1>10. /\ entry # NoRow
         /\ RowMatches(entry, ArchiveKind, c.actor, approval[c.approval].epoch)
    <2>1. entry \in Row
      BY <1>2, <1>4, <1>6, KindAssumption DEF ArchiveRow, Row
    <2>2. QED
      BY <1>2, <2>1, NoRowAssumption DEF ArchiveRow, RowMatches
  <1>11. /\ saga' \in [Callers -> Saga \cup DecisionSaga \cup {NoSaga}]
         /\ LocksHeld' /\ SagasSound'
    <2>1. lock = p
      BY <1>1, <1>4 DEF DecisionInv, LocksHeld
    <2>2. SagaFits(d)'
      BY <1>3, <1>5, <1>8 DEF SagaFits, Unfinished
    <2>3. QED
      BY <1>1, <1>3, <1>4, <1>8, <2>1, <2>2, SagaMoves, SagaDefined
  <1>12. DecisionTypeOK' /\ LifecycleTyped'
    BY <1>3, <1>9, <1>11 DEF DecisionInv, DecisionTypeOK, LifecycleTyped
  <1>13. OneOperation'
    <2>1. active' = [active EXCEPT ![c.op] = entry] /\ UNCHANGED journal
      BY <1>2, <1>3 DEF TakeLease
    <2>2. \A o \in Ops : /\ Unfinished(o)' <=> Unfinished(o)
                         /\ UnfinishedDecision(o)' <=> UnfinishedDecision(o)
      BY <1>3 DEF Unfinished, UnfinishedDecision
    <2>3. RowMatches(entry, ArchiveKind, operation'[c.op].actor,
                     approval'[operation'[c.op].approval].epoch)
      BY <1>3, <1>5, <1>10
    <2>4. QED
      BY <1>4, <1>7, <1>10, <2>1, <2>2, <2>3, LeaseTaken
  <1>14. FenceMatchesEitherOperation' /\ ArchivedNotFenced' /\ ApprovalsKept'
    BY <1>3 DEF DecisionInv, FenceMatchesEitherOperation, ArchivedNotFenced, ApprovalsKept,
                Unfinished, UnfinishedDecision
  <1>15. RowsSound' /\ FilesSound' /\ DecisionsSound'
    BY <1>3, SameForms, RecordsKept
  <1>16. QED
    BY <1>11, <1>12, <1>13, <1>14, <1>15 DEF DecisionInv

LEMMA ArchiveApplies ==
    ASSUME DecisionInv, UNCHANGED decisionVars, NEW p \in Callers, ArchiveApply(p)
    PROVE  DecisionInv'
  <1>1. PICK c : c = saga[p]
    OBVIOUS
  <1>2. PICK out, d : out = Outcome(c) /\ d = [c EXCEPT !.pc = "applied", !.found = out]
    OBVIOUS
  <1>3. /\ c.pc = "prepared" /\ ContentApproved(c)
        /\ yaml' = [yaml EXCEPT ![operation[c.op].project] = out]
        /\ saga' = [saga EXCEPT ![p].pc = "applied", ![p].found = out]
        /\ UNCHANGED <<vars, lifecycle, writer, selector, transition, digest, approval,
                       operation, files, lock, writing, faults, document, record, decision,
                       pointers>>
    BY <1>1, <1>2 DEF ArchiveApply, stateVars, archiveVars, decisionVars
  <1>4. /\ c # NoSaga /\ c \in Saga /\ c.op \in Ops /\ c.approval \in Approvals
    BY <1>1, <1>3, SagaKinds DEF DecisionInv, ArchivePcs
  <1>5. saga' = [saga EXCEPT ![p] = d]
    BY <1>1, <1>2, <1>3, <1>4 DEF DecisionInv, DecisionTypeOK, Saga
  <1>6. /\ Unfinished(c.op) /\ operation[c.op].approval = c.approval
        /\ operation[c.op].actor = c.actor
    BY <1>1, <1>3, <1>4, SagaFitsNow DEF SagaFits
  <1>7. out \in Content
    BY <1>2, <1>3, <1>4, <1>6, OperationFields DEF DecisionInv, Unfinished, ContentApproved
  <1>8. /\ d \in Saga /\ d.pc = "applied" /\ d.op = c.op /\ d.approval = c.approval
        /\ d.actor = c.actor
    BY <1>2, <1>4, <1>7 DEF Saga
  <1>9. /\ saga' \in [Callers -> Saga \cup DecisionSaga \cup {NoSaga}]
        /\ LocksHeld' /\ SagasSound'
    <2>1. lock = p
      BY <1>1, <1>4 DEF DecisionInv, LocksHeld
    <2>2. SagaFits(d)'
      BY <1>3, <1>6, <1>8 DEF SagaFits, Unfinished
    <2>3. QED
      BY <1>1, <1>3, <1>4, <1>5, <1>8, <2>1, <2>2, SagaMoves, SagaDefined
  <1>10. LifecycleTyped'
    BY <1>3, <1>7 DEF DecisionInv, LifecycleTyped
  <1>11. QED
    BY <1>3, <1>9, <1>10, OnlySagas

\* The row of an operation gets a new state.
LEMMA OperationRewritten ==
    ASSUME LifecycleTyped, NEW o \in Ops, operation[o] # NoRow,
           NEW state \in {"prepared", "filesystem_applied", "completed"},
           operation' = [operation EXCEPT ![o].state = state]
    PROVE  /\ operation' \in [Ops -> OperationRow \cup {NoRow}]
           /\ \A q \in Ops : q # o => operation'[q] = operation[q]
           /\ operation'[o] # NoRow /\ operation'[o].state = state
           /\ operation'[o].project = operation[o].project
           /\ operation'[o].approval = operation[o].approval
           /\ operation'[o].actor = operation[o].actor
  <1>1. PICK new : new = [operation[o] EXCEPT !.state = state]
    OBVIOUS
  <1>2. operation[o] \in OperationRow
    BY OperationFields
  <1>3. /\ new \in OperationRow /\ new # NoRow /\ new.state = state
        /\ new.project = operation[o].project /\ new.approval = operation[o].approval
        /\ new.actor = operation[o].actor
    BY <1>1, <1>2, NoRowLifecycleAssumption DEF OperationRow
  <1>4. operation' = [operation EXCEPT ![o] = new]
    BY <1>1
  <1>5. QED
    BY <1>3, <1>4 DEF LifecycleTyped

LEMMA ArchiveCheckpoints ==
    ASSUME DecisionInv, UNCHANGED decisionVars, NEW p \in Callers, ArchiveCheckpoint(p)
    PROVE  DecisionInv'
  <1>1. PICK c : c = saga[p]
    OBVIOUS
  <1>2. PICK d : d = [c EXCEPT !.pc = "checkpointed"]
    OBVIOUS
  <1>3. /\ c.pc = "applied"
        /\ operation' = [operation EXCEPT ![c.op].state = "filesystem_applied"]
        /\ saga' = [saga EXCEPT ![p] = d]
        /\ UNCHANGED <<vars, lifecycle, writer, selector, transition, digest, approval, yaml,
                       files, lock, writing, faults, document, record, decision, pointers>>
    BY <1>1, <1>2 DEF ArchiveCheckpoint, stateVars, decisionVars
  <1>4. /\ c # NoSaga /\ c \in Saga /\ c.op \in Ops
    BY <1>1, <1>3, SagaKinds DEF DecisionInv, ArchivePcs
  <1>5. /\ Unfinished(c.op) /\ operation[c.op].approval = c.approval
        /\ operation[c.op].actor = c.actor
    BY <1>1, <1>3, <1>4, SagaFitsNow DEF SagaFits
  <1>6. /\ operation' \in [Ops -> OperationRow \cup {NoRow}]
        /\ \A q \in Ops : q # c.op => operation'[q] = operation[q]
        /\ operation'[c.op] # NoRow /\ operation'[c.op].state = "filesystem_applied"
        /\ operation'[c.op].project = operation[c.op].project
        /\ operation'[c.op].approval = operation[c.op].approval
        /\ operation'[c.op].actor = operation[c.op].actor
    BY <1>3, <1>4, <1>5, OperationRewritten DEF DecisionInv, Unfinished
  <1>7. \A o \in Ops :
            /\ Unfinished(o)' <=> Unfinished(o)
            /\ UnfinishedDecision(o)' <=> UnfinishedDecision(o)
            /\ operation'[o] # NoRow <=> operation[o] # NoRow
            /\ operation[o] # NoRow =>
                /\ operation'[o].project = operation[o].project
                /\ operation'[o].approval = operation[o].approval
                /\ operation'[o].actor = operation[o].actor
    BY <1>3, <1>5, <1>6 DEF Unfinished, UnfinishedDecision
  <1>8. /\ d \in Saga /\ d.pc = "checkpointed" /\ d.op = c.op /\ d.approval = c.approval
        /\ d.actor = c.actor
    BY <1>2, <1>4 DEF Saga
  <1>9. /\ saga' \in [Callers -> Saga \cup DecisionSaga \cup {NoSaga}]
        /\ LocksHeld' /\ SagasSound'
    <2>1. lock = p
      BY <1>1, <1>4 DEF DecisionInv, LocksHeld
    <2>2. SagaFits(d)'
      BY <1>4, <1>5, <1>6, <1>7, <1>8 DEF SagaFits
    <2>3. QED
      BY <1>1, <1>3, <1>4, <1>8, <2>1, <2>2, SagaMoves, SagaDefined
  <1>10. TypeOK' /\ UNCHANGED <<active, journal>>
    BY <1>3, CloudUnchanged DEF DecisionInv, DecisionTypeOK, vars, cloudVars
  <1>11. DecisionTypeOK' /\ LifecycleTyped'
    BY <1>3, <1>6, <1>9, <1>10 DEF DecisionInv, DecisionTypeOK, LifecycleTyped
  <1>12. FenceMatchesEitherOperation'
    <2>1. \A o \in Ops, s \in Projects :
            Unfinished(o) /\ operation[o].project = s
                <=> Unfinished(o)' /\ operation'[o].project = s
      BY <1>7 DEF Unfinished
    <2>2. QED
      BY <1>3, <1>7, <2>1 DEF DecisionInv, FenceMatchesEitherOperation
  <1>13. ArchivedNotFenced' /\ ApprovalsKept'
    BY <1>3, <1>7 DEF DecisionInv, ArchivedNotFenced, ApprovalsKept
  <1>14. OneOperation'
    <2>1. ASSUME NEW o \in Ops
          PROVE  /\ JournalActive(o)' => IsActive(o)'
                 /\ Pending(o) => IsActive(o)' /\ ~JournalActive(o)'
      BY <1>10 DEF DecisionInv, OneOperation, Pending, IsActive, JournalActive
    <2>2. ASSUME NEW o \in Ops, Unfinished(o)
          PROVE  RowMatches(active'[o], ArchiveKind, operation'[o].actor,
                            approval'[operation'[o].approval].epoch)
      <3>1. /\ operation'[o].actor = operation[o].actor
            /\ operation'[o].approval = operation[o].approval
        BY <1>7, <2>2 DEF Unfinished
      <3>2. RowMatches(active[o], ArchiveKind, operation[o].actor,
                       approval[operation[o].approval].epoch)
        BY <2>2 DEF DecisionInv, OneOperation
      <3>3. QED
        BY <1>3, <1>10, <3>1, <3>2
    <2>3. ASSUME NEW o \in Ops, UnfinishedDecision(o)
          PROVE  RowMatches(active'[o], DecisionKind, decision'[o].actor, decision'[o].base)
      BY <1>3, <1>10, <2>3 DEF DecisionInv, OneOperation
    <2>4. \A o1, o2 \in Ops : Pending(o1)' /\ Pending(o2)' => o1 = o2
      BY <1>7 DEF DecisionInv, OneOperation, Pending
    <2>5. QED
      BY <1>7, <2>1, <2>2, <2>3, <2>4 DEF OneOperation, Pending, RowMatches
  <1>15. RowsSound' /\ FilesSound' /\ DecisionsSound'
    BY <1>3, SameForms, RecordsKept
  <1>16. QED
    BY <1>9, <1>11, <1>12, <1>13, <1>14, <1>15 DEF DecisionInv

\* The last commit of an operation in work takes it out of the registry, and
\* nothing is in work any more.
LEMMA WorkDone ==
    ASSUME DecisionInv, NEW o \in Ops, Pending(o),
           active' = [active EXCEPT ![o] = NoRow], UNCHANGED journal,
           \A q \in Ops : ~Unfinished(q)' /\ ~UnfinishedDecision(q)'
    PROVE  OneOperation'
  <1>1. \A q \in Ops : q # o => active'[q] = active[q]
    BY DEF DecisionInv, DecisionTypeOK, TypeOK
  <1>2. ~JournalActive(o)
    BY NotBoth
  <1>3. \A q \in Ops : JournalActive(q)' => JournalActive(q) /\ q # o
    BY <1>2 DEF JournalActive
  <1>4. \A q \in Ops : JournalActive(q)' => IsActive(q)'
    BY <1>1, <1>3 DEF DecisionInv, OneOperation, IsActive
  <1>5. QED
    BY <1>4 DEF OneOperation, Pending

LEMMA FencesGone ==
    ASSUME DecisionInv, NEW o \in Ops, NEW s \in Projects,
           \/ Unfinished(o) /\ operation[o].project = s
           \/ UnfinishedDecision(o) /\ ProjectOf[decision[o].request.path] = s,
           transition' = [transition EXCEPT ![s] = NoOp],
           \A q \in Ops : ~Unfinished(q)' /\ ~UnfinishedDecision(q)'
    PROVE  /\ transition' \in [Projects -> Ops \cup {NoOp}]
           /\ \A z \in Projects : transition'[z] = NoOp
           /\ FenceMatchesEitherOperation'
  <1>1. transition \in [Projects -> Ops \cup {NoOp}]
    BY DEF DecisionInv, LifecycleTyped
  <1>2. ASSUME NEW z \in Projects, z # s PROVE transition[z] = NoOp
    <2>1. ASSUME NEW q \in Ops, transition[z] = q PROVE FALSE
      <3>1. Pending(q) /\ Pending(o)
        BY <2>1, FenceOf DEF Pending
      <3>2. q = o
        BY <3>1 DEF DecisionInv, OneOperation
      <3>3. QED
        BY <1>2, <2>1, <3>2, FenceOf, NotBoth
    <2>2. QED
      BY <1>1, <2>1
  <1>3. /\ transition' \in [Projects -> Ops \cup {NoOp}]
        /\ \A z \in Projects : transition'[z] = NoOp
    BY <1>1, <1>2
  <1>4. FenceMatchesEitherOperation'
    BY <1>3, NullAssumption DEF FenceMatchesEitherOperation
  <1>5. QED
    BY <1>3, <1>4

LEMMA ArchiveFinishes ==
    ASSUME DecisionInv, UNCHANGED decisionVars, NEW p \in Callers, ArchiveFinish(p)
    PROVE  DecisionInv'
  <1>1. PICK c : c = saga[p]
    OBVIOUS
  <1>2. PICK s : s = operation[c.op].project
    OBVIOUS
  <1>3. /\ c.pc = "checkpointed"
        /\ lifecycle' = [lifecycle EXCEPT ![s] = "archived"]
        /\ digest' = [digest EXCEPT ![s] = c.found]
        /\ transition' = [transition EXCEPT ![s] = NoOp]
        /\ operation' = [operation EXCEPT ![c.op].state = "completed"]
        /\ active' = [active EXCEPT ![c.op] = NoRow]
        /\ epoch' = epoch + 1 /\ leaseOp' = NoOp /\ leaseOwner' = NoActor /\ leaseExpires' = 0
        /\ lock' = Free /\ saga' = [saga EXCEPT ![p] = NoSaga]
        /\ UNCHANGED <<ready, generation, journal, now, call, writer, selector, approval, yaml,
                       files, writing, faults, document, record, decision, pointers>>
    BY <1>1, <1>2 DEF ArchiveFinish, LiftFence, decisionVars
  <1>4. /\ c # NoSaga /\ c \in Saga /\ c.op \in Ops /\ c.found \in Content
    BY <1>1, <1>3, SagaKinds DEF DecisionInv, ArchivePcs
  <1>5. Unfinished(c.op) /\ s \in Projects
    <2>1. Unfinished(c.op)
      BY <1>1, <1>3, <1>4, SagaFitsNow DEF SagaFits
    <2>2. QED
      BY <1>2, <1>4, <2>1, OperationFields DEF DecisionInv, Unfinished
  <1>6. /\ operation' \in [Ops -> OperationRow \cup {NoRow}]
        /\ \A q \in Ops : q # c.op => operation'[q] = operation[q]
        /\ operation'[c.op] # NoRow /\ operation'[c.op].state = "completed"
        /\ operation'[c.op].approval = operation[c.op].approval
    BY <1>3, <1>4, <1>5, OperationRewritten DEF DecisionInv, Unfinished
  <1>7. \A q \in Ops : ~Unfinished(q)' /\ ~UnfinishedDecision(q)'
    <2>1. /\ ~UnfinishedDecision(c.op)
          /\ \A q \in Ops \ {c.op} : ~Unfinished(q) /\ ~UnfinishedDecision(q)
      BY <1>4, <1>5, NotBoth DEF Pending
    <2>2. QED
      BY <1>3, <1>6, <2>1 DEF Unfinished, UnfinishedDecision
  <1>8. OneOperation'
    BY <1>3, <1>4, <1>5, <1>7, WorkDone DEF Pending
  <1>9. /\ transition' \in [Projects -> Ops \cup {NoOp}]
        /\ \A z \in Projects : transition'[z] = NoOp
        /\ FenceMatchesEitherOperation'
    BY <1>2, <1>3, <1>4, <1>5, <1>7, FencesGone
  <1>10. ArchivedNotFenced'
    BY <1>9 DEF ArchivedNotFenced
  <1>11. ApprovalsKept'
    BY <1>3, <1>5, <1>6 DEF DecisionInv, ApprovalsKept, Unfinished
  <1>12. /\ saga' \in [Callers -> Saga \cup DecisionSaga \cup {NoSaga}]
         /\ LocksHeld' /\ SagasSound'
    BY <1>1, <1>3, <1>4, SagaMoves
  <1>13. TypeOK'
    <2>1. TypeOK
      BY DEF DecisionInv, DecisionTypeOK
    <2>2. active' \in [Ops -> Row \cup {NoRow}]
      BY <1>3, <2>1 DEF TypeOK
    <2>3. /\ leaseOp' \in Ops \cup {NoOp} /\ leaseOwner' \in Actors \cup {NoActor}
          /\ leaseExpires' \in Nat /\ epoch' \in Nat
      BY <1>3, <2>1 DEF TypeOK
    <2>4. QED
      BY <1>3, <2>1, <2>2, <2>3 DEF TypeOK
  <1>14. DecisionTypeOK' /\ LifecycleTyped'
    <2>1. DecisionTypeOK'
      BY <1>3, <1>12, <1>13 DEF DecisionInv, DecisionTypeOK
    <2>2. LifecycleTyped'
      BY <1>3, <1>4, <1>5, <1>6, <1>9 DEF DecisionInv, LifecycleTyped
    <2>3. QED
      BY <2>1, <2>2
  <1>15. RowsSound' /\ FilesSound' /\ DecisionsSound'
    BY <1>3, SameForms, RecordsKept
  <1>16. QED
    BY <1>8, <1>9, <1>10, <1>11, <1>12, <1>14, <1>15 DEF DecisionInv

\* Every step that the archives, the writers and the routes take, beside
\* decisions.
LEMMA LifecycleDecisionStep ==
    ASSUME DecisionInv, LifecycleNext, UNCHANGED decisionVars
    PROVE  DecisionInv'
  <1>1. ASSUME NEW p \in Callers, ArchiveStep(p) \/ ArchiveCrash(p) PROVE DecisionInv'
    <2>1. CASE ArchiveRefuse(p) \/ ArchiveCrash(p)
      <3>1. saga[p] # NoSaga /\ EndSaga(p) /\ faults' \in Nat
        BY <2>1 DEF ArchiveRefuse, ArchiveCrash, DecisionInv, LifecycleTyped
      <3>2. QED
        BY <3>1, SagaEnds
    <2>2. QED
      BY <1>1, <2>1, ArchivePrepares, ArchiveRenews, ArchiveApplies, ArchiveCheckpoints,
         ArchiveFinishes
         DEF ArchiveStep
  <1>2. ASSUME NEW p \in Callers, NEW s \in Projects, NEW o \in Ops, NEW a \in Actors,
               NEW v \in Selectors, SelectorUpdate(p, s, o, a, v)
        PROVE  DecisionInv'
    <2>1. /\ RecordProjectWrite(s) /\ selector' \in [Projects -> Selectors]
          /\ UNCHANGED <<vars, lifecycle, transition, digest, archiveVars, yaml, files, saga,
                         faults, lock, writing>>
      BY <1>2 DEF SelectorUpdate, DecisionInv, LifecycleTyped
    <2>2. QED
      BY <2>1, JournaledWrites
  <1>3. ASSUME NEW s \in Projects, DatabaseWrite(s) PROVE DecisionInv'
    <2>1. /\ RecordProjectWrite(s) /\ selector' \in [Projects -> Selectors]
          /\ UNCHANGED <<vars, lifecycle, transition, digest, archiveVars, yaml, files, saga,
                         faults, lock, writing>>
      BY <1>3 DEF DatabaseWrite, DecisionInv, LifecycleTyped
    <2>2. QED
      BY <2>1, JournaledWrites
  <1>4. ASSUME NEW w \in Writers, NEW s \in Projects, FileWriteStart(w, s) PROVE DecisionInv'
    <2>1. /\ RecordProjectWrite(s) /\ selector' \in [Projects -> Selectors]
          /\ UNCHANGED <<vars, lifecycle, transition, digest, archiveVars, yaml, files, saga,
                         faults>>
          /\ lock = Free /\ lock' = w /\ writing' = [writing EXCEPT ![w] = s]
      BY <1>4 DEF FileWriteStart, DecisionInv, LifecycleTyped
    <2>2. QED
      BY <2>1, JournaledWrites
  <1>5. ASSUME NEW w \in Writers, FileWriterStep(w) PROVE DecisionInv'
    BY <1>4, <1>5, FileReleases DEF FileWriterStep
  <1>6. CASE \/ \E s \in Projects, b \in Bodies : ExternalEdit(s, b)
             \/ \E p \in Callers, a \in Approvals, s \in Projects, x \in 1 .. MaxTime + 1 :
                    CreateApproval(p, a, s, x)
    BY <1>6, EditsAndApprovals
  <1>7. CASE \/ Tick /\ UNCHANGED lifecycleVars
             \/ \E p \in Callers : CloudStep(p)
    <2>1. UNCHANGED lifecycleVars /\ (Tick \/ \E p \in Callers : CloudStep(p))
      BY <1>7 DEF CloudStep
    <2>2. QED
      BY <2>1, CloudDecisionStep
  <1>8. QED
    BY <1>1, <1>2, <1>3, <1>5, <1>6, <1>7, ArchiveBegins DEF LifecycleNext

-----------------------------------------------------------------------------
(* Decisions: the reads and the commit that takes the lease.               *)

LEMMA RequestTyped ==
    ASSUME DecisionInv, NEW k \in {"create", "accept", "supersede"} \cup PointerKinds,
           NEW i \in Ids \cup {NoId}, NEW j \in Ids \cup {NoId}, NEW q \in Paths,
           NEW t \in BodiesFor(q), Names(k, i, q, j)
    PROVE  /\ RequestFor(k, i, q, j, t) \in Request
           /\ RequestFor(k, i, q, j, t).kind = k /\ RequestFor(k, i, q, j, t).id = i
           /\ RequestFor(k, i, q, j, t).path = q /\ RequestFor(k, i, q, j, t).target = j
           /\ k = "create" => RequestFor(k, i, q, j, t).content = DraftOf(i, t) /\ i \in Ids
           /\ k \in {"accept", "supersede"} =>
                RequestFor(k, i, q, j, t).content = document[q] /\ i \in Ids
           /\ k = "supersede" =>
                RequestFor(k, i, q, j, t).targetContent = record[j].content
           /\ k # "create" => Exists(q)
  <1> DEFINE r == RequestFor(k, i, q, j, t)
  <1>1. /\ document[q] \in Document \cup {NoDocument}
        /\ k # "create" => Exists(q)
        /\ k \in {"create", "accept", "supersede"} => i \in Ids
    BY DEF DecisionInv, DecisionTypeOK, Names, PointerKinds
  <1>2. Exists(q) => document[q] \in Document /\ document[q].text \in Texts
    BY <1>1 DEF Exists, Document
  <1>3. t \in Texts
    BY <1>2 DEF BodiesFor
  <1>4. /\ r.kind = k /\ r.id = i /\ r.path = q /\ r.target = j
    BY DEF RequestFor
  <1>5. k = "create" => r.content = DraftOf(i, t)
    BY DEF RequestFor, PointerKinds
  <1>6. k \in PointerKinds => r.content = Plain(document[q].text)
    BY DEF RequestFor, PointerKinds
  <1>7. k \in {"accept", "supersede"} => r.content = document[q]
    BY DEF RequestFor, PointerKinds
  <1>8. r.content \in Document
    <2>1. CASE k = "create"
      BY <1>1, <1>3, <1>5, <2>1 DEF DraftOf, Document
    <2>2. CASE k \in PointerKinds
      BY <1>1, <1>2, <1>6, <2>2 DEF Plain, Document, PointerKinds
    <2>3. CASE k \in {"accept", "supersede"}
      BY <1>1, <1>2, <1>7, <2>3
    <2>4. QED
      BY <2>1, <2>2, <2>3
  <1>9. k = "supersede" => r.targetContent = record[j].content
    BY DEF RequestFor
  <1>10. r.targetContent \in Document \cup {NoDocument}
    <2>1. CASE k = "supersede"
      <3>1. Known(j)
        BY <2>1 DEF Names
      <3>2. QED
        BY <1>9, <2>1, <3>1, RecordFields DEF DecisionInv
    <2>2. CASE k # "supersede"
      BY <2>2 DEF RequestFor
    <2>3. QED
      BY <2>1, <2>2
  <1>11. r \in Request
    <2>1. r = [kind |-> r.kind, id |-> r.id, path |-> r.path, target |-> r.target,
               content |-> r.content, targetContent |-> r.targetContent]
      BY DEF RequestFor
    <2> HIDE DEF r
    <2>2. QED
      BY <1>4, <1>8, <1>10, <2>1 DEF Request
  <1>12. QED
    BY <1>1, <1>4, <1>5, <1>7, <1>9, <1>11

LEMMA DecisionReads ==
    ASSUME DecisionInv, NEW p \in Callers,
           NEW k \in {"create", "accept", "supersede"} \cup PointerKinds,
           NEW i \in Ids \cup {NoId}, NEW j \in Ids \cup {NoId}, NEW q \in Paths,
           NEW t \in BodiesFor(q), Names(k, i, q, j),
           NEW o \in Ops, NEW act \in Actors, NEW x \in 1 .. MaxTime + 1,
           DecisionRead(p, o, act, x, RequestFor(k, i, q, j, t))
    PROVE  DecisionInv'
  <1>1. PICK r : r = RequestFor(k, i, q, j, t)
    OBVIOUS
  <1>2. PICK c : c = [pc |-> "starting", op |-> o, actor |-> act, base |-> epoch,
                      seen |-> generation, generation |-> generation + 1,
                      expires |-> x, request |-> r]
    OBVIOUS
  <1>3. /\ lock = Free /\ lock' = p /\ FirstAllowed(r) /\ NothingActive
        /\ saga' = [saga EXCEPT ![p] = c]
        /\ UNCHANGED <<vars, lifecycle, writer, selector, transition, digest, approval,
                       operation, yaml, files, writing, faults, document, record, decision,
                       pointers>>
    BY <1>1, <1>2
       DEF DecisionRead, ControlFree, stateVars, archiveVars, decisionVars
  <1>4. /\ r \in Request /\ r.kind = k /\ r.id = i /\ r.path = q /\ r.target = j
        /\ k = "create" => r.content = DraftOf(i, t) /\ i \in Ids
        /\ k \in {"accept", "supersede"} => r.content = document[q] /\ i \in Ids
        /\ k = "supersede" => r.targetContent = record[j].content
        /\ k # "create" => Exists(q)
    <2>1. /\ RequestFor(k, i, q, j, t) \in Request
          /\ RequestFor(k, i, q, j, t).kind = k /\ RequestFor(k, i, q, j, t).id = i
          /\ RequestFor(k, i, q, j, t).path = q /\ RequestFor(k, i, q, j, t).target = j
      BY RequestTyped
    <2>2. k = "create" => RequestFor(k, i, q, j, t).content = DraftOf(i, t) /\ i \in Ids
      BY RequestTyped
    <2>3. /\ k \in {"accept", "supersede"} =>
                RequestFor(k, i, q, j, t).content = document[q] /\ i \in Ids
          /\ k = "supersede" => RequestFor(k, i, q, j, t).targetContent = record[j].content
          /\ k # "create" => Exists(q)
      BY RequestTyped
    <2>4. QED
      BY <1>1, <2>1, <2>2, <2>3
  <1>5. /\ c \in DecisionSaga /\ c.pc = "starting" /\ c.request = r
    <2>1. epoch \in Nat /\ generation \in Nat
      BY DEF DecisionInv, DecisionTypeOK, TypeOK
    <2>2. QED
      BY <1>2, <1>4, <2>1, BoundAssumption DEF DecisionSaga
  <1>6. /\ \A z \in Ids : Known(z) /\ record[z].path = q => HasForm(q, record[z].content)
        /\ Exists(q) /\ ~Governed(q) => Alike(document[q], Plain(document[q].text))
    <2>1. ~Rewritten(q)
      BY <1>3, NothingPending DEF Rewritten
    <2>2. QED
      BY <2>1 DEF DecisionInv, FilesSound
  <1>7. Asked(r) /\ Before(r)
    <2>1. CASE k = "create"
      <3>1. DraftOf(i, t).text = t
        BY DEF DraftOf
      <3>2. QED
        BY <1>3, <1>4, <2>1, <3>1
           DEF FirstAllowed, CreateAllowed, Asked, Before, PointerKinds
    <2>2. CASE k = "accept"
      BY <1>3, <1>4, <2>2
         DEF FirstAllowed, StillAllowed, AcceptAllowed, Asked, Before, PointerKinds, HasForm,
             Alike
    <2>3. CASE k = "supersede"
      <3>1. TargetAccepted(r) /\ SourceAccepted(r)
        BY <1>3, <1>4, <2>3 DEF FirstAllowed, StillAllowed, SupersedeStillAllowed
      <3>2. Known(r.id) => Alike(r.content, record[r.id].content)
        BY <1>4, <1>6, <2>3, <3>1 DEF SourceAccepted, HasForm, Alike
      <3>3. ~Governed(r.path) => r.content.lifecycle = "none"
        BY <1>4, <1>6, <2>3 DEF Alike, Plain
      <3>4. Asked(r)
        BY <1>4, <2>3, <3>1, <3>2, <3>3 DEF Asked, PointerKinds
      <3>5. Before(r)
        BY <1>4, <2>3 DEF Before, PointerKinds, HasForm, Alike
      <3>6. QED
        BY <3>4, <3>5
    <2>4. CASE k \in PointerKinds
      BY <1>3, <1>4, <2>4
         DEF FirstAllowed, StillAllowed, PointerStillAllowed, Asked, Before, PointerKinds
    <2>5. QED
      BY <2>1, <2>2, <2>3, <2>4
  <1>8. SagaFits(c)'
    <2>1. Asked(r)' /\ Before(r)'
      BY <1>3, <1>4, <1>7, SameForms, RequestKept
    <2>2. QED
      BY <1>5, <2>1 DEF SagaFits
  <1>9. /\ saga' \in [Callers -> Saga \cup DecisionSaga \cup {NoSaga}]
        /\ LocksHeld' /\ SagasSound'
    BY <1>3, <1>5, <1>8, SagaMoves, SagaDefined
  <1>10. LifecycleTyped'
    BY <1>3 DEF DecisionInv, LifecycleTyped
  <1>11. QED
    BY <1>3, <1>9, <1>10, OnlySagas

LEMMA DecisionResumes ==
    ASSUME DecisionInv, NEW p \in Callers, NEW o \in Ops, NEW act \in Actors,
           NEW x \in 1 .. MaxTime + 1, DecisionResume(p, o, act, x)
    PROVE  DecisionInv'
  <1>1. PICK c : c =
            [pc |-> "restarting", op |-> o, actor |-> act, base |-> epoch,
             seen |-> generation,
             generation |-> IF leaseOp = NoOp THEN generation + 1 ELSE generation,
             expires |-> x, request |-> decision[o].request]
    OBVIOUS
  <1>2. /\ lock = Free /\ lock' = p
        /\ UnfinishedDecision(o) /\ decision[o].actor = act /\ decision[o].base = epoch
        /\ saga' = [saga EXCEPT ![p] = c]
        /\ UNCHANGED <<vars, lifecycle, writer, selector, transition, digest, approval,
                       operation, yaml, files, writing, faults, document, record, decision,
                       pointers>>
    BY <1>1 DEF DecisionResume, DecisionResumable, stateVars, archiveVars, decisionVars
  <1>3. decision[o].request \in Request
    BY <1>2, DecisionFields DEF DecisionInv, UnfinishedDecision
  <1>4. /\ c \in DecisionSaga /\ c.pc = "restarting" /\ c.op = o /\ c.actor = act
        /\ c.base = epoch /\ c.request = decision[o].request
    <2>1. epoch \in Nat /\ generation \in Nat
      BY DEF DecisionInv, DecisionTypeOK, TypeOK
    <2>2. QED
      BY <1>1, <1>3, <2>1, BoundAssumption DEF DecisionSaga
  <1>5. SagaFits(c)'
    BY <1>2, <1>4 DEF SagaFits, UnfinishedDecision
  <1>6. /\ saga' \in [Callers -> Saga \cup DecisionSaga \cup {NoSaga}]
        /\ LocksHeld' /\ SagasSound'
    BY <1>2, <1>4, <1>5, SagaMoves, SagaDefined
  <1>7. LifecycleTyped'
    BY <1>2 DEF DecisionInv, LifecycleTyped
  <1>8. QED
    BY <1>2, <1>6, <1>7, OnlySagas

LEMMA HoldLeaseTyped ==
    ASSUME TypeOK, NEW c \in DecisionSaga, HoldLease(c)
    PROVE  /\ TypeOK' /\ DecisionLeaseRow(c) # NoRow
           /\ RowMatches(DecisionLeaseRow(c), DecisionKind, c.actor, c.base)
  <1>1. /\ c.op \in Ops /\ c.actor \in Actors /\ c.base \in Nat /\ c.generation \in Nat
        /\ c.expires \in Nat
    BY DEF DecisionSaga
  <1>2. DecisionLeaseRow(c) \in Row
    BY <1>1, DecisionKindAssumption DEF DecisionLeaseRow, Row
  <1>3. active' \in [Ops -> Row \cup {NoRow}]
    BY <1>2 DEF TypeOK, HoldLease
  <1>4. TypeOK'
    BY <1>1, <1>3 DEF TypeOK, HoldLease
  <1>5. QED
    BY <1>2, <1>4, NoRowAssumption DEF DecisionLeaseRow, RowMatches

LEMMA DecisionPrepares ==
    ASSUME DecisionInv, NEW p \in Callers, DecisionPrepare(p)
    PROVE  DecisionInv'
  <1>1. PICK c : c = saga[p]
    OBVIOUS
  <1>2. PICK s, row, entry, d :
            /\ s = ProjectOf[c.request.path]
            /\ row = [request |-> c.request, actor |-> c.actor, base |-> c.base,
                      state |-> "prepared"]
            /\ entry = DecisionLeaseRow(c)
            /\ d = [c EXCEPT !.pc = "ready"]
    OBVIOUS
  <1>3. /\ c.pc = "starting" /\ CanStart(c) /\ HoldLease(c)
        /\ writer' = [writer EXCEPT ![s] = @ + 1]
        /\ transition' = [transition EXCEPT ![s] = c.op]
        /\ decision' = [decision EXCEPT ![c.op] = row]
        /\ saga' = [saga EXCEPT ![p] = d]
        /\ UNCHANGED <<lifecycle, selector, digest, approval, operation, yaml, files, lock,
                       writing, faults, document, record, pointers>>
    BY <1>1, <1>2 DEF DecisionPrepare, RaiseFence, archiveVars
  <1>4. /\ c # NoSaga /\ c \in DecisionSaga /\ c.op \in Ops /\ c.actor \in Actors
        /\ c.base \in Nat /\ c.request \in Request
    BY <1>1, <1>3, SagaKinds DEF DecisionInv, DecisionPcs
  <1>5. PICK r \in Request : r = c.request
    BY <1>4
  <1>6. /\ r.path \in Paths /\ s \in Projects
    BY <1>2, <1>5, RequestFields
  <1>7. NothingActive /\ Writable(s)
    BY <1>2, <1>3 DEF CanStart, ControlFree
  <1>8. /\ \A o \in Ops : ~Unfinished(o) /\ ~UnfinishedDecision(o) /\ ~JournalActive(o)
        /\ \A z \in Projects : transition[z] = NoOp
    BY <1>7, NothingPending
  <1>9. Asked(r) /\ Before(r)
    BY <1>1, <1>3, <1>4, <1>5, SagaFitsNow DEF SagaFits
  <1>10. /\ row \in DecisionOperation /\ row # NoRow /\ row.request = r
         /\ row.actor = c.actor /\ row.base = c.base /\ row.state = "prepared"
    BY <1>2, <1>4, <1>5, NoRowDecisionAssumption DEF DecisionOperation
  <1>11. /\ d \in DecisionSaga /\ d.pc = "ready" /\ d.op = c.op /\ d.actor = c.actor
         /\ d.base = c.base /\ d.request = r
    BY <1>2, <1>4, <1>5 DEF DecisionSaga
  <1>12. /\ decision' \in [Ops -> DecisionOperation \cup {NoRow}] /\ decision'[c.op] = row
         /\ \A o \in Ops : o # c.op => decision'[o] = decision[o]
         /\ transition' \in [Projects -> Ops \cup {NoOp}] /\ transition'[s] = c.op
         /\ \A z \in Projects : z # s => transition'[z] = NoOp
         /\ writer' \in [Projects -> Nat]
    BY <1>3, <1>4, <1>6, <1>8, <1>10 DEF DecisionInv, DecisionTypeOK, LifecycleTyped
  <1>13. /\ TypeOK' /\ entry # NoRow
         /\ RowMatches(entry, DecisionKind, c.actor, c.base)
    BY <1>2, <1>3, <1>4, HoldLeaseTyped DEF DecisionInv, DecisionTypeOK
  <1>14. \A o \in Ops : /\ UnfinishedDecision(o)' <=> o = c.op
                        /\ ~Unfinished(o)'
    BY <1>3, <1>4, <1>8, <1>10, <1>12 DEF Unfinished, UnfinishedDecision
  <1>15. /\ saga' \in [Callers -> Saga \cup DecisionSaga \cup {NoSaga}]
         /\ LocksHeld' /\ SagasSound'
    <2>1. lock = p
      BY <1>1, <1>4 DEF DecisionInv, LocksHeld
    <2>2. SagaFits(d)'
      BY <1>4, <1>10, <1>11, <1>12, <1>14 DEF SagaFits
    <2>3. QED
      BY <1>1, <1>3, <1>4, <1>11, <2>1, <2>2, SagaMoves, SagaDefined
  <1>16. DecisionTypeOK' /\ LifecycleTyped'
    <2>1. DecisionTypeOK'
      BY <1>3, <1>12, <1>13, <1>15 DEF DecisionInv, DecisionTypeOK
    <2>2. LifecycleTyped'
      BY <1>3, <1>12 DEF DecisionInv, LifecycleTyped
    <2>3. QED
      BY <2>1, <2>2
  <1>17. FenceMatchesEitherOperation'
    <2>1. ASSUME NEW z \in Projects, NEW o \in Ops
          PROVE  transition'[z] = o <=> (o = c.op /\ z = s)
      BY <1>4, <1>12, NullAssumption
    <2>2. ProjectOf[decision'[c.op].request.path] = s
      BY <1>2, <1>5, <1>10, <1>12
    <2>3. QED
      BY <1>14, <2>1, <2>2 DEF FenceMatchesEitherOperation
  <1>18. ArchivedNotFenced'
    BY <1>3, <1>7, <1>12 DEF Writable, ArchivedNotFenced, DecisionInv, LifecycleTyped
  <1>19. OneOperation'
    <2>1. active' = [active EXCEPT ![c.op] = entry] /\ UNCHANGED journal
      BY <1>2, <1>3 DEF HoldLease
    <2>2. RowMatches(entry, DecisionKind, decision'[c.op].actor, decision'[c.op].base)
      BY <1>10, <1>12, <1>13
    <2>3. QED
      BY <1>4, <1>8, <1>13, <1>14, <2>1, <2>2, LeaseTaken
  <1>20. ApprovalsKept'
    BY <1>3 DEF DecisionInv, ApprovalsKept
  <1>21. FormsKept
    BY <1>3, SameForms
  <1>22. RowsSound'
    BY <1>3 DEF DecisionInv, RowsSound, Known
  <1>23. FilesSound'
    <2>1. ASSUME NEW q \in Paths
          PROVE  /\ \A z \in Ids : Known(z)' /\ record'[z].path = q =>
                        HasForm(q, record[z].content)'
                 /\ Exists(q)' /\ ~Governed(q)' =>
                        Alike(document[q], Plain(document[q].text))'
      <3>1. ~Rewritten(q)
        BY <1>8 DEF Rewritten
      <3>2. /\ \A z \in Ids : Known(z) /\ record[z].path = q => HasForm(q, record[z].content)
            /\ Exists(q) /\ ~Governed(q) => Alike(document[q], Plain(document[q].text))
        BY <3>1 DEF DecisionInv, FilesSound
      <3>3. QED
        BY <1>3, <3>2 DEF Known, Governed, HasForm, Exists, Alike, Plain
    <2>2. QED
      BY <2>1 DEF FilesSound
  <1>24. DecisionsSound'
    <2>1. Asked(r)' /\ Before(r)'
      BY <1>3, <1>9, <1>21, RequestKept
    <2>2. ASSUME NEW o \in Ops, NEW z \in Request, UnfinishedDecision(o)',
                 decision'[o].request = z
          PROVE  z = r /\ decision'[o].state = "prepared"
      BY <1>10, <1>12, <1>14, <2>2
    <2>3. QED
      BY <2>1, <2>2 DEF DecisionsSound
  <1>25. QED
    BY <1>15, <1>16, <1>17, <1>18, <1>19, <1>20, <1>22, <1>23, <1>24 DEF DecisionInv

LEMMA DecisionRenews ==
    ASSUME DecisionInv, NEW p \in Callers, DecisionRenew(p)
    PROVE  DecisionInv'
  <1>1. PICK c : c = saga[p]
    OBVIOUS
  <1>2. PICK entry, d :
            /\ entry = DecisionLeaseRow(c)
            /\ d = [c EXCEPT !.pc = IF decision[c.op].state = "prepared"
                                    THEN "ready" ELSE "marked"]
    OBVIOUS
  <1>3. /\ c.pc = "restarting" /\ HoldLease(c)
        /\ saga' = [saga EXCEPT ![p] = d]
        /\ UNCHANGED <<lifecycle, writer, selector, transition, digest, approval, operation,
                       yaml, files, lock, writing, faults, document, record, decision, pointers>>
    BY <1>1, <1>2 DEF DecisionRenew, stateVars, archiveVars, decisionVars
  <1>4. /\ c # NoSaga /\ c \in DecisionSaga /\ c.op \in Ops
    BY <1>1, <1>3, SagaKinds DEF DecisionInv, DecisionPcs
  <1>5. /\ UnfinishedDecision(c.op) /\ decision[c.op].request = c.request
        /\ decision[c.op].actor = c.actor /\ decision[c.op].base = c.base
    BY <1>1, <1>3, <1>4, SagaFitsNow DEF SagaFits
  <1>6. /\ ~Unfinished(c.op) /\ ~JournalActive(c.op)
        /\ \A o \in Ops \ {c.op} : ~Unfinished(o) /\ ~UnfinishedDecision(o)
    BY <1>4, <1>5, NotBoth DEF Pending
  <1>7. /\ d \in DecisionSaga /\ d.pc \in {"ready", "marked"} /\ d.op = c.op
        /\ d.actor = c.actor /\ d.base = c.base /\ d.request = c.request
    BY <1>2, <1>4 DEF DecisionSaga
  <1>8. /\ TypeOK' /\ entry # NoRow
        /\ RowMatches(entry, DecisionKind, c.actor, c.base)
    BY <1>2, <1>3, <1>4, HoldLeaseTyped DEF DecisionInv, DecisionTypeOK
  <1>9. /\ saga' \in [Callers -> Saga \cup DecisionSaga \cup {NoSaga}]
        /\ LocksHeld' /\ SagasSound'
    <2>1. lock = p
      BY <1>1, <1>4 DEF DecisionInv, LocksHeld
    <2>2. SagaFits(d)'
      BY <1>3, <1>5, <1>7 DEF SagaFits, UnfinishedDecision
    <2>3. QED
      BY <1>1, <1>3, <1>4, <1>7, <2>1, <2>2, SagaMoves, SagaDefined
  <1>10. DecisionTypeOK' /\ LifecycleTyped'
    BY <1>3, <1>8, <1>9 DEF DecisionInv, DecisionTypeOK, LifecycleTyped
  <1>11. OneOperation'
    <2>1. active' = [active EXCEPT ![c.op] = entry] /\ UNCHANGED journal
      BY <1>2, <1>3 DEF HoldLease
    <2>2. \A o \in Ops : /\ Unfinished(o)' <=> Unfinished(o)
                         /\ UnfinishedDecision(o)' <=> UnfinishedDecision(o)
      BY <1>3 DEF Unfinished, UnfinishedDecision
    <2>3. RowMatches(entry, DecisionKind, decision'[c.op].actor, decision'[c.op].base)
      BY <1>3, <1>5, <1>8
    <2>4. QED
      BY <1>4, <1>6, <1>8, <2>1, <2>2, <2>3, LeaseTaken
  <1>12. FenceMatchesEitherOperation' /\ ArchivedNotFenced' /\ ApprovalsKept'
    BY <1>3 DEF DecisionInv, FenceMatchesEitherOperation, ArchivedNotFenced, ApprovalsKept,
                Unfinished, UnfinishedDecision
  <1>13. RowsSound' /\ FilesSound' /\ DecisionsSound'
    BY <1>3, SameForms, RecordsKept
  <1>14. QED
    BY <1>9, <1>10, <1>11, <1>12, <1>13 DEF DecisionInv

-----------------------------------------------------------------------------
(* Decisions: the file and the checkpoint.                                 *)

\* A file that looks as if the step had been taken was left by the step,
\* except at a dead end.
LEMMA AppliedIsAfter ==
    ASSUME DecisionInv, NEW r \in Request, Asked(r), Before(r) \/ After(r), AlreadyApplied(r)
    PROVE  After(r) \/ DeadEnd(r)
  <1>1. r.kind \in {"create", "accept", "supersede", "forward", "applies_to"}
    BY RequestFields
  <1>2. CASE r.kind = "create"
    <2>1. document[r.path] = r.content /\ r.content # NoDocument
      BY <1>2, RequestFields DEF AlreadyApplied
    <2>2. QED
      BY <1>2, <2>1 DEF After, HasForm, Exists, Alike, PointerKinds
  <1>3. CASE r.kind = "accept"
    <2>1. document[r.path].lifecycle = "accepted"
      BY <1>3 DEF AlreadyApplied, AcceptApplied
    <2>2. r.content.lifecycle = "draft"
      BY <1>3 DEF Asked, Known, DecisionInv, RowsSound
    <2>3. ~Before(r)
      BY <1>3, <2>1, <2>2 DEF Before, HasForm, Alike
    <2>4. QED
      BY <2>3
  <1>4. CASE r.kind = "supersede"
    <2>1. document[r.path].lifecycle = "superseded"
      BY <1>4 DEF AlreadyApplied, SupersedeApplied
    <2>2. ASSUME ~DeadEnd(r) PROVE r.content.lifecycle \in {"none", "accepted"}
      <3>1. CASE Known(r.id)
        <4>1. /\ r.content.lifecycle = record[r.id].content.lifecycle
              /\ record[r.id].lifecycle = "accepted" /\ r.id \in Ids
          BY <1>4, <3>1 DEF Asked, SourceAccepted, Alike
        <4>2. record[r.id].content.lifecycle = record[r.id].lifecycle
          BY <3>1, <4>1 DEF DecisionInv, RowsSound
        <4>3. QED
          BY <4>1, <4>2
      <3>2. CASE ~Known(r.id)
        BY <1>4, <2>2, <3>2 DEF Asked, DeadEnd
      <3>3. QED
        BY <3>1, <3>2
    <2>3. ASSUME ~DeadEnd(r) PROVE ~Before(r)
      BY <1>4, <2>1, <2>2, <2>3 DEF Before, HasForm, Alike
    <2>4. QED
      BY <2>3
  <1>5. CASE r.kind \in PointerKinds
    BY <1>5 DEF Before, After, PointerKinds
  <1>6. QED
    BY <1>1, <1>2, <1>3, <1>4, <1>5 DEF PointerKinds

\* The file an operation writes is a document in the form its outcome has.
LEMMA StepWrites ==
    ASSUME DecisionInv, NEW r \in Request, Asked(r), ReadyForStep(r),
           r.kind \notin PointerKinds, NEW out, out = StepResult(r)
    PROVE  /\ out \in Document /\ out # NoDocument
           /\ r.kind = "create" => Alike(out, r.content)
           /\ r.kind = "accept" => Alike(out, AcceptedForm(r.content, r.id))
           /\ r.kind = "supersede" => Alike(out, SupersededForm(r.content, r.id, r.target))
  <1>1. /\ r.kind \in {"create", "accept", "supersede"} /\ r.content \in Document
        /\ r.target \in Ids \cup {NoId}
    BY RequestFields DEF PointerKinds
  <1>2. CASE r.kind = "create"
    BY <1>1, <1>2, NoRowDecisionAssumption DEF StepResult, Alike
  <1>3. CASE r.kind = "accept"
    <2>1. r.id \in Ids /\ document[r.path] = r.content
      BY <1>3 DEF Asked, Known, ReadyForStep
    <2>2. out = AcceptedForm(r.content, r.id)
      BY <1>3, <2>1 DEF StepResult
    <2>3. out \in Document
      BY <1>1, <2>1, <2>2 DEF AcceptedForm, Document
    <2>4. QED
      BY <1>3, <2>2, <2>3, NoRowDecisionAssumption DEF Alike
  <1>4. CASE r.kind = "supersede"
    <2>1. r.id \in Ids /\ document[r.path] = r.content
      BY <1>4 DEF Asked, ReadyForStep
    <2>2. out = SupersededForm(r.content, r.id, r.target)
      BY <1>4, <2>1 DEF StepResult
    <2>3. out \in Document
      BY <1>1, <2>1, <2>2 DEF SupersededForm, Document
    <2>4. QED
      BY <1>4, <2>2, <2>3, NoRowDecisionAssumption DEF Alike
  <1>5. QED
    BY <1>1, <1>2, <1>3, <1>4

LEMMA DecisionApplies ==
    ASSUME DecisionInv, NEW p \in Callers, DecisionApply(p)
    PROVE  DecisionInv'
  <1>1. PICK c : c = saga[p]
    OBVIOUS
  <1>2. PICK d : d = [c EXCEPT !.pc = "written"]
    OBVIOUS
  <1>3. c.pc = "ready"
    BY <1>1 DEF DecisionApply
  <1>4. /\ c # NoSaga /\ c \in DecisionSaga /\ c.op \in Ops /\ c.request \in Request
    BY <1>1, <1>3, SagaKinds DEF DecisionInv, DecisionPcs
  <1>5. PICK r \in Request : r = c.request
    BY <1>4
  <1>6. /\ CanApply(r)
        /\ AlreadyApplied(r) => document' = document
        /\ ~AlreadyApplied(r) => document' = [document EXCEPT ![r.path] = StepResult(r)]
        /\ saga' = [saga EXCEPT ![p] = d]
        /\ UNCHANGED <<vars, lifecycle, writer, selector, transition, digest, approval,
                       operation, yaml, files, lock, writing, faults, record, decision, pointers>>
    BY <1>1, <1>2, <1>5 DEF DecisionApply, stateVars, archiveVars
  <1>7. /\ UnfinishedDecision(c.op) /\ decision[c.op].request = r
        /\ decision[c.op].actor = c.actor /\ decision[c.op].base = c.base
    BY <1>1, <1>3, <1>4, <1>5, SagaFitsNow DEF SagaFits
  <1>8. Asked(r) /\ (Before(r) \/ After(r))
    BY <1>4, <1>7 DEF DecisionInv, DecisionsSound
  <1>9. r.path \in Paths
    BY RequestFields
  <1>10. /\ d \in DecisionSaga /\ d.pc = "written" /\ d.op = c.op
         /\ d.actor = c.actor /\ d.base = c.base /\ d.request = r
    BY <1>2, <1>4, <1>5 DEF DecisionSaga
  <1>11. \A o \in Ops : UnfinishedDecision(o) => o = c.op
    BY <1>4, <1>7 DEF DecisionInv, OneOperation, Pending
  <1>12. /\ document' \in [Paths -> Document \cup {NoDocument}]
         /\ Asked(r)' /\ (After(r)' \/ DeadEnd(r)')
         /\ RowsSound' /\ FilesSound' /\ DecisionsSound'
    <2>1. CASE AlreadyApplied(r)
      <3>1. UNCHANGED document
        BY <1>6, <2>1
      <3>2. FormsKept
        BY <3>1, SameForms
      <3>3. After(r) \/ DeadEnd(r)
        BY <1>8, <2>1, AppliedIsAfter
      <3>4. Asked(r)' /\ (After(r)' \/ DeadEnd(r)')
        BY <1>6, <1>8, <3>2, <3>3, RequestKept
      <3>5. QED
        BY <1>6, <3>1, <3>2, <3>4, RecordsKept DEF DecisionInv, DecisionTypeOK
    <2>2. CASE ~AlreadyApplied(r)
      <3>1. PICK out : out = StepResult(r)
        OBVIOUS
      <3>2. r.kind \notin PointerKinds /\ ReadyForStep(r)
        BY <1>6, <2>2 DEF CanApply
      <3>3. /\ out \in Document /\ out # NoDocument
            /\ r.kind = "create" => Alike(out, r.content)
            /\ r.kind = "accept" => Alike(out, AcceptedForm(r.content, r.id))
            /\ r.kind = "supersede" => Alike(out, SupersededForm(r.content, r.id, r.target))
        BY <1>8, <3>1, <3>2, StepWrites
      <3>4. /\ document' \in [Paths -> Document \cup {NoDocument}]
            /\ document'[r.path] = out
            /\ \A q \in Paths : q # r.path => document'[q] = document[q]
        BY <1>6, <1>9, <2>2, <3>1, <3>3 DEF DecisionInv, DecisionTypeOK
      <3>5. After(r)'
        BY <3>2, <3>3, <3>4 DEF After, HasForm, Exists, Alike
      <3>6. Asked(r)'
        BY <1>6, <1>8 DEF Asked, TargetAccepted, SourceAccepted, Known, Governed, Alike
      <3>7. RowsSound'
        BY <1>6 DEF DecisionInv, RowsSound, Known
      <3>8. FilesSound'
        <4>1. Rewritten(r.path)'
          BY <1>4, <1>6, <1>7, <3>2 DEF Rewritten, UnfinishedDecision
        <4>2. ASSUME NEW q \in Paths, ~Rewritten(q)'
              PROVE  /\ \A i \in Ids : Known(i)' /\ record'[i].path = q =>
                            HasForm(q, record[i].content)'
                     /\ Exists(q)' /\ ~Governed(q)' =>
                            Alike(document[q], Plain(document[q].text))'
          <5>1. q # r.path /\ document'[q] = document[q]
            BY <3>4, <4>1, <4>2
          <5>2. ~Rewritten(q)
            BY <1>6, <4>2 DEF Rewritten, UnfinishedDecision
          <5>3. /\ \A i \in Ids : Known(i) /\ record[i].path = q =>
                        HasForm(q, record[i].content)
                /\ Exists(q) /\ ~Governed(q) => Alike(document[q], Plain(document[q].text))
            BY <5>2 DEF DecisionInv, FilesSound
          <5>4. QED
            BY <1>6, <5>1, <5>3 DEF Known, Governed, HasForm, Exists, Alike, Plain
        <4>3. QED
          BY <4>2 DEF FilesSound
      <3>9. DecisionsSound'
        <4>1. ASSUME NEW o \in Ops, NEW z \in Request, UnfinishedDecision(o)',
                     decision'[o].request = z
              PROVE  z = r
          BY <1>6, <1>7, <1>11, <4>1 DEF UnfinishedDecision
        <4>2. QED
          BY <3>5, <3>6, <4>1 DEF DecisionsSound
      <3>10. QED
        BY <3>4, <3>5, <3>6, <3>7, <3>8, <3>9
    <2>3. QED
      BY <2>1, <2>2
  <1>13. /\ saga' \in [Callers -> Saga \cup DecisionSaga \cup {NoSaga}]
         /\ LocksHeld' /\ SagasSound'
    <2>1. lock = p
      BY <1>1, <1>4 DEF DecisionInv, LocksHeld
    <2>2. SagaFits(d)'
      BY <1>6, <1>7, <1>10, <1>12 DEF SagaFits, UnfinishedDecision
    <2>3. QED
      BY <1>1, <1>4, <1>6, <1>10, <2>1, <2>2, SagaMoves, SagaDefined
  <1>14. TypeOK' /\ UNCHANGED <<active, journal>>
    BY <1>6, CloudUnchanged DEF DecisionInv, DecisionTypeOK, vars, cloudVars
  <1>15. DecisionTypeOK' /\ LifecycleTyped'
    BY <1>6, <1>12, <1>13, <1>14 DEF DecisionInv, DecisionTypeOK, LifecycleTyped
  <1>16. FenceMatchesEitherOperation' /\ ArchivedNotFenced' /\ ApprovalsKept' /\ OneOperation'
    <2>1. /\ \A o \in Ops : Pending(o) => active'[o] = active[o] /\ ~JournalActive(o)'
          /\ \A o \in Ops : JournalActive(o)' => IsActive(o)'
      BY <1>14 DEF DecisionInv, OneOperation, Pending, JournalActive, IsActive
    <2>2. QED
      BY <1>6, <2>1, OperationsKept
  <1>17. QED
    BY <1>12, <1>13, <1>15, <1>16 DEF DecisionInv

\* The row of a decision operation gets a new state.
LEMMA DecisionRewritten ==
    ASSUME DecisionTypeOK, NEW o \in Ops, decision[o] # NoRow,
           NEW state \in {"prepared", "filesystem_applied", "completed"},
           decision' = [decision EXCEPT ![o].state = state]
    PROVE  /\ decision' \in [Ops -> DecisionOperation \cup {NoRow}]
           /\ \A q \in Ops : q # o => decision'[q] = decision[q]
           /\ decision'[o] # NoRow /\ decision'[o].state = state
           /\ decision'[o].request = decision[o].request
           /\ decision'[o].actor = decision[o].actor
           /\ decision'[o].base = decision[o].base
  <1>1. PICK new : new = [decision[o] EXCEPT !.state = state]
    OBVIOUS
  <1>2. decision[o] \in DecisionOperation
    BY DecisionFields
  <1>3. /\ new \in DecisionOperation /\ new # NoRow /\ new.state = state
        /\ new.request = decision[o].request /\ new.actor = decision[o].actor
        /\ new.base = decision[o].base
    BY <1>1, <1>2, NoRowDecisionAssumption DEF DecisionOperation
  <1>4. decision' = [decision EXCEPT ![o] = new]
    BY <1>1
  <1>5. QED
    BY <1>3, <1>4 DEF DecisionTypeOK

LEMMA DecisionMarks ==
    ASSUME DecisionInv, NEW p \in Callers, DecisionMark(p)
    PROVE  DecisionInv'
  <1>1. PICK c : c = saga[p]
    OBVIOUS
  <1>2. PICK d : d = [c EXCEPT !.pc = "marked"]
    OBVIOUS
  <1>3. /\ c.pc = "written"
        /\ decision' = [decision EXCEPT ![c.op].state = "filesystem_applied"]
        /\ saga' = [saga EXCEPT ![p] = d]
        /\ UNCHANGED <<vars, lifecycle, writer, selector, transition, digest, approval,
                       operation, yaml, files, lock, writing, faults, document, record, pointers>>
    BY <1>1, <1>2 DEF DecisionMark, stateVars, archiveVars
  <1>4. /\ c # NoSaga /\ c \in DecisionSaga /\ c.op \in Ops /\ c.request \in Request
    BY <1>1, <1>3, SagaKinds DEF DecisionInv, DecisionPcs
  <1>5. PICK r \in Request : r = c.request
    BY <1>4
  <1>6. /\ UnfinishedDecision(c.op) /\ decision[c.op].request = r
        /\ decision[c.op].actor = c.actor /\ decision[c.op].base = c.base
        /\ After(r) \/ DeadEnd(r)
    BY <1>1, <1>3, <1>4, <1>5, SagaFitsNow DEF SagaFits
  <1>7. Asked(r) /\ (Before(r) \/ After(r))
    BY <1>4, <1>6 DEF DecisionInv, DecisionsSound
  <1>8. /\ decision' \in [Ops -> DecisionOperation \cup {NoRow}]
        /\ \A q \in Ops : q # c.op => decision'[q] = decision[q]
        /\ decision'[c.op] # NoRow /\ decision'[c.op].state = "filesystem_applied"
        /\ decision'[c.op].request = r
        /\ decision'[c.op].actor = decision[c.op].actor
        /\ decision'[c.op].base = decision[c.op].base
    BY <1>3, <1>4, <1>6, DecisionRewritten DEF DecisionInv, UnfinishedDecision
  <1>9. \A o \in Ops :
            /\ Unfinished(o)' <=> Unfinished(o)
            /\ UnfinishedDecision(o)' <=> UnfinishedDecision(o)
            /\ UnfinishedDecision(o) =>
                /\ o = c.op
                /\ decision'[o].request = decision[o].request
                /\ decision'[o].actor = decision[o].actor
                /\ decision'[o].base = decision[o].base
    <2>1. \A o \in Ops : UnfinishedDecision(o) => o = c.op
      BY <1>4, <1>6 DEF DecisionInv, OneOperation, Pending
    <2>2. QED
      BY <1>3, <1>6, <1>8, <2>1 DEF Unfinished, UnfinishedDecision
  <1>10. /\ d \in DecisionSaga /\ d.pc = "marked" /\ d.op = c.op
         /\ d.actor = c.actor /\ d.base = c.base /\ d.request = r
    BY <1>2, <1>4, <1>5 DEF DecisionSaga
  <1>11. /\ saga' \in [Callers -> Saga \cup DecisionSaga \cup {NoSaga}]
         /\ LocksHeld' /\ SagasSound'
    <2>1. lock = p
      BY <1>1, <1>4 DEF DecisionInv, LocksHeld
    <2>2. SagaFits(d)'
      BY <1>4, <1>6, <1>8, <1>9, <1>10 DEF SagaFits
    <2>3. QED
      BY <1>1, <1>3, <1>4, <1>10, <2>1, <2>2, SagaMoves, SagaDefined
  <1>12. TypeOK' /\ UNCHANGED <<active, journal>>
    BY <1>3, CloudUnchanged DEF DecisionInv, DecisionTypeOK, vars, cloudVars
  <1>13. DecisionTypeOK' /\ LifecycleTyped'
    BY <1>3, <1>8, <1>11, <1>12 DEF DecisionInv, DecisionTypeOK, LifecycleTyped
  <1>14. FenceMatchesEitherOperation'
    <2>1. \A o \in Ops, s \in Projects :
            (UnfinishedDecision(o) /\ ProjectOf[decision[o].request.path] = s)
                <=> (UnfinishedDecision(o)' /\ ProjectOf[decision'[o].request.path] = s)
      BY <1>9
    <2>2. QED
      BY <1>3, <1>9, <2>1 DEF DecisionInv, FenceMatchesEitherOperation
  <1>15. ArchivedNotFenced' /\ ApprovalsKept'
    BY <1>3 DEF DecisionInv, ArchivedNotFenced, ApprovalsKept
  <1>16. OneOperation'
    <2>1. ASSUME NEW o \in Ops
          PROVE  /\ JournalActive(o)' => IsActive(o)'
                 /\ Pending(o) => IsActive(o)' /\ ~JournalActive(o)'
      BY <1>12 DEF DecisionInv, OneOperation, Pending, IsActive, JournalActive
    <2>2. ASSUME NEW o \in Ops, Unfinished(o)
          PROVE  RowMatches(active'[o], ArchiveKind, operation'[o].actor,
                            approval'[operation'[o].approval].epoch)
      BY <1>3, <1>12, <2>2 DEF DecisionInv, OneOperation
    <2>3. ASSUME NEW o \in Ops, UnfinishedDecision(o)
          PROVE  RowMatches(active'[o], DecisionKind, decision'[o].actor, decision'[o].base)
      BY <1>9, <1>12, <2>3 DEF DecisionInv, OneOperation
    <2>4. \A o1, o2 \in Ops : Pending(o1)' /\ Pending(o2)' => o1 = o2
      BY <1>9 DEF DecisionInv, OneOperation, Pending
    <2>5. QED
      BY <1>9, <2>1, <2>2, <2>3, <2>4 DEF OneOperation, Pending, RowMatches
  <1>17. RowsSound'
    BY <1>3 DEF DecisionInv, RowsSound, Known
  <1>18. FilesSound'
    <2>1. \A q \in Paths : Rewritten(q)' <=> Rewritten(q)
      BY <1>9 DEF Rewritten
    <2>2. QED
      BY <1>3, <2>1 DEF DecisionInv, FilesSound, Known, Governed, Exists, HasForm, Alike, Plain
  <1>19. DecisionsSound'
    <2>1. Asked(r)' /\ (After(r)' \/ DeadEnd(r)')  /\ (Before(r)' \/ After(r)')
      BY <1>3, <1>6, <1>7, SameForms, RequestKept
    <2>2. ASSUME NEW o \in Ops, NEW z \in Request, UnfinishedDecision(o)',
                 decision'[o].request = z
          PROVE  z = r
      BY <1>8, <1>9, <2>2
    <2>3. QED
      BY <2>1, <2>2 DEF DecisionsSound
  <1>20. QED
    BY <1>11, <1>13, <1>14, <1>15, <1>16, <1>17, <1>18, <1>19 DEF DecisionInv

-----------------------------------------------------------------------------
(* Decisions: the last commit.                                             *)

\* The row an operation leaves behind says what its file says of itself, and
\* no other decision has that path.
LEMMA RowWritten ==
    ASSUME DecisionInv, NEW r \in Request, Asked(r), After(r), CanRecord(r),
           r.kind \notin PointerKinds
    PROVE  /\ r.id \in Ids
           /\ Known(r.id) => record[r.id].path = r.path
           /\ \A j \in Ids : Known(j) /\ record[j].path = r.path => j = r.id
           /\ \E row \in DecisionRow :
                /\ RecordAfter(r) = [record EXCEPT ![r.id] = row]
                /\ row.path = r.path /\ row.content = document[r.path]
                /\ row.content.id = r.id /\ row.content.lifecycle = row.lifecycle
                /\ row.content.by = row.by
                /\ row.lifecycle # "superseded" => row.by = NoId
                /\ row.lifecycle = "draft" => row.body = row.content.text
                /\ row.lifecycle = "superseded" => r.kind = "supersede"
                /\ row.by # NoId => row.by = r.target
  <1>1. /\ r.kind \in {"create", "accept", "supersede"} /\ r.content \in Document
        /\ r.path \in Paths /\ r.target \in Ids \cup {NoId}
    BY RequestFields DEF PointerKinds
  <1>2. r.id \in Ids
    BY <1>1 DEF Asked, Known
  <1>3. \A i, j \in Ids : Known(i) /\ Known(j) /\ record[i].path = record[j].path => i = j
    BY DEF DecisionInv, RowsSound
  <1>4. document[r.path] \in Document /\ document[r.path].text \in Texts
    <2>1. document[r.path] \in Document
      BY <1>1 DEF After, HasForm, Exists, DecisionInv, DecisionTypeOK
    <2>2. QED
      BY <2>1 DEF Document
  <1>5. CASE r.kind = "create"
    <2>1. ~Known(r.id) /\ ~Governed(r.path)
      BY <1>5 DEF CanRecord
    <2>2. PICK row : row = DraftRow(r)
      OBVIOUS
    <2>3. RecordAfter(r) = [record EXCEPT ![r.id] = row]
      BY <1>5, <2>2 DEF RecordAfter
    <2>4. /\ row \in DecisionRow /\ row.path = r.path /\ row.content = document[r.path]
          /\ row.body = document[r.path].text /\ row.lifecycle = "draft" /\ row.by = NoId
      BY <1>1, <1>4, <2>2 DEF DraftRow, DecisionRow
    <2>5. /\ document[r.path].id = r.id /\ document[r.path].lifecycle = "draft"
          /\ document[r.path].by = NoId
      BY <1>5 DEF Asked, After, HasForm, Alike, DraftOf
    <2>6. QED
      BY <1>2, <1>3, <2>1, <2>3, <2>4, <2>5 DEF Governed
  <1>6. CASE r.kind = "accept"
    <2>1. /\ Known(r.id) /\ record[r.id].path = r.path /\ record[r.id].lifecycle = "draft"
          /\ record[r.id].content = r.content
      BY <1>6 DEF Asked
    <2>2. /\ r.content.by = record[r.id].by /\ record[r.id].by = NoId
      BY <1>2, <2>1 DEF DecisionInv, RowsSound
    <2>3. PICK row : row = AcceptedRow(r)
      OBVIOUS
    <2>4. RecordAfter(r) = [record EXCEPT ![r.id] = row]
      BY <1>6, <2>3 DEF RecordAfter
    <2>5. record[r.id] \in DecisionRow
      BY <2>1, RecordFields DEF DecisionInv
    <2>6. /\ row \in DecisionRow /\ row.path = r.path /\ row.content = document[r.path]
          /\ row.lifecycle = "accepted" /\ row.by = NoId
      BY <1>4, <2>1, <2>2, <2>3, <2>5 DEF AcceptedRow, DecisionRow
    <2>7. /\ AcceptedForm(r.content, r.id).id = r.id
          /\ AcceptedForm(r.content, r.id).lifecycle = "accepted"
          /\ AcceptedForm(r.content, r.id).by = r.content.by
      BY <1>1 DEF AcceptedForm, Document
    <2>8. /\ document[r.path].id = r.id /\ document[r.path].lifecycle = "accepted"
          /\ document[r.path].by = NoId
      BY <1>6, <2>2, <2>7 DEF After, HasForm, Alike
    <2>9. QED
      BY <1>2, <1>3, <2>1, <2>4, <2>6, <2>8
  <1>7. CASE r.kind = "supersede"
    <2>1. /\ Known(r.id) => record[r.id].path = r.path
          /\ ~Known(r.id) => ~Governed(r.path)
      BY <1>7 DEF Asked, SourceAccepted, CanRecord
    <2>2. PICK row : row = SupersededRow(r)
      OBVIOUS
    <2>3. RecordAfter(r) = [record EXCEPT ![r.id] = row]
      BY <1>7, <2>2 DEF RecordAfter
    <2>4. /\ row \in DecisionRow /\ row.path = r.path /\ row.content = document[r.path]
          /\ row.lifecycle = "superseded" /\ row.by = r.target
      BY <1>1, <1>4, <2>2 DEF SupersededRow, DecisionRow
    <2>5. /\ SupersededForm(r.content, r.id, r.target).id = r.id
          /\ SupersededForm(r.content, r.id, r.target).lifecycle = "superseded"
          /\ SupersededForm(r.content, r.id, r.target).by = r.target
      BY <1>1 DEF SupersededForm, Document
    <2>6. /\ document[r.path].id = r.id /\ document[r.path].lifecycle = "superseded"
          /\ document[r.path].by = r.target
      BY <1>7, <2>5 DEF After, HasForm, Alike
    <2>7. QED
      BY <1>2, <1>3, <1>7, <2>1, <2>3, <2>4, <2>6 DEF Governed
  <1>8. QED
    BY <1>1, <1>5, <1>6, <1>7

LEMMA RowsRecorded ==
    ASSUME DecisionInv, NEW r \in Request, Asked(r), After(r), CanRecord(r),
           record' = RecordAfter(r), UNCHANGED document,
           \A q \in Paths : Rewritten(q) => q = r.path /\ r.kind \notin PointerKinds
    PROVE  /\ record' \in [Ids -> DecisionRow \cup {NoRow}]
           /\ RowsSound' /\ FilesSound'
  <1>1. record \in [Ids -> DecisionRow \cup {NoRow}]
    BY DEF DecisionInv, DecisionTypeOK
  <1>2. ASSUME NEW q \in Paths, ~Rewritten(q)
        PROVE  /\ \A i \in Ids : Known(i) /\ record[i].path = q =>
                        HasForm(q, record[i].content)
               /\ Exists(q) /\ ~Governed(q) => Alike(document[q], Plain(document[q].text))
    BY <1>2 DEF DecisionInv, FilesSound
  <1>3. CASE r.kind \in PointerKinds
    <2>1. record' = record
      BY <1>3 DEF RecordAfter, PointerKinds
    <2>2. \A q \in Paths : ~Rewritten(q)
      BY <1>3
    <2>3. RowsSound'
      BY <2>1 DEF DecisionInv, RowsSound, Known
    <2>4. ASSUME NEW q \in Paths
          PROVE  /\ \A i \in Ids : Known(i)' /\ record'[i].path = q =>
                        HasForm(q, record[i].content)'
                 /\ Exists(q)' /\ ~Governed(q)' =>
                        Alike(document[q], Plain(document[q].text))'
      BY <1>2, <2>1, <2>2 DEF Known, Governed, HasForm, Exists, Alike, Plain
    <2>5. FilesSound'
      BY <2>4 DEF FilesSound
    <2>6. QED
      BY <1>1, <2>1, <2>3, <2>5
  <1>4. CASE r.kind \notin PointerKinds
    <2>1. /\ r.id \in Ids
          /\ Known(r.id) => record[r.id].path = r.path
          /\ \A j \in Ids : Known(j) /\ record[j].path = r.path => j = r.id
      BY <1>4, RowWritten
    <2>2. PICK row \in DecisionRow :
                /\ RecordAfter(r) = [record EXCEPT ![r.id] = row]
                /\ row.path = r.path /\ row.content = document[r.path]
                /\ row.content.id = r.id /\ row.content.lifecycle = row.lifecycle
                /\ row.content.by = row.by
                /\ row.lifecycle # "superseded" => row.by = NoId
                /\ row.lifecycle = "draft" => row.body = row.content.text
      BY <1>4, RowWritten
    <2>3. /\ record' \in [Ids -> DecisionRow \cup {NoRow}] /\ record'[r.id] = row
          /\ \A i \in Ids : i # r.id => record'[i] = record[i]
          /\ row # NoRow
      BY <1>1, <2>1, <2>2, NoRowDecisionAssumption
    <2>4. RowsSound'
      <3>1. \A i \in Ids : Known(i)' =>
                /\ record'[i].content.id = i
                /\ record'[i].content.lifecycle = record'[i].lifecycle
                /\ record'[i].content.by = record'[i].by
                /\ record'[i].lifecycle # "superseded" => record'[i].by = NoId
                /\ record'[i].lifecycle = "draft" => record'[i].body = record'[i].content.text
        BY <2>2, <2>3 DEF DecisionInv, RowsSound, Known
      <3>2. \A i, j \in Ids : Known(i)' /\ Known(j)' /\ record'[i].path = record'[j].path => i = j
        BY <2>1, <2>2, <2>3 DEF DecisionInv, RowsSound, Known
      <3>3. QED
        BY <3>1, <3>2 DEF RowsSound
    <2>5. ASSUME NEW q \in Paths
          PROVE  /\ \A i \in Ids : Known(i)' /\ record'[i].path = q =>
                        HasForm(q, record[i].content)'
                 /\ Exists(q)' /\ ~Governed(q)' =>
                        Alike(document[q], Plain(document[q].text))'
      <3>1. CASE q = r.path
        <4>1. Governed(q)'
          BY <2>1, <2>2, <2>3, <3>1 DEF Governed, Known
        <4>2. \A i \in Ids : Known(i)' /\ record'[i].path = q => i = r.id
          BY <2>1, <2>2, <2>3, <3>1 DEF Known
        <4>3. record'[r.id].content = document[q] /\ document[q] # NoDocument
          BY <2>2, <2>3, <3>1, NoRowDecisionAssumption DEF DecisionRow
        <4>4. HasForm(q, record[r.id].content)'
          BY <4>3 DEF HasForm, Exists, Alike
        <4>5. QED
          BY <4>1, <4>2, <4>4
      <3>2. CASE q # r.path
        <4>1. \A i \in Ids : /\ (Known(i)' /\ record'[i].path = q)
                                    <=> (Known(i) /\ record[i].path = q)
                             /\ Known(i) /\ record[i].path = q => record'[i] = record[i]
          BY <2>1, <2>2, <2>3, <3>2 DEF Known
        <4>2. Governed(q)' <=> Governed(q)
          BY <4>1 DEF Governed
        <4>3. /\ \A i \in Ids : Known(i) /\ record[i].path = q =>
                        HasForm(q, record[i].content)
              /\ Exists(q) /\ ~Governed(q) => Alike(document[q], Plain(document[q].text))
          BY <1>2, <3>2
        <4>4. \A i \in Ids : Known(i)' /\ record'[i].path = q => HasForm(q, record[i].content)'
          BY <4>1, <4>3 DEF HasForm, Exists, Alike
        <4>5. Exists(q)' /\ ~Governed(q)' => Alike(document[q], Plain(document[q].text))'
          BY <4>2, <4>3 DEF Exists, Alike, Plain
        <4>6. QED
          BY <4>4, <4>5
      <3>3. QED
        BY <3>1, <3>2
    <2>6. FilesSound'
      BY <2>5 DEF FilesSound
    <2>7. QED
      BY <2>3, <2>4, <2>6
  <1>5. QED
    BY <1>3, <1>4

LEMMA PointersTyped ==
    ASSUME DecisionInv, NEW r \in Request, pointers' = PointersAfter(r)
    PROVE  pointers' \subseteq Pointer
  <1>1. /\ r.path \in Paths /\ r.target \in Ids \cup {NoId} /\ r.content.text \in Texts
    BY RequestFields DEF Document
  <1>2. pointers \subseteq Pointer
    BY DEF DecisionInv, DecisionTypeOK
  <1>3. \A k \in PointerKinds :
            [path |-> r.path, relation |-> k, target |-> r.target, text |-> r.content.text]
                \in Pointer
    BY <1>1 DEF Pointer
  <1>4. CASE r.kind \in PointerKinds
    <2>1. PICK new \in Pointer :
            new = [path |-> r.path, relation |-> r.kind, target |-> r.target,
                   text |-> r.content.text]
      BY <1>3, <1>4
    <2>2. r.kind # "supersede"
      BY <1>4 DEF PointerKinds
    <2>3. pointers' = pointers \cup {new}
      BY <1>4, <2>1, <2>2 DEF PointersAfter
    <2>4. QED
      BY <1>2, <2>1, <2>3
  <1>5. CASE r.kind = "supersede"
    <2>1. "forward" \in PointerKinds /\ r.kind \notin PointerKinds
      BY <1>5 DEF PointerKinds
    <2>2. ForwardPointers(r) \subseteq Pointer
      BY <1>3, <2>1 DEF ForwardPointers
    <2>3. QED
      BY <1>2, <1>5, <2>1, <2>2 DEF PointersAfter
  <1>6. CASE r.kind \in {"create", "accept"}
    BY <1>2, <1>6 DEF PointersAfter, PointerKinds
  <1>7. QED
    BY <1>4, <1>5, <1>6, RequestFields DEF PointerKinds

\* What the last commit of a decision finds and leaves.
LEMMA FinishFacts ==
    ASSUME DecisionInv, NEW p \in Callers, DecisionFinish(p), NEW c, c = saga[p]
    PROVE  /\ c # NoSaga /\ c \in DecisionSaga /\ c.op \in Ops /\ c.request \in Request
           /\ UnfinishedDecision(c.op) /\ decision[c.op].request = c.request
           /\ Asked(c.request) /\ After(c.request) /\ CanRecord(c.request)
           /\ record' = RecordAfter(c.request)
  <1>1. /\ c.pc = "marked" /\ CanRecord(c.request) /\ CanComplete(c)
        /\ record' = RecordAfter(c.request)
    BY DEF DecisionFinish
  <1>2. /\ c # NoSaga /\ c \in DecisionSaga /\ c.op \in Ops /\ c.request \in Request
    BY <1>1, SagaKinds DEF DecisionInv, DecisionPcs
  <1>3. PICK r \in Request : r = c.request
    BY <1>2
  <1>4. UnfinishedDecision(c.op) /\ decision[c.op].request = r
    BY <1>1, <1>2, <1>3, SagaFitsNow DEF SagaFits
  <1>5. decision[c.op].state = "filesystem_applied"
    BY <1>1 DEF CanComplete
  <1>6. Asked(r) /\ (After(r) \/ DeadEnd(r))
    BY <1>2, <1>4, <1>5 DEF DecisionInv, DecisionsSound
  <1>7. ~DeadEnd(r)
    BY <1>1, <1>3 DEF DeadEnd, CanRecord
  <1>8. QED
    BY <1>1, <1>2, <1>3, <1>4, <1>6, <1>7

LEMMA DecisionFinishes ==
    ASSUME DecisionInv, NEW p \in Callers, DecisionFinish(p)
    PROVE  DecisionInv'
  <1>1. PICK c : c = saga[p]
    OBVIOUS
  <1>2. /\ c # NoSaga /\ c \in DecisionSaga /\ c.op \in Ops /\ c.request \in Request
        /\ UnfinishedDecision(c.op) /\ decision[c.op].request = c.request
        /\ Asked(c.request) /\ After(c.request) /\ CanRecord(c.request)
        /\ record' = RecordAfter(c.request)
    BY <1>1, FinishFacts
  <1>3. PICK r \in Request : r = c.request
    BY <1>2
  <1>4. PICK s : s = ProjectOf[r.path]
    OBVIOUS
  <1>5. /\ pointers' = PointersAfter(r)
        /\ transition' = [transition EXCEPT ![s] = NoOp]
        /\ decision' = [decision EXCEPT ![c.op].state = "completed"]
        /\ active' = [active EXCEPT ![c.op] = NoRow]
        /\ epoch' = epoch + 1 /\ leaseOp' = NoOp /\ leaseOwner' = NoActor /\ leaseExpires' = 0
        /\ lock' = Free /\ saga' = [saga EXCEPT ![p] = NoSaga]
        /\ UNCHANGED <<ready, generation, journal, now, call, lifecycle, writer, selector,
                       digest, approval, operation, yaml, files, writing, faults, document>>
    BY <1>1, <1>3, <1>4 DEF DecisionFinish, LiftFence, archiveVars
  <1>6. s \in Projects /\ r.path \in Paths
    BY <1>4, RequestFields
  <1>7. /\ decision' \in [Ops -> DecisionOperation \cup {NoRow}]
        /\ \A q \in Ops : q # c.op => decision'[q] = decision[q]
        /\ decision'[c.op].state = "completed"
    BY <1>2, <1>5, DecisionRewritten DEF DecisionInv, UnfinishedDecision
  <1>8. /\ ~Unfinished(c.op)
        /\ \A q \in Ops \ {c.op} : ~Unfinished(q) /\ ~UnfinishedDecision(q)
    BY <1>2, NotBoth DEF Pending
  <1>9. \A q \in Ops : ~Unfinished(q)' /\ ~UnfinishedDecision(q)'
    BY <1>5, <1>7, <1>8 DEF Unfinished, UnfinishedDecision
  <1>10. OneOperation'
    BY <1>2, <1>5, <1>9, WorkDone DEF Pending
  <1>11. /\ transition' \in [Projects -> Ops \cup {NoOp}]
         /\ \A z \in Projects : transition'[z] = NoOp
         /\ FenceMatchesEitherOperation'
    BY <1>2, <1>3, <1>4, <1>5, <1>6, <1>9, FencesGone
  <1>12. ArchivedNotFenced'
    BY <1>11 DEF ArchivedNotFenced
  <1>13. ApprovalsKept'
    BY <1>5 DEF DecisionInv, ApprovalsKept
  <1>14. /\ saga' \in [Callers -> Saga \cup DecisionSaga \cup {NoSaga}]
         /\ LocksHeld' /\ SagasSound'
    BY <1>1, <1>2, <1>5, SagaMoves
  <1>15. /\ record' \in [Ids -> DecisionRow \cup {NoRow}] /\ RowsSound' /\ FilesSound'
    <2>1. \A q \in Paths : Rewritten(q) => q = r.path /\ r.kind \notin PointerKinds
      BY <1>2, <1>3, <1>8 DEF Rewritten
    <2>2. QED
      BY <1>2, <1>3, <1>5, <2>1, RowsRecorded
  <1>16. pointers' \subseteq Pointer
    BY <1>5, PointersTyped
  <1>17. DecisionsSound'
    BY <1>9 DEF DecisionsSound
  <1>18. TypeOK'
    <2>1. TypeOK
      BY DEF DecisionInv, DecisionTypeOK
    <2>2. active' \in [Ops -> Row \cup {NoRow}]
      BY <1>5, <2>1 DEF TypeOK
    <2>3. /\ leaseOp' \in Ops \cup {NoOp} /\ leaseOwner' \in Actors \cup {NoActor}
          /\ leaseExpires' \in Nat /\ epoch' \in Nat
      BY <1>5, <2>1 DEF TypeOK
    <2>4. QED
      BY <1>5, <2>1, <2>2, <2>3 DEF TypeOK
  <1>19. DecisionTypeOK' /\ LifecycleTyped'
    <2>1. DecisionTypeOK'
      BY <1>5, <1>7, <1>14, <1>15, <1>16, <1>18 DEF DecisionInv, DecisionTypeOK
    <2>2. LifecycleTyped'
      BY <1>5, <1>11 DEF DecisionInv, LifecycleTyped
    <2>3. QED
      BY <2>1, <2>2
  <1>20. QED
    BY <1>10, <1>11, <1>12, <1>13, <1>14, <1>15, <1>17, <1>19 DEF DecisionInv

-----------------------------------------------------------------------------
(* The invariant, and what it says for any number of processes.            *)

LEMMA DecisionStepKeeps ==
    ASSUME DecisionInv, NEW p \in Callers, DecisionStart(p) \/ DecisionStep(p)
    PROVE  DecisionInv'
  <1>1. CASE DecisionStart(p)
    <2>1. CASE \E o \in Ops, act \in Actors, x \in 1 .. MaxTime + 1 :
                    DecisionResume(p, o, act, x)
      BY <2>1, DecisionResumes
    <2>2. ASSUME NEW k \in {"create", "accept", "supersede"} \cup PointerKinds,
                 NEW i \in Ids \cup {NoId}, NEW j \in Ids \cup {NoId}, NEW q \in Paths,
                 Names(k, i, q, j),
                 \E t \in BodiesFor(q), o \in Ops, act \in Actors, x \in 1 .. MaxTime + 1 :
                    DecisionRead(p, o, act, x, RequestFor(k, i, q, j, t))
          PROVE  DecisionInv'
      BY <2>2, DecisionReads
    <2>3. QED
      BY <1>1, <2>1, <2>2 DEF DecisionStart
  <1>2. CASE DecisionRefuse(p)
    <2>1. /\ saga[p] # NoSaga /\ EndSaga(p) /\ UNCHANGED decisionVars /\ faults' \in Nat
      BY <1>2 DEF DecisionRefuse, DecisionInv, LifecycleTyped
    <2>2. QED
      BY <2>1, SagaEnds
  <1>3. CASE DecisionStep(p)
    BY <1>2, <1>3, DecisionPrepares, DecisionRenews, DecisionApplies, DecisionMarks,
       DecisionFinishes
       DEF DecisionStep
  <1>4. QED
    BY <1>1, <1>3

LEMMA DecisionInvNext == DecisionInv /\ [DecisionNext]_systemVars => DecisionInv'
  <1> SUFFICES ASSUME DecisionInv, [DecisionNext]_systemVars
               PROVE  DecisionInv'
    OBVIOUS
  <1>1. CASE UNCHANGED systemVars
    <2>1. UNCHANGED <<vars, lifecycle, writer, selector, transition, digest, approval,
                      operation, yaml, files, lock, writing, saga, faults, document, record,
                      decision, pointers>>
      BY <1>1 DEF systemVars, allVars, lifecycleVars, stateVars, archiveVars, decisionVars
    <2>2. LifecycleTyped' /\ LocksHeld'
      BY <2>1 DEF DecisionInv, LifecycleTyped, LocksHeld, Writable
    <2>3. document' \in [Paths -> Document \cup {NoDocument}] /\ FormsKept
      BY <2>1, SameForms DEF DecisionInv, DecisionTypeOK
    <2>4. QED
      BY <2>1, <2>2, <2>3, RestKept
  <1>2. CASE DecisionNext
    BY <1>2, LifecycleDecisionStep, DecisionStepKeeps, EditsAndApprovals DEF DecisionNext
  <1>3. QED
    BY <1>1, <1>2

LEMMA DecisionInvAlways == DecisionSpec => []DecisionInv
  BY DecisionInvInit, DecisionInvNext, PTL DEF DecisionSpec

\* Whatever operations, archives, writers and edits of files do beside each
\* other, every variable keeps its type.
THEOREM DecisionTypeCorrect == DecisionSpec => []DecisionTypeOK
  <1>1. DecisionInv => DecisionTypeOK
    BY DEF DecisionInv
  <1>2. QED
    BY <1>1, DecisionInvAlways, PTL

\* Archives and decisions share the fence of a project without ever taking each
\* other's.
THEOREM FencesMatchEither == DecisionSpec => []FenceMatchesEitherOperation
  <1>1. DecisionInv => FenceMatchesEitherOperation
    BY DEF DecisionInv
  <1>2. QED
    BY <1>1, DecisionInvAlways, PTL

\* What the file of a decision says of itself is what its row says, unless an
\* unfinished operation is at work on it.
THEOREM FrontmatterAlwaysMatches == DecisionSpec => []FrontmatterMatchesRecord
  <1>1. ASSUME DecisionInv PROVE FrontmatterMatchesRecord
    <2>1. ASSUME NEW i \in Ids, Known(i),
                 ~ \E o \in Ops : UnfinishedDecision(o) /\ decision[o].request.path = record[i].path
          PROVE  /\ record[i].content.id = i
                 /\ record[i].content.lifecycle = record[i].lifecycle
                 /\ record[i].content.by = record[i].by
                 /\ document[record[i].path] =
                        [record[i].content EXCEPT !.text = document[record[i].path].text]
      <3>1. PICK q \in Paths : q = record[i].path
        BY <1>1, <2>1, RecordFields DEF DecisionInv
      <3>2. HasForm(q, record[i].content)
        BY <1>1, <2>1, <3>1 DEF DecisionInv, FilesSound, Rewritten
      <3>3. document[q] \in Document /\ record[i].content \in Document
        BY <1>1, <2>1, <3>1, <3>2, RecordFields DEF DecisionInv, DecisionTypeOK, HasForm, Exists
      <3>4. document[q] = [record[i].content EXCEPT !.text = document[q].text]
        <4>1. \A x, y \in Document : Alike(x, y) => x = [y EXCEPT !.text = x.text]
          BY DEF Document, Alike
        <4>2. Alike(document[q], record[i].content)
          BY <3>2 DEF HasForm
        <4>3. QED
          BY <3>3, <4>1, <4>2
      <3>5. QED
        BY <1>1, <2>1, <3>1, <3>4 DEF DecisionInv, RowsSound
    <2>2. QED
      BY <2>1 DEF FrontmatterMatchesRecord
  <1>2. QED
    BY <1>1, DecisionInvAlways, PTL

-----------------------------------------------------------------------------
(* Supersessions.                                                          *)

LEMMA RecordsMove ==
    [DecisionNext]_systemVars =>
        record' = record \/ \E p \in Callers : DecisionFinish(p)
  <1> SUFFICES ASSUME [DecisionNext]_systemVars
               PROVE  record' = record \/ \E p \in Callers : DecisionFinish(p)
    OBVIOUS
  <1>1. CASE UNCHANGED systemVars
    BY <1>1 DEF systemVars, decisionVars
  <1>2. CASE LifecycleNext /\ UNCHANGED decisionVars
    BY <1>2 DEF decisionVars
  <1>3. ASSUME NEW p \in Callers, DecisionStart(p)
        PROVE  record' = record
    BY <1>3 DEF DecisionStart, DecisionRead, DecisionResume, decisionVars
  <1>4. ASSUME NEW p \in Callers, DecisionStep(p)
        PROVE  record' = record \/ DecisionFinish(p)
    BY <1>4 DEF DecisionStep, DecisionPrepare, DecisionRenew, DecisionApply, DecisionMark,
       DecisionRefuse, decisionVars
  <1>5. ASSUME NEW q \in Paths, NEW t \in Texts, DocumentEdit(q, t)
        PROVE  record' = record
    BY <1>5 DEF DocumentEdit
  <1>6. QED
    BY <1>1, <1>2, <1>3, <1>4, <1>5 DEF DecisionNext

\* The row that supersedes another one is accepted when it does, and so is not
\* superseded itself: it ends every chain that leads to it.
LEMMA SupersessionRecorded ==
    ASSUME DecisionInv, SupersessionEnds, NEW p \in Callers, DecisionFinish(p)
    PROVE  SupersessionEnds'
  <1>1. PICK c : c = saga[p]
    OBVIOUS
  <1>2. /\ c \in DecisionSaga /\ c.request \in Request
        /\ Asked(c.request) /\ After(c.request) /\ CanRecord(c.request)
        /\ record' = RecordAfter(c.request)
    BY <1>1, FinishFacts
  <1>3. PICK r \in Request : r = c.request
    BY <1>2
  <1>4. record \in [Ids -> DecisionRow \cup {NoRow}]
    BY DEF DecisionInv, DecisionTypeOK
  <1>5. CASE r.kind \in PointerKinds
    <2>1. record' = record
      BY <1>2, <1>3, <1>5 DEF RecordAfter, PointerKinds
    <2>2. QED
      BY <2>1 DEF SupersessionEnds, Known
  <1>6. CASE r.kind \notin PointerKinds
    <2>0. Asked(r) /\ After(r) /\ CanRecord(r)
      BY <1>2, <1>3
    <2>1. r.id \in Ids
      BY <1>6, <2>0, RowWritten
    <2>2. PICK row \in DecisionRow :
                /\ RecordAfter(r) = [record EXCEPT ![r.id] = row]
                /\ row.lifecycle # "superseded" => row.by = NoId
                /\ row.lifecycle = "superseded" => r.kind = "supersede"
                /\ row.by # NoId => row.by = r.target
      BY <1>6, <2>0, RowWritten
    <2>3. /\ record'[r.id] = row
          /\ \A i \in Ids : i # r.id => record'[i] = record[i]
      BY <1>2, <1>3, <1>4, <2>1, <2>2
    <2>4. ASSUME NEW S \in (SUBSET Ids) \ {{}}
          PROVE  \E i \in S : Known(i)' => record'[i].by \notin S \ {i}
      <3>1. PICK i \in S : Known(i) => record[i].by \notin S \ {i}
        BY DEF SupersessionEnds
      <3>2. i \in Ids
        OBVIOUS
      <3>3. CASE i # r.id
        BY <2>3, <3>1, <3>2, <3>3 DEF Known
      <3>4. CASE i = r.id /\ row.by \notin S \ {i}
        BY <2>3, <3>2, <3>4 DEF Known
      <3>5. CASE i = r.id /\ row.by \in S \ {i}
        <4>1. row.by \in Ids /\ row.by # NoId /\ row.by # r.id
          BY <3>5, IdAssumption
        <4>2. row.by = r.target /\ r.kind = "supersede"
          BY <2>2, <4>1
        <4>3. Known(r.target) /\ record[r.target].lifecycle = "accepted"
          BY <1>2, <1>3, <4>2 DEF Asked, TargetAccepted
        <4>4. record[r.target].by = NoId
          BY <4>1, <4>2, <4>3 DEF DecisionInv, RowsSound
        <4>5. r.target \in S /\ record'[r.target] = record[r.target]
          BY <2>3, <3>5, <4>1, <4>2
        <4>6. record'[r.target].by \notin S \ {r.target}
          BY <4>4, <4>5, IdAssumption
        <4>7. QED
          BY <4>5, <4>6
      <3>6. QED
        BY <3>3, <3>4, <3>5
    <2>5. QED
      BY <2>4 DEF SupersessionEnds
  <1>7. QED
    BY <1>5, <1>6

LEMMA SupersessionEndsInit == DecisionInit => SupersessionEnds
  <1> SUFFICES ASSUME DecisionInit, NEW S \in (SUBSET Ids) \ {{}}
               PROVE  \E i \in S : Known(i) => record[i].by \notin S \ {i}
    BY DEF SupersessionEnds
  <1>1. PICK i \in S : TRUE
    OBVIOUS
  <1>2. i \in Ids
    BY <1>1
  <1>3. Known(i) => record[i].by = NoId
    BY <1>2 DEF DecisionInit, Known
  <1>4. QED
    BY <1>1, <1>3, IdAssumption

\* Following superseded_by from decision to decision comes to an end, at the
\* latest at one that superseded itself, whatever order supersessions are asked
\* for, interrupted and resumed in.
THEOREM SupersessionsEnd == DecisionSpec => []SupersessionEnds
  <1>1. ASSUME DecisionInv, SupersessionEnds, [DecisionNext]_systemVars
        PROVE  SupersessionEnds'
    <2>1. CASE record' = record
      BY <1>1, <2>1 DEF SupersessionEnds, Known
    <2>2. CASE \E p \in Callers : DecisionFinish(p)
      BY <1>1, <2>2, SupersessionRecorded
    <2>3. QED
      BY <1>1, <2>1, <2>2, RecordsMove
  <1>2. QED
    BY <1>1, SupersessionEndsInit, DecisionInvAlways, PTL DEF DecisionSpec

-----------------------------------------------------------------------------
(* One process: the lease, the registry and what is in work belong         *)
(* together.                                                               *)

LEMMA DecisionsRegistered == DecisionInv => ArchivesRegistered
  BY DEF DecisionInv, OneOperation, ArchivesRegistered

\* Decisions keep the lease and the registry when they read, write their file,
\* mark it and give up.
LEMMA SagasServeOne ==
    ASSUME OneProcess, OneInv, DecisionInv', UNCHANGED vars, OneAtATime'
    PROVE  OneInv'
  <1>1. UNCHANGED <<ready, epoch, generation, leaseOp, leaseOwner, active, journal, call>>
    BY DEF vars, cloudVars, controlVars
  <1>2. LeaseFollowsRegistry'
    BY <1>1 DEF OneInv, LeaseFollowsRegistry, IsActive, JournalActive
  <1>3. AcquiresCurrent'
    BY <1>1 DEF OneInv, AcquiresCurrent, NoOtherActive, IsActive
  <1>4. ArchivesRegistered'
    BY DecisionsRegistered DEF DecisionInv, OneOperation, ArchivesRegistered
  <1>5. QED
    BY <1>2, <1>3, <1>4 DEF OneInv

\* A first commit or a renewal.
LEMMA OneHolds ==
    ASSUME OneProcess, DecisionInv, DecisionInv', OneInv, NEW p \in Callers, saga[p] # NoSaga,
           NEW o \in Ops, NEW row, row # NoRow, active' = [active EXCEPT ![o] = row],
           generation' = row.generation, leaseOp' = o, leaseOwner' = row.actor,
           row.base = epoch, ready, NoOtherActive(o), ~JournalActive(o),
           UNCHANGED <<ready, epoch, journal, call>>
    PROVE  OneInv'
  <1>1. active'[o] = row /\ \A other \in Ops : other # o => active'[other] = active[other]
    BY DEF DecisionInv, DecisionTypeOK, TypeOK
  <1>2. \A other \in Ops : other # o => ~IsActive(other) /\ ~JournalActive(other)
    BY DEF NoOtherActive, OneInv, LeaseFollowsRegistry
  <1>3. LeaseFollowsRegistry'
    BY <1>1, <1>2 DEF LeaseFollowsRegistry, IsActive, JournalActive
  <1>4. \A q \in Callers : call'[q] = Idle
    BY NoCalls
  <1>5. AcquiresCurrent' /\ OneAtATime'
    BY <1>4 DEF AcquiresCurrent, OneAtATime, Idle
  <1>6. ArchivesRegistered'
    BY DEF DecisionInv, OneOperation, ArchivesRegistered
  <1>7. QED
    BY <1>3, <1>5, <1>6 DEF OneInv

\* A last commit.
LEMMA OneReleases ==
    ASSUME OneProcess, DecisionInv, DecisionInv', OneInv, NEW p \in Callers, saga[p] # NoSaga,
           NEW o \in Ops, Pending(o), active' = [active EXCEPT ![o] = NoRow], leaseOp' = NoOp,
           NoOtherActive(o), UNCHANGED <<journal, call>>
    PROVE  OneInv'
  <1>1. /\ active'[o] = NoRow
        /\ \A other \in Ops : other # o => active'[other] = active[other]
    BY DEF DecisionInv, DecisionTypeOK, TypeOK
  <1>2. \A other \in Ops : other # o => ~IsActive(other) /\ ~JournalActive(other)
    BY DEF NoOtherActive, OneInv, LeaseFollowsRegistry
  <1>3. ~JournalActive(o)
    BY NotBoth
  <1>4. LeaseFollowsRegistry'
    BY <1>1, <1>2, <1>3, NullAssumption DEF LeaseFollowsRegistry, IsActive, JournalActive
  <1>5. \A q \in Callers : call'[q] = Idle
    BY NoCalls
  <1>6. AcquiresCurrent' /\ OneAtATime'
    BY <1>5 DEF AcquiresCurrent, OneAtATime, Idle
  <1>7. ArchivesRegistered'
    BY DEF DecisionInv, OneOperation, ArchivesRegistered
  <1>8. QED
    BY <1>4, <1>6, <1>7 DEF OneInv

\* Nothing else is active in an operation's way when the registry is empty or
\* holds the operation itself.
LEMMA LeaseFree ==
    ASSUME OneInv, NEW o \in Ops, NothingActive \/ IsActive(o)
    PROVE  NoOtherActive(o)
  BY DEF NothingActive, OneInv, LeaseFollowsRegistry, NoOtherActive

LEMMA OneArchiveCommits ==
    ASSUME OneProcess, DecisionInv, DecisionInv', OneInv, NEW p \in Callers,
           ArchivePrepare(p) \/ ArchiveRenew(p) \/ ArchiveFinish(p)
    PROVE  OneInv'
  <1>1. PICK c : c = saga[p]
    OBVIOUS
  <1>2. c.pc \in {"reserving", "resuming", "checkpointed"}
    BY <1>1 DEF ArchivePrepare, ArchiveRenew, ArchiveFinish
  <1>3. /\ c # NoSaga /\ c \in Saga /\ c.op \in Ops /\ c.approval \in Approvals
        /\ c.actor \in Actors /\ c.generation \in Nat
    BY <1>1, <1>2, SagaKinds DEF DecisionInv, ArchivePcs
  <1>4. /\ c.pc = "reserving" => approval[c.approval] # NoRow
        /\ c.pc # "reserving" =>
            Unfinished(c.op) /\ operation[c.op].approval = c.approval
    BY <1>1, <1>2, <1>3, SagaFitsNow DEF SagaFits
  <1>5. approval[c.approval] # NoRow
    BY <1>3, <1>4 DEF DecisionInv, ApprovalsKept, Unfinished
  <1>6. approval[c.approval].epoch \in Nat
    BY <1>3, <1>5, ApprovalFields DEF DecisionInv
  <1>7. CASE ArchiveFinish(p)
    <2>1. /\ c.pc = "checkpointed" /\ NoOtherActive(c.op) /\ leaseOp' = NoOp
          /\ active' = [active EXCEPT ![c.op] = NoRow] /\ UNCHANGED <<journal, call>>
      BY <1>1, <1>7 DEF ArchiveFinish, CanFinish
    <2>2. QED
      BY <1>1, <1>3, <1>4, <2>1, OneReleases DEF Pending
  <1>8. CASE ArchivePrepare(p) \/ ArchiveRenew(p)
    <2>1. PICK row : row = ArchiveRow(c)
      OBVIOUS
    <2>2. /\ row # NoRow /\ row.base = approval[c.approval].epoch
          /\ row.generation = c.generation /\ row.actor = c.actor
      <3>1. row \in Row
        BY <1>3, <1>6, <2>1, KindAssumption DEF ArchiveRow, Row
      <3>2. QED
        BY <2>1, <3>1, NoRowAssumption DEF ArchiveRow
    <2>3. /\ active' = [active EXCEPT ![c.op] = row] /\ generation' = c.generation
          /\ leaseOp' = c.op /\ leaseOwner' = c.actor
          /\ UNCHANGED <<ready, epoch, journal, call>>
          /\ epoch = approval[c.approval].epoch
      BY <1>1, <1>8, <2>1
         DEF ArchivePrepare, ArchiveRenew, TakeLease, CanPrepare, CanRenew, PrepareControlCas
    <2>4. ready /\ NoOtherActive(c.op) /\ ~JournalActive(c.op)
      <3>1. CASE ArchivePrepare(p)
        <4>1. ready /\ NothingActive
          BY <1>1, <3>1 DEF ArchivePrepare, CanPrepare, PrepareControlCas
        <4>2. QED
          BY <1>3, <4>1, LeaseFree, NothingPending
      <3>2. CASE ArchiveRenew(p)
        <4>1. c.pc = "resuming" /\ IsActive(c.op)
          BY <1>1, <3>2 DEF ArchiveRenew, CanRenew
        <4>2. ready
          BY <1>3, <4>1 DEF OneInv, LeaseFollowsRegistry
        <4>3. QED
          BY <1>3, <1>4, <4>1, <4>2, LeaseFree, NotBoth DEF Pending
      <3>3. QED
        BY <1>8, <3>1, <3>2
    <2>5. QED
      BY <1>1, <1>3, <2>2, <2>3, <2>4, OneHolds
  <1>9. QED
    BY <1>7, <1>8

LEMMA OneDecisionCommits ==
    ASSUME OneProcess, DecisionInv, DecisionInv', OneInv, NEW p \in Callers,
           DecisionPrepare(p) \/ DecisionRenew(p) \/ DecisionFinish(p)
    PROVE  OneInv'
  <1>1. PICK c : c = saga[p]
    OBVIOUS
  <1>2. c.pc \in {"starting", "restarting", "marked"}
    BY <1>1 DEF DecisionPrepare, DecisionRenew, DecisionFinish
  <1>3. /\ c # NoSaga /\ c \in DecisionSaga /\ c.op \in Ops
    BY <1>1, <1>2, SagaKinds DEF DecisionInv, DecisionPcs
  <1>4. c.pc # "starting" => UnfinishedDecision(c.op)
    BY <1>1, <1>2, <1>3, SagaFitsNow DEF SagaFits
  <1>5. CASE DecisionFinish(p)
    <2>1. /\ c.pc = "marked" /\ NoOtherActive(c.op) /\ leaseOp' = NoOp
          /\ active' = [active EXCEPT ![c.op] = NoRow] /\ UNCHANGED <<journal, call>>
      BY <1>1, <1>5 DEF DecisionFinish, CanComplete
    <2>2. QED
      BY <1>1, <1>3, <1>4, <2>1, OneReleases DEF Pending
  <1>6. CASE DecisionPrepare(p) \/ DecisionRenew(p)
    <2>1. PICK row : row = DecisionLeaseRow(c)
      OBVIOUS
    <2>2. /\ HoldLease(c) /\ epoch = c.base
      BY <1>1, <1>6 DEF DecisionPrepare, DecisionRenew, CanStart, CanRestart
    <2>3. /\ row # NoRow /\ row.base = c.base /\ row.generation = c.generation
          /\ row.actor = c.actor
      BY <1>3, <2>1, <2>2, HoldLeaseTyped
         DEF DecisionLeaseRow, DecisionInv, DecisionTypeOK
    <2>4. /\ active' = [active EXCEPT ![c.op] = row] /\ generation' = c.generation
          /\ leaseOp' = c.op /\ leaseOwner' = c.actor
          /\ UNCHANGED <<ready, epoch, journal, call>>
      BY <2>1, <2>2 DEF HoldLease
    <2>5. ready /\ NoOtherActive(c.op) /\ ~JournalActive(c.op)
      <3>1. CASE DecisionPrepare(p)
        <4>1. ready /\ NothingActive
          BY <1>1, <3>1 DEF DecisionPrepare, CanStart, ControlFree
        <4>2. QED
          BY <1>3, <4>1, LeaseFree, NothingPending
      <3>2. CASE DecisionRenew(p)
        <4>1. c.pc = "restarting" /\ IsActive(c.op)
          BY <1>1, <3>2 DEF DecisionRenew, CanRestart
        <4>2. ready
          BY <1>3, <4>1 DEF OneInv, LeaseFollowsRegistry
        <4>3. QED
          BY <1>3, <1>4, <4>1, <4>2, LeaseFree, NotBoth DEF Pending
      <3>3. QED
        BY <1>6, <3>1, <3>2
    <2>6. QED
      BY <1>1, <1>3, <2>2, <2>3, <2>4, <2>5, OneHolds
  <1>7. QED
    BY <1>5, <1>6

LEMMA OneDecisionNext ==
    ASSUME OneProcess
    PROVE  DecisionInv /\ DecisionInv' /\ OneInv /\ [DecisionNext]_systemVars => OneInv'
  <1> SUFFICES ASSUME DecisionInv, DecisionInv', OneInv, [DecisionNext]_systemVars
               PROVE  OneInv'
    OBVIOUS
  <1>1. TypeOK /\ saga = [q \in Callers |-> saga[q]]
    BY DEF DecisionInv, DecisionTypeOK
  <1>2. ASSUME NEW p \in Callers, call'[p] = Idle \/ saga'[p] = NoSaga PROVE OneAtATime'
    BY <1>2 DEF OneAtATime, OneProcess
  <1>3. CASE UNCHANGED systemVars
    BY <1>1, <1>3, OthersServeOne, SagasServeOne DEF systemVars
  <1>4. CASE LifecycleNext /\ UNCHANGED decisionVars
    <2>1. CASE (Tick /\ UNCHANGED lifecycleVars) \/ \E p \in Callers : CloudStep(p)
      BY <1>1, <2>1, OneCloud
    <2>2. ASSUME NEW p \in Callers, ArchivePrepare(p) \/ ArchiveRenew(p) \/ ArchiveFinish(p)
          PROVE  OneInv'
      BY <2>2, OneArchiveCommits
    <2>3. QED
      BY <1>1, <1>4, <2>1, <2>2, OthersServeOne, SagasServeOne DEF LifecycleNext, ArchiveStep
  <1>5. ASSUME NEW p \in Callers, DecisionStart(p) PROVE OneInv'
    <2>1. UNCHANGED vars /\ call[p] = Idle
      BY <1>5 DEF DecisionStart, DecisionRead, DecisionResume, ProcessIdle
    <2>2. call'[p] = Idle
      BY <2>1 DEF vars
    <2>3. QED
      BY <1>2, <2>1, <2>2, SagasServeOne
  <1>6. ASSUME NEW p \in Callers, DecisionApply(p) \/ DecisionMark(p) PROVE OneInv'
    <2>1. UNCHANGED vars /\ saga[p] # NoSaga
      BY <1>6, NotIdle DEF DecisionApply, DecisionMark
    <2>2. call'[p] = Idle
      BY <2>1, NoCalls DEF vars
    <2>3. QED
      BY <1>2, <2>1, <2>2, SagasServeOne
  <1>7. ASSUME NEW p \in Callers, DecisionRefuse(p) PROVE OneInv'
    <2>1. UNCHANGED vars /\ saga' = [saga EXCEPT ![p] = NoSaga]
      BY <1>7 DEF DecisionRefuse, EndSaga
    <2>2. saga'[p] = NoSaga
      BY <1>1, <2>1
    <2>3. QED
      BY <1>2, <2>1, <2>2, SagasServeOne
  <1>8. ASSUME NEW q \in Paths, NEW t \in Texts, DocumentEdit(q, t) PROVE OneInv'
    <2>1. UNCHANGED <<vars, saga>>
      BY <1>8 DEF DocumentEdit
    <2>2. OneAtATime'
      BY <2>1 DEF OneInv, OneAtATime, vars
    <2>3. QED
      BY <2>1, <2>2, SagasServeOne
  <1>9. QED
    BY <1>3, <1>4, <1>5, <1>6, <1>7, <1>8, OneDecisionCommits DEF DecisionNext, DecisionStep

LEMMA OneDecisionAlways ==
    ASSUME OneProcess
    PROVE  DecisionSpec => [](DecisionInv /\ OneInv)
  <1>1. DecisionInit => OneInv
    BY OneInvInit DEF DecisionInit
  <1>2. QED
    BY <1>1, DecisionInvAlways, OneDecisionNext, PTL DEF DecisionSpec

-----------------------------------------------------------------------------
(* The theorems for a single process.                                      *)

LEMMA DecisionRefines ==
    ASSUME DecisionInv, OneInv, NEW p \in Callers, DecisionStart(p) \/ DecisionStep(p)
    PROVE  [Exclusive!Next]_(Exclusive!vars)
  <1>1. PICK c : c = saga[p]
    OBVIOUS
  <1>2. saga[p] # NoSaga => c.op \in Ops
    BY <1>1, SagaKinds DEF DecisionInv, DecisionTypeOK, Saga, DecisionSaga
  <1>3. CASE UNCHANGED vars
    BY <1>3 DEF vars, cloudVars, controlVars, Exclusive!vars
  <1>4. CASE DecisionPrepare(p)
    <2>1. /\ c.pc = "starting" /\ leaseOp' = c.op /\ UNCHANGED <<ready, epoch>>
          /\ ready /\ leaseOp = NoOp
      BY <1>1, <1>4 DEF DecisionPrepare, HoldLease, CanStart, ControlFree
    <2>2. c.op \in Ops
      BY <1>1, <1>2, <2>1, NotIdle
    <2>3. QED
      BY <2>1, <2>2 DEF Exclusive!Next, Exclusive!Begin
  <1>5. CASE DecisionRenew(p)
    <2>1. /\ c.pc = "restarting" /\ leaseOp' = c.op /\ UNCHANGED <<ready, epoch>>
          /\ IsActive(c.op)
      BY <1>1, <1>5 DEF DecisionRenew, HoldLease, CanRestart
    <2>2. c.op \in Ops
      BY <1>1, <1>2, <2>1, NotIdle
    <2>3. leaseOp = c.op
      BY <2>1, <2>2 DEF OneInv, LeaseFollowsRegistry
    <2>4. QED
      BY <2>1, <2>3 DEF Exclusive!vars
  <1>6. CASE DecisionFinish(p)
    <2>1. /\ c.pc = "marked" /\ leaseOp = c.op /\ leaseOp' = NoOp
          /\ epoch' = epoch + 1 /\ UNCHANGED ready
      BY <1>1, <1>6 DEF DecisionFinish, CanComplete
    <2>2. c.op \in Ops
      BY <1>1, <1>2, <2>1, NotIdle
    <2>3. QED
      BY <2>1, <2>2 DEF Exclusive!Next, Exclusive!Finish
  <1>7. CASE DecisionStart(p)
    BY <1>3, <1>7 DEF DecisionStart, DecisionRead, DecisionResume
  <1>8. CASE DecisionApply(p) \/ DecisionMark(p) \/ DecisionRefuse(p)
    BY <1>3, <1>8 DEF DecisionApply, DecisionMark, DecisionRefuse, EndSaga
  <1>9. QED
    BY <1>4, <1>5, <1>6, <1>7, <1>8 DEF DecisionStep

\* Within one process decisions, archives and the other protected changes
\* together are one exclusive change at a time.
THEOREM RefinementWithDecisions ==
    ASSUME OneProcess
    PROVE  DecisionSpec => ImplementsExclusiveChangeWithDecisions
  <1>1. DecisionInit => Exclusive!Init
    BY DEF DecisionInit, LifecycleInit, Init, Exclusive!Init
  <1>2. ASSUME DecisionInv, OneInv, [DecisionNext]_systemVars
        PROVE  [Exclusive!Next]_(Exclusive!vars)
    <2>1. TypeOK /\ \A p \in Callers : saga[p] # NoSaga => saga[p].op \in Ops
      BY <1>2, SagaKinds DEF DecisionInv, DecisionTypeOK, Saga, DecisionSaga
    <2>2. CASE LifecycleNext \/ UNCHANGED systemVars
      BY <1>2, <2>1, <2>2, LifecycleRefines DEF systemVars
    <2>3. CASE \E q \in Paths, t \in Texts : DocumentEdit(q, t)
      BY <2>3 DEF DocumentEdit, vars, cloudVars, controlVars, Exclusive!vars
    <2>4. QED
      BY <1>2, <2>2, <2>3, DecisionRefines DEF DecisionNext
  <1>3. QED
    BY <1>1, <1>2, OneDecisionAlways, PTL
       DEF DecisionSpec, ImplementsExclusiveChangeWithDecisions, Exclusive!Spec

\* What changes a file beyond its body is the write of the operation in work
\* on it, whose fence is up.
LEMMA FilesFenced ==
    ASSUME DecisionInv, [DecisionNext]_systemVars, NEW q \in Paths,
           document'[q] # document[q],
           Exists(q) => document'[q] # [document[q] EXCEPT !.text = document'[q].text]
    PROVE  \E o \in Ops :
                /\ transition[ProjectOf[q]] = o
                /\ lifecycle[ProjectOf[q]] = "active"
                /\ UnfinishedDecision(o) /\ decision[o].request.path = q
  <1>1. document' # document
    OBVIOUS
  <1>2. ASSUME NEW z \in Paths, NEW t \in Texts, DocumentEdit(z, t) PROVE FALSE
    <2>1. PICK new : new = [document[z] EXCEPT !.text = t]
      OBVIOUS
    <2>2. Exists(z) /\ document' = [document EXCEPT ![z] = new]
      BY <1>2, <2>1 DEF DocumentEdit
    <2>3. document \in [Paths -> Document \cup {NoDocument}] /\ document[z] \in Document
      BY <2>2 DEF DecisionInv, DecisionTypeOK, Exists
    <2>4. q = z /\ document'[z] = new
      BY <2>2, <2>3
    <2>5. new = [document[z] EXCEPT !.text = new.text]
      BY <2>1, <2>3 DEF Document
    <2>6. QED
      BY <2>2, <2>4, <2>5
  <1>3. PICK p \in Callers : DecisionApply(p)
    <2>1. \A p \in Callers : DecisionStart(p) => document' = document
      BY DEF DecisionStart, DecisionRead, DecisionResume, decisionVars
    <2>2. \A p \in Callers : DecisionStep(p) /\ ~DecisionApply(p) => document' = document
      BY DEF DecisionStep, DecisionPrepare, DecisionRenew, DecisionMark, DecisionFinish,
         DecisionRefuse, decisionVars
    <2>3. QED
      BY <1>1, <1>2, <2>1, <2>2 DEF DecisionNext, systemVars, decisionVars
  <1>4. PICK c : c = saga[p]
    OBVIOUS
  <1>5. c.pc = "ready"
    BY <1>3, <1>4 DEF DecisionApply
  <1>6. /\ c # NoSaga /\ c \in DecisionSaga /\ c.op \in Ops /\ c.request \in Request
    BY <1>4, <1>5, SagaKinds DEF DecisionInv, DecisionPcs
  <1>7. UnfinishedDecision(c.op) /\ decision[c.op].request = c.request
    BY <1>4, <1>5, <1>6, SagaFitsNow DEF SagaFits
  <1>8. document' = [document EXCEPT ![c.request.path] = StepResult(c.request)]
    BY <1>1, <1>3, <1>4 DEF DecisionApply
  <1>9. q = c.request.path
    BY <1>8 DEF DecisionInv, DecisionTypeOK
  <1>10. ProjectOf[q] \in Projects
    BY PathAssumption
  <1>11. transition[ProjectOf[q]] = c.op
    BY <1>6, <1>7, <1>9, <1>10, FenceOf
  <1>12. lifecycle[ProjectOf[q]] = "active"
    BY <1>6, <1>10, <1>11, NullAssumption DEF DecisionInv, ArchivedNotFenced, LifecycleTyped
  <1>13. QED
    BY <1>6, <1>7, <1>9, <1>11, <1>12

\* Within one process no operation creates or rewrites a decision file unless
\* its fence is up, the lease is its own and the project is not archived.
THEOREM FilesChangeFenced ==
    ASSUME OneProcess
    PROVE  DecisionSpec => FilesChangeUnderFence
  <1>1. ASSUME DecisionInv, OneInv, [DecisionNext]_systemVars, NEW q \in Paths,
               document'[q] # document[q],
               Exists(q) => document'[q] # [document[q] EXCEPT !.text = document'[q].text]
        PROVE  LET o == transition[ProjectOf[q]] IN
               /\ lifecycle[ProjectOf[q]] = "active"
               /\ o # NoOp
               /\ UnfinishedDecision(o)
               /\ decision[o].request.path = q
               /\ leaseOp = o
    <2>1. PICK o \in Ops :
                /\ transition[ProjectOf[q]] = o
                /\ lifecycle[ProjectOf[q]] = "active"
                /\ UnfinishedDecision(o) /\ decision[o].request.path = q
      BY <1>1, FilesFenced
    <2>2. leaseOp = o
      BY <1>1, <2>1, NotBoth DEF Pending, OneInv, LeaseFollowsRegistry
    <2>3. QED
      BY <2>1, <2>2, NullAssumption
  <1>2. ASSUME DecisionInv, OneInv, [DecisionNext]_systemVars
        PROVE  [\A q \in Paths :
                    document'[q] # document[q]
                    /\ (Exists(q) =>
                            document'[q] # [document[q] EXCEPT !.text = document'[q].text])
                        => LET o == transition[ProjectOf[q]] IN
                           /\ lifecycle[ProjectOf[q]] = "active"
                           /\ o # NoOp
                           /\ UnfinishedDecision(o)
                           /\ decision[o].request.path = q
                           /\ leaseOp = o]_systemVars
    BY <1>1, <1>2
  <1>3. QED
    BY <1>2, OneDecisionAlways, PTL DEF DecisionSpec, FilesChangeUnderFence

-----------------------------------------------------------------------------
(* Interrupted decisions.                                                  *)

LEMMA SameDocument ==
    ASSUME NEW x \in Document, NEW y \in Document, Alike(x, y), x.text = y.text
    PROVE  x = y
  BY DEF Document, Alike

\* A file with the form and the body that the request names is that file.
LEMMA FileAsRequested ==
    ASSUME DecisionInv, NEW q \in Paths, NEW doc \in Document, HasForm(q, doc),
           document[q].text = doc.text
    PROVE  document[q] = doc
  <1>1. document[q] \in Document /\ Alike(document[q], doc)
    BY DEF DecisionInv, DecisionTypeOK, HasForm, Exists
  <1>2. QED
    BY <1>1, SameDocument

\* The decision that a supersession leads to has another file than the one it
\* rewrites.
LEMMA TargetUntouched ==
    ASSUME DecisionInv, NEW o \in Ops, NEW r \in Request, UnfinishedDecision(o),
           decision[o].request = r, r.kind = "supersede", ~Contradicted(r),
           BodiesAsRequested(r)
    PROVE  document[record[r.target].path] = r.targetContent
  <1>1. /\ Asked(r) /\ r.target \in Ids /\ Known(r.target)
        /\ record[r.target].content = r.targetContent
    BY DEF DecisionInv, DecisionsSound, Asked, TargetAccepted, Known
  <1>2. PICK q \in Paths : q = record[r.target].path
    BY <1>1, RecordFields DEF DecisionInv
  <1>3. r.targetContent \in Document
    BY <1>1, RecordFields DEF DecisionInv
  <1>4. r.path # q
    <2>1. SUFFICES ASSUME r.path = q PROVE FALSE
      OBVIOUS
    <2>2. Governed(r.path)
      BY <1>1, <1>2, <2>1 DEF Governed
    <2>3. Known(r.id) /\ r.id # r.target
      BY <2>2 DEF Contradicted
    <2>4. r.id \in Ids /\ record[r.id].path = record[r.target].path
      BY <1>1, <1>2, <2>1, <2>3 DEF Asked, SourceAccepted
    <2>5. QED
      BY <1>1, <2>3, <2>4 DEF DecisionInv, RowsSound
  <1>5. ~Rewritten(q)
    BY <1>4 DEF Rewritten, DecisionInv, OneOperation, Pending
  <1>6. HasForm(q, r.targetContent)
    BY <1>1, <1>2, <1>5 DEF DecisionInv, FilesSound
  <1>7. document[q].text = r.targetContent.text
    BY <1>2 DEF BodiesAsRequested
  <1>8. QED
    BY <1>2, <1>3, <1>6, <1>7, FileAsRequested

LEMMA AllowedAgain ==
    ASSUME DecisionInv, NEW o \in Ops, NEW r \in Request, UnfinishedDecision(o),
           decision[o].request = r, ~Contradicted(r), BodiesAsRequested(r)
    PROVE  StillAllowed(r)
  <1>1. Asked(r) /\ (Before(r) \/ After(r))
    BY DEF DecisionInv, DecisionsSound
  <1>2. r.kind # "create" => Exists(r.path)
    BY <1>1, RequestFields DEF Before, After, HasForm, PointerKinds
  <1>3. r.kind = "accept" => Known(r.id) /\ Exists(r.path)
    BY <1>1, <1>2 DEF Asked
  <1>4. r.kind = "supersede" => SupersedeStillAllowed(r)
    BY <1>1, <1>2, TargetUntouched DEF Asked, SupersedeStillAllowed
  <1>5. r.kind \in PointerKinds => PointerStillAllowed(r)
    BY <1>1, <1>2 DEF Asked, PointerStillAllowed, BodiesAsRequested, PointerKinds
  <1>6. QED
    BY <1>3, <1>4, <1>5 DEF StillAllowed

LEMMA AppliesAgain ==
    ASSUME DecisionInv, NEW o \in Ops, NEW r \in Request, UnfinishedDecision(o),
           decision[o].request = r, BodiesAsRequested(r)
    PROVE  CanApply(r)
  <1>1. /\ Asked(r) /\ (Before(r) \/ After(r))
        /\ r.path \in Paths /\ r.content \in Document
        /\ r.kind \in {"create", "accept", "supersede", "forward", "applies_to"}
    BY RequestFields DEF DecisionInv, DecisionsSound
  <1>2. Exists(r.path) => document[r.path].text = r.content.text
    BY DEF BodiesAsRequested
  <1>3. CASE r.kind = "create"
    <2>1. CASE Before(r)
      BY <1>3, <2>1 DEF Before, CanApply, ReadyForStep, PointerKinds
    <2>2. CASE After(r)
      <3>1. HasForm(r.path, r.content) /\ Exists(r.path)
        BY <1>3, <2>2 DEF After, HasForm
      <3>2. document[r.path] = r.content
        BY <1>1, <1>2, <3>1, FileAsRequested
      <3>3. QED
        BY <1>3, <3>2 DEF CanApply, AlreadyApplied
    <2>3. QED
      BY <1>1, <2>1, <2>2
  <1>4. CASE r.kind \in {"accept", "supersede"} /\ Before(r)
    <2>1. HasForm(r.path, r.content) /\ Exists(r.path)
      BY <1>4 DEF Before, HasForm
    <2>2. document[r.path] = r.content
      BY <1>1, <1>2, <2>1, FileAsRequested
    <2>3. QED
      BY <1>4, <2>2 DEF CanApply, ReadyForStep, PointerKinds
  <1>5. CASE r.kind = "accept" /\ After(r)
    <2>1. /\ Exists(r.path)
          /\ Alike(document[r.path], AcceptedForm(r.content, r.id))
      BY <1>5 DEF After, HasForm
    <2>2. document[r.path].id = r.id /\ document[r.path].lifecycle = "accepted"
      BY <1>1, <2>1 DEF Alike, AcceptedForm, Document
    <2>3. record[r.id].body = r.content.text
      BY <1>1, <1>5 DEF Asked, Known, DecisionInv, RowsSound
    <2>4. AcceptApplied(r)
      BY <1>2, <2>1, <2>2, <2>3 DEF AcceptApplied
    <2>5. QED
      BY <1>5, <2>4 DEF CanApply, AlreadyApplied
  <1>6. CASE r.kind = "supersede" /\ After(r)
    <2>1. /\ Exists(r.path)
          /\ Alike(document[r.path], SupersededForm(r.content, r.id, r.target))
      BY <1>6 DEF After, HasForm
    <2>2. document[r.path].lifecycle = "superseded" /\ document[r.path].by = r.target
      BY <1>1, <2>1 DEF Alike, SupersededForm, Document
    <2>3. SupersedeApplied(r)
      BY <1>2, <2>1, <2>2 DEF SupersedeApplied
    <2>4. QED
      BY <1>6, <2>3 DEF CanApply, AlreadyApplied
  <1>7. CASE r.kind \in PointerKinds
    <2>1. Exists(r.path)
      BY <1>1, <1>7 DEF Before, After
    <2>2. r.kind \notin {"create", "accept", "supersede"}
      BY <1>7 DEF PointerKinds
    <2>3. QED
      BY <1>2, <2>1, <2>2 DEF CanApply, AlreadyApplied
  <1>8. QED
    BY <1>1, <1>3, <1>4, <1>5, <1>6, <1>7 DEF PointerKinds

LEMMA RecordsAgain ==
    ASSUME DecisionInv, NEW o \in Ops, NEW r \in Request, UnfinishedDecision(o),
           decision[o].request = r, ~Contradicted(r)
    PROVE  CanRecord(r)
  <1>1. /\ Asked(r)
        /\ r.kind \in {"create", "accept", "supersede", "forward", "applies_to"}
    BY RequestFields DEF DecisionInv, DecisionsSound
  <1>2. CASE r.kind \in {"create", "accept", "supersede"}
    BY <1>1, <1>2 DEF Asked, CanRecord, Contradicted
  <1>3. CASE r.kind \in PointerKinds
    <2>1. ~PointerTaken(r) /\ r.kind \notin {"create", "accept", "supersede"}
      BY <1>3 DEF Contradicted, PointerKinds
    <2>2. QED
      BY <2>1 DEF CanRecord
  <1>4. QED
    BY <1>1, <1>2, <1>3 DEF PointerKinds

\* Within one process an interrupted decision can be taken up and finished,
\* once the bodies edited meanwhile are put back, unless its request
\* contradicts a row.
THEOREM DecisionsResume ==
    ASSUME OneProcess
    PROVE  DecisionSpec => []InterruptedDecisionsResume
  <1>1. ASSUME DecisionInv, OneInv, NEW o \in Ops, UnfinishedDecision(o),
               BodiesAsRequested(decision[o].request), ~Contradicted(decision[o].request)
        PROVE  CanBeFinished(o)
    <2>1. PICK r \in Request : r = decision[o].request
      BY <1>1, DecisionFields DEF DecisionInv, UnfinishedDecision
    <2>2. r.path \in Paths /\ ProjectOf[r.path] \in Projects
      BY RequestFields
    <2>3. /\ IsActive(o)
          /\ RowMatches(active[o], DecisionKind, decision[o].actor, decision[o].base)
      BY <1>1 DEF DecisionInv, OneOperation
    <2>4. /\ ready /\ leaseOp = o /\ active[o].actor = leaseOwner /\ active[o].base = epoch
          /\ active[o].generation = generation
      BY <1>1, <2>3 DEF OneInv, LeaseFollowsRegistry
    <2>5. NoOtherActive(o)
      BY <1>1, <2>3, LeaseFree
    <2>6. transition[ProjectOf[r.path]] = o
      BY <1>1, <2>1, <2>2, FenceOf
    <2>7. StillAllowed(r) /\ CanApply(r) /\ CanRecord(r)
      BY <1>1, <2>1, AllowedAgain, AppliesAgain, RecordsAgain
    <2>8. DecisionResumable(o, decision[o].actor)
      BY <1>1, <2>1, <2>3, <2>4, <2>5, <2>6, <2>7 DEF DecisionResumable, RowMatches
    <2>9. QED
      BY <2>1, <2>7, <2>8 DEF CanBeFinished
  <1>2. ASSUME DecisionInv, OneInv PROVE InterruptedDecisionsResume
    BY <1>1, <1>2 DEF InterruptedDecisionsResume
  <1>3. QED
    BY <1>2, OneDecisionAlways, PTL
=============================================================================
