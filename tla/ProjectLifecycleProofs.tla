------------------------ MODULE ProjectLifecycleProofs ------------------------
(***************************************************************************)
(* Proofs about ProjectLifecycle, in two layers.                           *)
(*                                                                         *)
(* What the fence and the approval promise holds for any number of         *)
(* processes, because every saga holds the project lock: LInv says what a  *)
(* saga under way may rely on, and what each operation row stands for.     *)
(*                                                                         *)
(* What the lease promises to archives needs a single process: the first   *)
(* commit of an archive does not compare the generation, so a second       *)
(* process can get in between.  OneInv says that the lease, the registry   *)
(* and the unfinished archives agree, and that an acquire that has read    *)
(* still sees what it read.                                                *)
(***************************************************************************)
EXTENDS ProjectLifecycle, CloudFControlProofs

-----------------------------------------------------------------------------
(* The invariant for any number of processes.                              *)

LocksHeld ==
    /\ \A p \in Callers : saga[p] # NoSaga => lock = p
    /\ \A w \in Writers : writing[w] # NoProject => lock = w /\ Writable(writing[w])

SagasFollowOperations ==
    \A p \in Callers : saga[p] # NoSaga =>
        LET c == saga[p] IN
        /\ c.pc = "reserving" =>
            /\ operation[c.op] = NoRow
            /\ approval[c.approval] # NoRow
            /\ c.found = approval[c.approval].content
        /\ c.pc # "reserving" =>
            /\ Unfinished(c.op)
            /\ operation[c.op].approval = c.approval
            /\ operation[c.op].actor = c.actor
        /\ c.pc \in {"applied", "checkpointed"} => c.found = operation[c.op].content

ContentsFollowApprovals ==
    \A o \in Ops : operation[o] # NoRow =>
        /\ operation[o].content = ArchivedForm(approval[operation[o].approval].content)
        /\ operation[o].state = "completed" =>
            digest[operation[o].project] = operation[o].content

ArchivedNotFenced ==
    \A s \in Projects : transition[s] # NoOp => lifecycle[s] = "active"

LInv ==
    /\ LifecycleTypeOK
    /\ LocksHeld
    /\ SagasFollowOperations
    /\ ContentsFollowApprovals
    /\ FenceMatchesOperation
    /\ ArchivedNotFenced
    /\ ArchivedAtApprovedCoordinates

-----------------------------------------------------------------------------
(* Sagas and rows.                                                         *)

\* A process serves nothing or a saga with all its fields.
LEMMA SagaShape ==
    ASSUME LifecycleTypeOK, NEW p \in Callers, saga[p] # NoSaga
    PROVE  /\ saga[p] \in Saga
           /\ saga[p].op \in Ops /\ saga[p].approval \in Approvals /\ saga[p].actor \in Actors
           /\ saga[p].seen \in Nat /\ saga[p].generation \in Nat /\ saga[p].expires \in Nat
           /\ saga[p].found \in Content
           /\ saga[p].pc \in {"reserving", "resuming", "prepared", "applied", "checkpointed"}
  <1>1. saga[p] \in Saga
    BY DEF LifecycleTypeOK
  <1>2. QED
    BY <1>1 DEF Saga

\* A process that has a program counter other than idle serves a saga.
LEMMA NotIdle ==
    ASSUME NEW p \in Callers, saga[p].pc # "idle"
    PROVE  saga[p] # NoSaga
  BY DEF NoSaga

LEMMA ApprovalShape ==
    ASSUME LifecycleTypeOK, NEW a \in Approvals, approval[a] # NoRow
    PROVE  /\ approval[a] \in ApprovalRow
           /\ approval[a].project \in Projects /\ approval[a].content \in Content
           /\ approval[a].writer \in Nat /\ approval[a].selector \in Selectors
           /\ approval[a].epoch \in Nat /\ approval[a].expires \in Nat
           /\ approval[a].consumed \in Ops \cup {NoOp}
  <1>1. approval[a] \in ApprovalRow
    BY DEF LifecycleTypeOK
  <1>2. QED
    BY <1>1 DEF ApprovalRow

LEMMA OperationShape ==
    ASSUME LifecycleTypeOK, NEW o \in Ops, operation[o] # NoRow
    PROVE  /\ operation[o] \in OperationRow
           /\ operation[o].project \in Projects /\ operation[o].approval \in Approvals
           /\ operation[o].actor \in Actors /\ operation[o].content \in Content
           /\ operation[o].state \in {"prepared", "filesystem_applied", "completed"}
  <1>1. operation[o] \in OperationRow
    BY DEF LifecycleTypeOK
  <1>2. QED
    BY <1>1 DEF OperationRow

LEMMA ArchivedFormTyped ==
    ASSUME NEW c \in Content
    PROVE  ArchivedForm(c) \in Content /\ ArchivedForm(c).archived = TRUE
  BY DEF ArchivedForm, Content

\* At most one process or writer is inside the project lock.
LEMMA OneInside ==
    ASSUME LInv
    PROVE  /\ \A p \in Callers : lock = p =>
                /\ \A q \in Callers : saga[q] # NoSaga => q = p
                /\ \A w \in Writers : writing[w] = NoProject
           /\ \A w \in Writers : lock = w => \A q \in Callers : saga[q] = NoSaga
           /\ lock = Free =>
                /\ \A q \in Callers : saga[q] = NoSaga
                /\ \A w \in Writers : writing[w] = NoProject
  BY WriterAssumption, FreeAssumption DEF LInv, LocksHeld

-----------------------------------------------------------------------------
(* Steps.                                                                  *)

LEMMA LInvInit == LifecycleInit => LInv
  <1> SUFFICES ASSUME LifecycleInit PROVE LInv
    OBVIOUS
  <1>1. TypeOK
    BY InitTypeOK DEF LifecycleInit
  <1>2. LifecycleTypeOK
    BY <1>1 DEF LifecycleInit, LifecycleTypeOK
  <1>3. LocksHeld /\ SagasFollowOperations
    BY DEF LifecycleInit, LocksHeld, SagasFollowOperations
  <1>4. \A o \in Ops : operation[o] = NoRow
    BY DEF LifecycleInit
  <1>5. \A s \in Projects : transition[s] = NoOp /\ lifecycle[s] = "active"
    BY DEF LifecycleInit
  <1>6. QED
    BY <1>2, <1>3, <1>4, <1>5, NullAssumption
       DEF LInv, ContentsFollowApprovals, FenceMatchesOperation, Unfinished, ArchivedNotFenced,
           ArchivedAtApprovedCoordinates

\* Nothing of the archive saga changes.
LEMMA CloudKeeps ==
    ASSUME LInv, [Next]_vars, UNCHANGED lifecycleVars
    PROVE  LInv'
  <1>1. UNCHANGED <<lifecycle, writer, selector, transition, digest, approval, operation, yaml,
                    files, lock, writing, saga, faults>>
    BY DEF lifecycleVars, stateVars, archiveVars
  <1>2. LifecycleTypeOK'
    BY <1>1, NextTypeOK DEF LInv, LifecycleTypeOK
  <1>3. QED
    BY <1>1, <1>2
       DEF LInv, LocksHeld, Writable, SagasFollowOperations, ContentsFollowApprovals,
           FenceMatchesOperation, Unfinished, ArchivedNotFenced, ArchivedAtApprovedCoordinates

LEMMA CloudUnchanged ==
    ASSUME TypeOK, UNCHANGED vars
    PROVE  TypeOK'
  BY NextTypeOK

\* A project whose write is journaled is not the project of any operation.
LEMMA WritableUnclaimed ==
    ASSUME LInv, NEW s \in Projects, Writable(s), NEW o \in Ops, operation[o] # NoRow
    PROVE  operation[o].project # s
  <1>1. operation[o].state \in {"prepared", "filesystem_applied", "completed"}
    BY OperationShape DEF LInv
  <1>2. transition[s] # o /\ lifecycle[s] # "archived"
    BY NullAssumption DEF Writable
  <1>3. QED
    BY <1>1, <1>2 DEF LInv, FenceMatchesOperation, Unfinished

\* Writes that are journaled: by a trigger, with the selector, or by a task
\* that goes on to change a file.
LEMMA WriteSteps ==
    ASSUME LInv, NEW s \in Projects, RecordProjectWrite(s),
           selector' \in [Projects -> Selectors],
           \A z \in Projects \ {s} : selector'[z] = selector[z],
           UNCHANGED <<vars, lifecycle, transition, digest, archiveVars, yaml, files, saga,
                       faults>>,
           \/ UNCHANGED <<lock, writing>>
           \/ \E w \in Writers :
                /\ lock = Free /\ lock' = w
                /\ writing' = [writing EXCEPT ![w] = s]
    PROVE  LInv'
  <1>1. /\ UNCHANGED <<lifecycle, transition, digest, approval, operation, yaml, files, saga,
                       faults>>
        /\ Writable(s) /\ writer' = [writer EXCEPT ![s] = @ + 1]
        /\ TypeOK'
    BY CloudUnchanged DEF RecordProjectWrite, archiveVars, LInv, LifecycleTypeOK
  <1>2. /\ writer' \in [Projects -> Nat]
        /\ \A z \in Projects : z # s => writer'[z] = writer[z] /\ selector'[z] = selector[z]
    BY <1>1 DEF LInv, LifecycleTypeOK
  <1>3. ArchivedAtApprovedCoordinates'
    <2>1. \A o \in Ops : operation[o] # NoRow =>
             operation[o].project # s /\ operation[o].project \in Projects
      BY <1>1, WritableUnclaimed, OperationShape DEF LInv
    <2>2. QED
      BY <1>1, <1>2, <2>1 DEF LInv, ArchivedAtApprovedCoordinates
  <1>4. /\ lock' \in Callers \cup Writers \cup {Free}
        /\ writing' \in [Writers -> Projects \cup {NoProject}]
        /\ LocksHeld'
    <2>1. CASE UNCHANGED <<lock, writing>>
      BY <1>1, <2>1 DEF LInv, LifecycleTypeOK, LocksHeld, Writable
    <2>2. ASSUME NEW w \in Writers, lock = Free, lock' = w, writing' = [writing EXCEPT ![w] = s]
          PROVE  /\ lock' \in Callers \cup Writers \cup {Free}
                 /\ writing' \in [Writers -> Projects \cup {NoProject}]
                 /\ LocksHeld'
      <3>1. writing' \in [Writers -> Projects \cup {NoProject}]
        BY <2>2 DEF LInv, LifecycleTypeOK
      <3>2. /\ \A q \in Callers : saga'[q] = NoSaga
            /\ \A v \in Writers : v # w => writing'[v] = NoProject
            /\ writing'[w] = s
        BY <1>1, <2>2, OneInside DEF LInv, LifecycleTypeOK
      <3>3. Writable(s)'
        BY <1>1 DEF Writable
      <3>4. QED
        BY <2>2, <3>1, <3>2, <3>3 DEF LocksHeld, Writable
    <2>3. QED
      BY <2>1, <2>2
  <1>5. LifecycleTypeOK'
    BY <1>1, <1>2, <1>4 DEF LInv, LifecycleTypeOK
  <1>6. QED
    BY <1>1, <1>3, <1>4, <1>5
       DEF LInv, SagasFollowOperations, ContentsFollowApprovals, FenceMatchesOperation,
           Unfinished, ArchivedNotFenced
LEMMA ReleaseStep ==
    ASSUME LInv, NEW w \in Writers, FileWriteEnd(w) \/ FileWriteFails(w)
    PROVE  LInv'
  <1>1. /\ UNCHANGED <<lifecycle, writer, selector, transition, digest, approval, operation,
                       yaml, saga, faults>>
        /\ writing[w] # NoProject /\ lock' = Free
        /\ writing' = [writing EXCEPT ![w] = NoProject]
        /\ TypeOK'
    BY CloudUnchanged
       DEF FileWriteEnd, FileWriteFails, ReleaseFileWrite, stateVars, archiveVars, LInv,
           LifecycleTypeOK
  <1>2. writing[w] \in Projects /\ lock = w
    BY <1>1 DEF LInv, LifecycleTypeOK, LocksHeld
  <1>3. files' \in [Projects -> Nat]
    BY <1>2 DEF FileWriteEnd, FileWriteFails, LInv, LifecycleTypeOK
  <1>4. /\ \A q \in Callers : saga'[q] = NoSaga
        /\ \A v \in Writers : writing'[v] = NoProject
    <2>1. \A v \in Writers : v # w => writing[v] = NoProject
      BY <1>2 DEF LInv, LocksHeld
    <2>2. QED
      BY <1>1, <1>2, <2>1, OneInside DEF LInv, LifecycleTypeOK
  <1>5. LocksHeld'
    BY <1>4 DEF LocksHeld
  <1>6. LifecycleTypeOK'
    BY <1>1, <1>3 DEF LInv, LifecycleTypeOK
  <1>7. QED
    BY <1>1, <1>5, <1>6
       DEF LInv, SagasFollowOperations, ContentsFollowApprovals, FenceMatchesOperation,
           Unfinished, ArchivedNotFenced, ArchivedAtApprovedCoordinates

\* Only project.yaml changes: an edit by hand.
LEMMA ExternalEditStep ==
    ASSUME LInv, NEW s \in Projects, NEW b \in Bodies, ExternalEdit(s, b)
    PROVE  LInv'
  <1>1. /\ UNCHANGED <<lifecycle, writer, selector, transition, digest, approval, operation,
                       files, lock, writing, saga, faults>>
        /\ yaml' = [yaml EXCEPT ![s].body = b] /\ TypeOK'
    BY CloudUnchanged DEF ExternalEdit, stateVars, archiveVars, LInv, LifecycleTypeOK
  <1>2. yaml' \in [Projects -> Content]
    BY <1>1 DEF LInv, LifecycleTypeOK, Content
  <1>3. LifecycleTypeOK'
    BY <1>1, <1>2 DEF LInv, LifecycleTypeOK
  <1>4. QED
    BY <1>1, <1>3
       DEF LInv, LocksHeld, Writable, SagasFollowOperations, ContentsFollowApprovals,
           FenceMatchesOperation, Unfinished, ArchivedNotFenced, ArchivedAtApprovedCoordinates

\* A new approval is the approval of no operation yet.
LEMMA CreateApprovalStep ==
    ASSUME LInv, NEW p \in Callers, NEW a \in Approvals, NEW s \in Projects,
           NEW x \in 1 .. MaxTime + 1, CreateApproval(p, a, s, x)
    PROVE  LInv'
  <1> DEFINE row == [project |-> s, content |-> yaml[s], writer |-> writer[s],
                     selector |-> selector[s], epoch |-> epoch, expires |-> x,
                     consumed |-> NoOp]
  <1>1. /\ UNCHANGED <<lifecycle, writer, selector, transition, digest, operation, yaml, files,
                       lock, writing, saga, faults>>
        /\ approval[a] = NoRow /\ lock = Free /\ TypeOK'
        /\ approval' = [approval EXCEPT ![a] = row]
    BY CloudUnchanged DEF CreateApproval, stateVars, LInv, LifecycleTypeOK
  <1>2. row \in ApprovalRow
    BY BoundAssumption DEF LInv, LifecycleTypeOK, TypeOK, ApprovalRow
  <1> HIDE DEF row
  <1>3. /\ approval' \in [Approvals -> ApprovalRow \cup {NoRow}]
        /\ \A b \in Approvals : approval[b] # NoRow => approval'[b] = approval[b]
    BY <1>1, <1>2 DEF LInv, LifecycleTypeOK
  <1>4. \A o \in Ops : operation[o] # NoRow =>
           /\ approval[operation[o].approval] # NoRow
           /\ approval'[operation[o].approval] = approval[operation[o].approval]
    BY <1>3, OperationShape DEF LInv, ArchivedAtApprovedCoordinates
  <1>5. LifecycleTypeOK'
    BY <1>1, <1>3 DEF LInv, LifecycleTypeOK
  <1>6. ContentsFollowApprovals' /\ ArchivedAtApprovedCoordinates'
    BY <1>1, <1>4 DEF LInv, ContentsFollowApprovals, ArchivedAtApprovedCoordinates
  <1>7. \A q \in Callers : saga'[q] = NoSaga
    BY <1>1, OneInside
  <1>8. LocksHeld' /\ SagasFollowOperations'
    BY <1>1, <1>7 DEF LInv, LocksHeld, Writable, SagasFollowOperations
  <1>9. QED
    BY <1>1, <1>5, <1>6, <1>8 DEF LInv, FenceMatchesOperation, Unfinished, ArchivedNotFenced

\* A saga takes the free project lock and begins with c.
LEMMA SagaBegins ==
    ASSUME LInv, NEW p \in Callers, NEW c \in Saga, lock = Free, lock' = p,
           saga' = [saga EXCEPT ![p] = c],
           c.pc = "reserving" =>
              /\ operation[c.op] = NoRow /\ approval[c.approval] # NoRow
              /\ c.found = approval[c.approval].content,
           c.pc # "reserving" =>
              /\ Unfinished(c.op) /\ operation[c.op].approval = c.approval
              /\ operation[c.op].actor = c.actor,
           c.pc \in {"reserving", "resuming"},
           UNCHANGED <<vars, stateVars, archiveVars, yaml, files, writing, faults>>
    PROVE  LInv'
  <1>1. /\ UNCHANGED <<lifecycle, writer, selector, transition, digest, approval, operation,
                       yaml, files, writing, faults>>
        /\ TypeOK'
    BY CloudUnchanged DEF stateVars, archiveVars, LInv, LifecycleTypeOK
  <1>2. /\ saga' \in [Callers -> Saga \cup {NoSaga}] /\ saga'[p] = c
        /\ \A q \in Callers : q # p => saga'[q] = NoSaga
        /\ \A w \in Writers : writing'[w] = NoProject
    BY <1>1, OneInside DEF LInv, LifecycleTypeOK
  <1>3. LifecycleTypeOK'
    BY <1>1, <1>2 DEF LInv, LifecycleTypeOK
  <1>4. LocksHeld'
    BY <1>2 DEF LocksHeld
  <1>5. SagasFollowOperations'
    BY <1>1, <1>2 DEF SagasFollowOperations, Unfinished
  <1>6. QED
    BY <1>1, <1>3, <1>4, <1>5
       DEF LInv, ContentsFollowApprovals, FenceMatchesOperation, Unfinished, ArchivedNotFenced,
           ArchivedAtApprovedCoordinates

LEMMA ArchiveStartStep ==
    ASSUME LInv, NEW p \in Callers, ArchiveStart(p)
    PROVE  LInv'
  <1> USE BoundAssumption
  <1>1. ASSUME NEW o \in Ops, NEW a \in Approvals, NEW act \in Actors,
               NEW x \in 1 .. MaxTime + 1, ArchiveRead(p, o, a, act, x)
        PROVE  LInv'
    <2> DEFINE c == [pc |-> "reserving", op |-> o, approval |-> a, actor |-> act,
                     seen |-> generation, generation |-> generation + 1,
                     expires |-> x, found |-> yaml[approval[a].project]]
    <2>1. /\ lock = Free /\ lock' = p /\ operation[o] = NoRow /\ approval[a] # NoRow
          /\ yaml[approval[a].project] = approval[a].content
          /\ saga' = [saga EXCEPT ![p] = c]
          /\ UNCHANGED <<vars, stateVars, archiveVars, yaml, files, writing, faults>>
      BY <1>1 DEF ArchiveRead
    <2>2. generation \in Nat /\ approval[a].content \in Content
      BY <2>1, ApprovalShape DEF LInv, LifecycleTypeOK, TypeOK
    <2>3. c \in Saga
      BY <2>1, <2>2 DEF Saga
    <2>4. /\ c.pc = "reserving" /\ c.op = o /\ c.approval = a
          /\ c.found = approval[a].content
      BY <2>1
    <2> HIDE DEF c
    <2>5. QED
      BY <2>1, <2>3, <2>4, SagaBegins
  <1>2. ASSUME NEW o \in Ops, NEW act \in Actors, NEW x \in 1 .. MaxTime + 1,
               ArchiveResume(p, o, act, x)
        PROVE  LInv'
    <2> DEFINE g == IF leaseOp = NoOp THEN generation + 1 ELSE generation
               c == [pc |-> "resuming", op |-> o, approval |-> operation[o].approval,
                     actor |-> act, seen |-> generation, generation |-> g,
                     expires |-> x, found |-> operation[o].content]
    <2>1. /\ lock = Free /\ lock' = p /\ Unfinished(o) /\ operation[o].actor = act
          /\ saga' = [saga EXCEPT ![p] = c]
          /\ UNCHANGED <<vars, stateVars, archiveVars, yaml, files, writing, faults>>
      BY <1>2 DEF ArchiveResume, Resumable
    <2>2. /\ generation \in Nat /\ g \in Nat
          /\ operation[o].approval \in Approvals /\ operation[o].content \in Content
      BY <2>1, OperationShape DEF LInv, LifecycleTypeOK, TypeOK, Unfinished
    <2> HIDE DEF g
    <2>3. c \in Saga
      BY <2>2 DEF Saga
    <2>4. /\ c.pc = "resuming" /\ c.op = o /\ c.approval = operation[o].approval
          /\ c.actor = act
      OBVIOUS
    <2> HIDE DEF c
    <2>5. QED
      BY <2>1, <2>3, <2>4, SagaBegins
  <1>3. QED
    BY <1>1, <1>2 DEF ArchiveStart

LEMMA EndSagaStep ==
    ASSUME LInv, NEW p \in Callers, saga[p] # NoSaga, EndSaga(p), faults' \in Nat
    PROVE  LInv'
  <1>1. /\ UNCHANGED <<lifecycle, writer, selector, transition, digest, approval, operation,
                       yaml, files, writing>>
        /\ lock' = Free /\ saga' = [saga EXCEPT ![p] = NoSaga] /\ TypeOK'
    BY CloudUnchanged DEF EndSaga, stateVars, archiveVars, LInv, LifecycleTypeOK
  <1>2. /\ saga' \in [Callers -> Saga \cup {NoSaga}]
        /\ \A q \in Callers : saga'[q] = NoSaga
        /\ \A w \in Writers : writing'[w] = NoProject
    <2>1. lock = p
      BY DEF LInv, LocksHeld
    <2>2. QED
      BY <1>1, <2>1, OneInside DEF LInv, LifecycleTypeOK
  <1>3. LifecycleTypeOK'
    BY <1>1, <1>2 DEF LInv, LifecycleTypeOK
  <1>4. LocksHeld' /\ SagasFollowOperations'
    BY <1>2 DEF LocksHeld, SagasFollowOperations
  <1>5. QED
    BY <1>1, <1>3, <1>4
       DEF LInv, ContentsFollowApprovals, FenceMatchesOperation, Unfinished, ArchivedNotFenced,
           ArchivedAtApprovedCoordinates
\* What every step of a saga leaves to the others: nobody else is inside the
\* project lock.
LEMMA SagaGoesOn ==
    ASSUME LInv, NEW p \in Callers, saga[p] # NoSaga, NEW c \in Saga,
           saga' = [saga EXCEPT ![p] = c], UNCHANGED <<lock, writing>>
    PROVE  /\ saga' \in [Callers -> Saga \cup {NoSaga}] /\ saga'[p] = c
           /\ \A q \in Callers : q # p => saga'[q] = NoSaga
           /\ lock' = p
           /\ LocksHeld'
  <1>1. lock = p
    BY DEF LInv, LocksHeld
  <1>2. /\ saga' \in [Callers -> Saga \cup {NoSaga}] /\ saga'[p] = c
        /\ \A q \in Callers : q # p => saga'[q] = NoSaga
        /\ \A w \in Writers : writing'[w] = NoProject
    BY <1>1, OneInside DEF LInv, LifecycleTypeOK
  <1>3. QED
    BY <1>1, <1>2 DEF LocksHeld

LEMMA TakeLeaseTyped ==
    ASSUME TypeOK, NEW c, c.op \in Ops, c.actor \in Actors, c.generation \in Nat,
           c.expires \in Nat, approval[c.approval].epoch \in Nat, TakeLease(c)
    PROVE  TypeOK'
  <1>1. ArchiveRow(c) \in Row
    BY KindAssumption DEF ArchiveRow, Row
  <1>2. active' \in [Ops -> Row \cup {NoRow}]
    BY <1>1 DEF TypeOK, TakeLease
  <1>3. QED
    BY <1>2 DEF TypeOK, TakeLease

\* The first commit: the project was writable at the approved coordinates, so
\* no other operation stands for it.
LEMMA PrepareStep ==
    ASSUME LInv, NEW p \in Callers, ArchivePrepare(p)
    PROVE  LInv'
  <1> DEFINE c == saga[p]
             a == c.approval
             s == approval[a].project
             row == [project |-> s, approval |-> a, actor |-> c.actor,
                     content |-> ArchivedForm(c.found), state |-> "prepared"]
             d == [c EXCEPT !.pc = "prepared"]
  <1>1. /\ c.pc = "reserving" /\ CanPrepare(c) /\ TakeLease(c)
        /\ transition' = [transition EXCEPT ![s] = c.op]
        /\ approval' = [approval EXCEPT ![a].consumed = c.op]
        /\ operation' = [operation EXCEPT ![c.op] = row]
        /\ saga' = [saga EXCEPT ![p] = d]
        /\ UNCHANGED <<lifecycle, writer, selector, digest, yaml, files, lock, writing, faults>>
    BY DEF ArchivePrepare
  <1>2. /\ c # NoSaga /\ c \in Saga /\ c.op \in Ops /\ a \in Approvals /\ c.actor \in Actors
        /\ c.generation \in Nat /\ c.expires \in Nat /\ c.found \in Content
    BY <1>1, NotIdle, SagaShape DEF LInv
  <1>3. /\ operation[c.op] = NoRow /\ approval[a] # NoRow /\ c.found = approval[a].content
    BY <1>1, <1>2 DEF LInv, SagasFollowOperations
  <1>4. approval[a] \in ApprovalRow /\ s \in Projects /\ approval[a].epoch \in Nat
    BY <1>2, <1>3, ApprovalShape DEF LInv
  <1>5. /\ Writable(s) /\ writer[s] = approval[a].writer /\ selector[s] = approval[a].selector
        /\ approval[a].consumed = NoOp
    BY <1>1 DEF CanPrepare, PrepareProjectCas, NotConsumed
  <1>6. transition[s] = NoOp /\ lifecycle[s] = "active"
    BY <1>4, <1>5 DEF Writable, LInv, LifecycleTypeOK
  <1>7. /\ row \in OperationRow /\ row.project = s /\ row.approval = a /\ row.actor = c.actor
        /\ row.content = ArchivedForm(c.found) /\ row.state = "prepared" /\ row # NoRow
    <2> DEFINE form == ArchivedForm(c.found)
    <2>1. form \in Content
      BY <1>2, ArchivedFormTyped
    <2> HIDE DEF form
    <2>2. row = [project |-> s, approval |-> a, actor |-> c.actor, content |-> form,
                 state |-> "prepared"]
      BY DEF form
    <2> HIDE DEF row
    <2>3. row \in OperationRow
      BY <1>2, <1>4, <2>1, <2>2 DEF OperationRow
    <2>4. QED
      BY <2>2, <2>3, NoRowLifecycleAssumption DEF form
  <1>8. /\ d \in Saga /\ d.pc = "prepared" /\ d.op = c.op /\ d.approval = a /\ d.actor = c.actor
    BY <1>2 DEF Saga
  <1>9. TypeOK'
    BY <1>1, <1>2, <1>4, TakeLeaseTyped DEF LInv, LifecycleTypeOK
  <1> DEFINE spent == [approval[a] EXCEPT !.consumed = c.op]
  <1>10. /\ spent \in ApprovalRow /\ spent.project = s /\ spent.content = approval[a].content
         /\ spent.writer = approval[a].writer /\ spent.selector = approval[a].selector
         /\ spent.consumed = c.op /\ spent # NoRow
    BY <1>2, <1>4, NoRowLifecycleAssumption DEF ApprovalRow
  <1>11. approval' = [approval EXCEPT ![a] = spent]
    BY <1>1
  <1> HIDE DEF c, a, s, row, d, spent
  <1>12. /\ saga' \in [Callers -> Saga \cup {NoSaga}] /\ saga'[p] = d
         /\ \A q \in Callers : q # p => saga'[q] = NoSaga
         /\ LocksHeld' /\ lock' = p
    <2>1. saga[p] # NoSaga
      BY <1>2 DEF c
    <2>2. QED
      BY <1>1, <1>8, <2>1, SagaGoesOn
  <1>13. /\ approval' \in [Approvals -> ApprovalRow \cup {NoRow}] /\ approval'[a] = spent
         /\ \A b \in Approvals : b # a => approval'[b] = approval[b]
         /\ operation' \in [Ops -> OperationRow \cup {NoRow}] /\ operation'[c.op] = row
         /\ \A o \in Ops : o # c.op => operation'[o] = operation[o]
         /\ transition' \in [Projects -> Ops \cup {NoOp}] /\ transition'[s] = c.op
         /\ \A z \in Projects : z # s => transition'[z] = transition[z]
    BY <1>1, <1>2, <1>4, <1>7, <1>10, <1>11 DEF LInv, LifecycleTypeOK
  <1>14. LifecycleTypeOK'
    BY <1>1, <1>9, <1>12, <1>13 DEF LInv, LifecycleTypeOK
  <1>15. \A o \in Ops : operation[o] # NoRow =>
           /\ o # c.op /\ operation[o].project # s /\ operation[o].project \in Projects
           /\ operation[o].approval # a /\ operation[o].approval \in Approvals
    <2>1. ASSUME NEW o \in Ops, operation[o] # NoRow
          PROVE  /\ o # c.op /\ operation[o].project # s /\ operation[o].project \in Projects
                 /\ operation[o].approval # a /\ operation[o].approval \in Approvals
      <3>1. operation[o].project \in Projects /\ operation[o].approval \in Approvals
        BY <2>1, OperationShape DEF LInv
      <3>2. approval[operation[o].approval].consumed = o
        BY <2>1 DEF LInv, ArchivedAtApprovedCoordinates
      <3>3. operation[o].approval # a
        BY <1>5, <3>2, NullAssumption
      <3>4. operation[o].project # s
        BY <1>4, <1>5, <2>1, WritableUnclaimed
      <3>5. QED
        BY <1>3, <2>1, <3>1, <3>3, <3>4
    <2>2. QED
      BY <2>1
  <1>16. SagasFollowOperations'
    BY <1>7, <1>8, <1>12, <1>13 DEF SagasFollowOperations, Unfinished
  <1>17. ContentsFollowApprovals'
    <2>1. ASSUME NEW o \in Ops, operation'[o] # NoRow
          PROVE  /\ operation'[o].content = ArchivedForm(approval'[operation'[o].approval].content)
                 /\ operation'[o].state = "completed" =>
                      digest[operation'[o].project] = operation'[o].content
      <3>1. CASE o = c.op
        BY <1>3, <1>7, <1>10, <1>13, <3>1
      <3>2. CASE o # c.op
        BY <1>13, <1>15, <2>1, <3>2 DEF LInv, ContentsFollowApprovals
      <3>3. QED
        BY <3>1, <3>2
    <2>2. QED
      BY <1>1, <2>1 DEF ContentsFollowApprovals
  <1>18. ArchivedAtApprovedCoordinates'
    <2>1. ASSUME NEW o \in Ops, operation'[o] # NoRow
          PROVE  LET r == approval'[operation'[o].approval] IN
                 /\ r # NoRow /\ r.project = operation'[o].project /\ r.consumed = o
                 /\ writer[r.project] = r.writer /\ selector[r.project] = r.selector
      <3>1. CASE o = c.op
        BY <1>5, <1>7, <1>10, <1>13, <3>1
      <3>2. CASE o # c.op
        BY <1>13, <1>15, <2>1, <3>2 DEF LInv, ArchivedAtApprovedCoordinates
      <3>3. QED
        BY <3>1, <3>2
    <2>2. QED
      BY <1>1, <2>1 DEF ArchivedAtApprovedCoordinates
  <1>19. FenceMatchesOperation'
    <2>1. ASSUME NEW z \in Projects
          PROVE  /\ \A o \in Ops : transition'[z] = o <=>
                        Unfinished(o)' /\ operation'[o].project = z
                 /\ lifecycle[z] = "archived" <=>
                        \E o \in Ops : /\ operation'[o] # NoRow
                                       /\ operation'[o].project = z
                                       /\ operation'[o].state = "completed"
      <3>1. CASE z = s
        <4>1. \A o \in Ops : operation'[o] # NoRow /\ operation'[o].project = s <=> o = c.op
          BY <1>2, <1>7, <1>13, <1>15
        <4>2. \A o \in Ops : o = c.op => Unfinished(o)'
          BY <1>7, <1>13, <1>2 DEF Unfinished
        <4>3. \A o \in Ops : transition'[z] = o <=> Unfinished(o)' /\ operation'[o].project = z
          BY <1>7, <1>13, <3>1, <4>1, <4>2 DEF Unfinished
        <4>4. lifecycle[z] # "archived" /\ operation'[c.op].state # "completed"
          BY <1>6, <1>7, <1>13, <3>1
        <4>5. QED
          BY <3>1, <4>1, <4>3, <4>4
      <3>2. CASE z # s
        <4>1. transition'[z] = transition[z]
          BY <1>13, <3>2
        <4>2. \A o \in Ops :
                  operation'[o] # NoRow /\ operation'[o].project = z =>
                      operation[o] # NoRow /\ operation'[o] = operation[o]
          BY <1>7, <1>13, <3>2
        <4>3. \A o \in Ops : operation[o] # NoRow => operation'[o] = operation[o]
          BY <1>3, <1>13
        <4>4. QED
          BY <4>1, <4>2, <4>3 DEF LInv, FenceMatchesOperation, Unfinished
      <3>3. QED
        BY <3>1, <3>2
    <2>2. QED
      BY <1>1, <2>1 DEF FenceMatchesOperation
  <1>20. ArchivedNotFenced'
    BY <1>1, <1>6, <1>13 DEF LInv, ArchivedNotFenced
  <1>21. QED
    BY <1>12, <1>14, <1>16, <1>17, <1>18, <1>19, <1>20 DEF LInv

\* A retry renews the lease.
LEMMA RenewStep ==
    ASSUME LInv, NEW p \in Callers, ArchiveRenew(p)
    PROVE  LInv'
  <1> DEFINE c == saga[p]
             d == [c EXCEPT !.pc = "prepared"]
  <1>1. /\ c.pc = "resuming" /\ TakeLease(c)
        /\ saga' = [saga EXCEPT ![p] = d]
        /\ UNCHANGED <<lifecycle, writer, selector, transition, digest, approval, operation,
                       yaml, files, lock, writing, faults>>
    BY DEF ArchiveRenew, stateVars, archiveVars
  <1>2. /\ c # NoSaga /\ c \in Saga /\ c.op \in Ops /\ c.approval \in Approvals
        /\ c.actor \in Actors /\ c.generation \in Nat /\ c.expires \in Nat
    BY <1>1, NotIdle, SagaShape DEF LInv
  <1>3. /\ Unfinished(c.op) /\ operation[c.op].approval = c.approval
        /\ operation[c.op].actor = c.actor
    BY <1>1, <1>2 DEF LInv, SagasFollowOperations
  <1>4. approval[c.approval] # NoRow
    BY <1>2, <1>3 DEF LInv, ArchivedAtApprovedCoordinates, Unfinished
  <1>5. TypeOK'
    BY <1>1, <1>2, <1>4, ApprovalShape, TakeLeaseTyped DEF LInv, LifecycleTypeOK
  <1>6. /\ d \in Saga /\ d.pc = "prepared" /\ d.op = c.op /\ d.approval = c.approval
        /\ d.actor = c.actor
    BY <1>2 DEF Saga
  <1> HIDE DEF d
  <1>7. /\ saga' \in [Callers -> Saga \cup {NoSaga}] /\ saga'[p] = d
        /\ \A q \in Callers : q # p => saga'[q] = NoSaga
        /\ LocksHeld'
    BY <1>1, <1>2, <1>6, SagaGoesOn
  <1>8. LifecycleTypeOK'
    BY <1>1, <1>5, <1>7 DEF LInv, LifecycleTypeOK
  <1>9. SagasFollowOperations'
    BY <1>1, <1>3, <1>6, <1>7 DEF SagasFollowOperations, Unfinished
  <1>10. QED
    BY <1>1, <1>7, <1>8, <1>9
       DEF LInv, ContentsFollowApprovals, FenceMatchesOperation, Unfinished, ArchivedNotFenced,
           ArchivedAtApprovedCoordinates

\* project.yaml is replaced by the content checkpointed at preparation.
LEMMA ApplyStep ==
    ASSUME LInv, NEW p \in Callers, ArchiveApply(p)
    PROVE  LInv'
  <1> DEFINE c == saga[p]
             s == operation[c.op].project
             d == [c EXCEPT !.pc = "applied", !.found = Outcome(c)]
  <1>1. /\ c.pc = "prepared" /\ ContentApproved(c)
        /\ yaml' = [yaml EXCEPT ![s] = Outcome(c)]
        /\ saga' = [saga EXCEPT ![p].pc = "applied", ![p].found = Outcome(c)]
        /\ UNCHANGED <<lifecycle, writer, selector, transition, digest, approval, operation,
                       files, lock, writing, faults>>
        /\ TypeOK'
    BY CloudUnchanged DEF ArchiveApply, stateVars, archiveVars, LInv, LifecycleTypeOK
  <1>2. /\ c # NoSaga /\ c \in Saga /\ c.op \in Ops
    BY <1>1, NotIdle, SagaShape DEF LInv
  <1>3. saga' = [saga EXCEPT ![p] = d]
    BY <1>1, <1>2 DEF LInv, LifecycleTypeOK, Saga
  <1>4. /\ Unfinished(c.op) /\ operation[c.op].approval = c.approval
        /\ operation[c.op].actor = c.actor
    BY <1>1, <1>2 DEF LInv, SagasFollowOperations
  <1>5. /\ operation[c.op].content \in Content /\ Outcome(c) = operation[c.op].content
    BY <1>1, <1>2, <1>4, OperationShape DEF LInv, Unfinished, ContentApproved
  <1>6. /\ d \in Saga /\ d.pc = "applied" /\ d.op = c.op /\ d.approval = c.approval
        /\ d.actor = c.actor /\ d.found = operation[c.op].content
    BY <1>2, <1>5 DEF Saga
  <1>7. yaml' \in [Projects -> Content]
    BY <1>1, <1>5 DEF LInv, LifecycleTypeOK
  <1> HIDE DEF d
  <1>8. /\ saga' \in [Callers -> Saga \cup {NoSaga}] /\ saga'[p] = d
        /\ \A q \in Callers : q # p => saga'[q] = NoSaga
        /\ LocksHeld'
    <2>1. saga[p] # NoSaga /\ UNCHANGED <<lock, writing>>
      BY <1>1, <1>2
    <2>2. QED
      BY <1>3, <1>6, <2>1, SagaGoesOn
  <1>9. LifecycleTypeOK'
    BY <1>1, <1>7, <1>8 DEF LInv, LifecycleTypeOK
  <1>10. SagasFollowOperations'
    BY <1>1, <1>4, <1>6, <1>8 DEF SagasFollowOperations, Unfinished
  <1>11. UNCHANGED <<lifecycle, writer, selector, transition, digest, approval, operation>>
    BY <1>1
  <1>12. FenceMatchesOperation' /\ ArchivedNotFenced'
    BY <1>11 DEF LInv, FenceMatchesOperation, Unfinished, ArchivedNotFenced
  <1>13. ContentsFollowApprovals' /\ ArchivedAtApprovedCoordinates'
    BY <1>11 DEF LInv, ContentsFollowApprovals, ArchivedAtApprovedCoordinates
  <1>14. QED
    BY <1>8, <1>9, <1>10, <1>12, <1>13 DEF LInv

\* An operation's row gets a new state: its project, approval, actor and
\* content stay.
LEMMA StateRewritten ==
    ASSUME LInv, NEW o \in Ops, operation[o] # NoRow,
           NEW state \in {"prepared", "filesystem_applied", "completed"},
           operation' = [operation EXCEPT ![o].state = state]
    PROVE  /\ operation' \in [Ops -> OperationRow \cup {NoRow}]
           /\ \A q \in Ops : q # o => operation'[q] = operation[q]
           /\ operation'[o] # NoRow /\ operation'[o].state = state
           /\ operation'[o].project = operation[o].project
           /\ operation'[o].approval = operation[o].approval
           /\ operation'[o].actor = operation[o].actor
           /\ operation'[o].content = operation[o].content
  <1> DEFINE new == [operation[o] EXCEPT !.state = state]
  <1>1. operation[o] \in OperationRow
    BY OperationShape DEF LInv
  <1>2. /\ new \in OperationRow /\ new # NoRow /\ new.state = state
        /\ new.project = operation[o].project /\ new.approval = operation[o].approval
        /\ new.actor = operation[o].actor /\ new.content = operation[o].content
    BY <1>1, NoRowLifecycleAssumption DEF OperationRow
  <1>3. operation' = [operation EXCEPT ![o] = new]
    OBVIOUS
  <1> HIDE DEF new
  <1>4. QED
    BY <1>2, <1>3 DEF LInv, LifecycleTypeOK

LEMMA CheckpointStep ==
    ASSUME LInv, NEW p \in Callers, ArchiveCheckpoint(p)
    PROVE  LInv'
  <1> DEFINE c == saga[p]
             d == [c EXCEPT !.pc = "checkpointed"]
  <1>1. /\ c.pc = "applied"
        /\ operation' = [operation EXCEPT ![c.op].state = "filesystem_applied"]
        /\ saga' = [saga EXCEPT ![p] = d]
        /\ UNCHANGED <<lifecycle, writer, selector, transition, digest, approval, yaml, files,
                       lock, writing, faults>>
        /\ TypeOK'
    BY CloudUnchanged DEF ArchiveCheckpoint, stateVars, LInv, LifecycleTypeOK
  <1>2. /\ c # NoSaga /\ c \in Saga /\ c.op \in Ops
    BY <1>1, NotIdle, SagaShape DEF LInv
  <1>3. /\ Unfinished(c.op) /\ operation[c.op].approval = c.approval
        /\ operation[c.op].actor = c.actor /\ c.found = operation[c.op].content
    BY <1>1, <1>2 DEF LInv, SagasFollowOperations
  <1>4. /\ operation' \in [Ops -> OperationRow \cup {NoRow}]
        /\ \A q \in Ops : q # c.op => operation'[q] = operation[q]
        /\ operation'[c.op] # NoRow /\ operation'[c.op].state = "filesystem_applied"
        /\ operation'[c.op].project = operation[c.op].project
        /\ operation'[c.op].approval = operation[c.op].approval
        /\ operation'[c.op].actor = operation[c.op].actor
        /\ operation'[c.op].content = operation[c.op].content
    BY <1>1, <1>2, <1>3, StateRewritten DEF Unfinished
  <1>5. /\ d \in Saga /\ d.pc = "checkpointed" /\ d.op = c.op /\ d.approval = c.approval
        /\ d.actor = c.actor /\ d.found = c.found
    BY <1>2 DEF Saga
  <1> HIDE DEF d
  <1>6. /\ saga' \in [Callers -> Saga \cup {NoSaga}] /\ saga'[p] = d
        /\ \A q \in Callers : q # p => saga'[q] = NoSaga
        /\ LocksHeld'
    BY <1>1, <1>2, <1>5, SagaGoesOn
  <1> HIDE DEF c
  <1>7. LifecycleTypeOK'
    BY <1>1, <1>4, <1>6 DEF LInv, LifecycleTypeOK
  <1>8. SagasFollowOperations'
    BY <1>1, <1>2, <1>3, <1>4, <1>5, <1>6 DEF SagasFollowOperations, Unfinished
  <1>9. \A q \in Ops :
          /\ Unfinished(q)' <=> Unfinished(q)
          /\ operation'[q] # NoRow <=> operation[q] # NoRow
          /\ operation[q] # NoRow =>
                /\ operation'[q].project = operation[q].project
                /\ operation'[q].approval = operation[q].approval
                /\ operation'[q].content = operation[q].content
                /\ operation'[q].state = "completed" <=> operation[q].state = "completed"
    BY <1>3, <1>4 DEF Unfinished
  <1>10. FenceMatchesOperation'
    BY <1>1, <1>9 DEF LInv, FenceMatchesOperation, Unfinished
  <1>11. ContentsFollowApprovals' /\ ArchivedAtApprovedCoordinates'
    <2>1. ContentsFollowApprovals'
      BY <1>1, <1>9 DEF LInv, ContentsFollowApprovals
    <2>2. ASSUME NEW o \in Ops, operation'[o] # NoRow
          PROVE  LET row == approval[operation'[o].approval] IN
                 /\ row # NoRow
                 /\ row.project = operation'[o].project
                 /\ row.consumed = o
                 /\ writer[row.project] = row.writer
                 /\ selector[row.project] = row.selector
      <3>1. /\ operation[o] # NoRow /\ operation'[o].approval = operation[o].approval
            /\ operation'[o].project = operation[o].project
        BY <1>9, <2>2
      <3>2. QED
        BY <3>1 DEF LInv, ArchivedAtApprovedCoordinates
    <2>3. UNCHANGED <<approval, writer, selector>>
      BY <1>1
    <2>4. ArchivedAtApprovedCoordinates'
      BY <2>2, <2>3 DEF ArchivedAtApprovedCoordinates
    <2>5. QED
      BY <2>1, <2>4
  <1>12. QED
    BY <1>1, <1>6, <1>7, <1>8, <1>10, <1>11 DEF LInv, ArchivedNotFenced

\* The last commit archives the project with the content of its operation.
LEMMA FinishStep ==
    ASSUME LInv, NEW p \in Callers, ArchiveFinish(p)
    PROVE  LInv'
  <1> DEFINE c == saga[p]
             s == operation[c.op].project
  <1>1. /\ c.pc = "checkpointed" /\ CanFinish(c)
        /\ lifecycle' = [lifecycle EXCEPT ![s] = "archived"]
        /\ digest' = [digest EXCEPT ![s] = c.found]
        /\ transition' = [transition EXCEPT ![s] = NoOp]
        /\ operation' = [operation EXCEPT ![c.op].state = "completed"]
        /\ lock' = Free /\ saga' = [saga EXCEPT ![p] = NoSaga]
        /\ UNCHANGED <<writer, selector, approval, yaml, files, writing, faults>>
    BY DEF ArchiveFinish, LiftFence
  <1>2. /\ c # NoSaga /\ c \in Saga /\ c.op \in Ops /\ c.found \in Content
    BY <1>1, NotIdle, SagaShape DEF LInv
  <1>3. /\ Unfinished(c.op) /\ operation[c.op].approval = c.approval
        /\ c.found = operation[c.op].content
    BY <1>1, <1>2 DEF LInv, SagasFollowOperations
  <1>4. s \in Projects /\ transition[s] = c.op /\ lifecycle[s] = "active"
    <2>1. s \in Projects
      BY <1>2, <1>3, OperationShape DEF LInv, Unfinished
    <2>2. transition[s] = c.op
      BY <1>1 DEF CanFinish
    <2>3. QED
      BY <1>2, <2>1, <2>2, NullAssumption DEF LInv, ArchivedNotFenced
  <1>5. /\ operation' \in [Ops -> OperationRow \cup {NoRow}]
        /\ \A q \in Ops : q # c.op => operation'[q] = operation[q]
        /\ operation'[c.op] # NoRow /\ operation'[c.op].state = "completed"
        /\ operation'[c.op].project = operation[c.op].project
        /\ operation'[c.op].approval = operation[c.op].approval
        /\ operation'[c.op].content = operation[c.op].content
    BY <1>1, <1>2, <1>3, StateRewritten DEF Unfinished
  <1>6. TypeOK'
    <2>1. /\ epoch' = epoch + 1 /\ leaseOp' = NoOp /\ leaseOwner' = NoActor
          /\ leaseExpires' = 0 /\ active' = [active EXCEPT ![c.op] = NoRow]
          /\ UNCHANGED <<ready, generation, journal, now, call>>
      BY DEF ArchiveFinish
    <2>2. QED
      BY <1>2, <2>1 DEF LInv, LifecycleTypeOK, TypeOK
  <1> HIDE DEF c, s
  <1>7. /\ saga' \in [Callers -> Saga \cup {NoSaga}]
        /\ \A q \in Callers : saga'[q] = NoSaga
        /\ \A w \in Writers : writing'[w] = NoProject
    <2>1. lock = p
      BY <1>2 DEF LInv, LocksHeld, c
    <2>2. QED
      BY <1>1, <2>1, OneInside DEF LInv, LifecycleTypeOK
  <1>8. /\ lifecycle' \in [Projects -> {"active", "archived"}] /\ lifecycle'[s] = "archived"
        /\ \A z \in Projects : z # s => lifecycle'[z] = lifecycle[z]
        /\ digest' \in [Projects -> Content] /\ digest'[s] = c.found
        /\ \A z \in Projects : z # s => digest'[z] = digest[z]
        /\ transition' \in [Projects -> Ops \cup {NoOp}] /\ transition'[s] = NoOp
        /\ \A z \in Projects : z # s => transition'[z] = transition[z]
    BY <1>1, <1>2, <1>4 DEF LInv, LifecycleTypeOK
  <1>9. LifecycleTypeOK'
    BY <1>1, <1>5, <1>6, <1>7, <1>8 DEF LInv, LifecycleTypeOK
  <1>10. LocksHeld' /\ SagasFollowOperations'
    BY <1>7 DEF LocksHeld, SagasFollowOperations
  <1>11. \A o \in Ops : o # c.op /\ operation[o] # NoRow => operation[o].project # s
    <2>1. ASSUME NEW o \in Ops, o # c.op, operation[o] # NoRow, operation[o].project = s
          PROVE  FALSE
      <3>1. ~Unfinished(o)
        BY <1>4, <2>1 DEF LInv, FenceMatchesOperation
      <3>2. operation[o].state = "completed"
        BY <2>1, <3>1, OperationShape DEF LInv, Unfinished
      <3>3. lifecycle[s] = "archived"
        BY <1>4, <2>1, <3>2 DEF LInv, FenceMatchesOperation
      <3>4. QED
        BY <1>4, <3>3
    <2>2. QED
      BY <2>1
  <1>12. operation[c.op].project = s /\ operation[c.op] # NoRow
    BY <1>3 DEF s, Unfinished
  <1>13. \A o \in Ops : operation[o] # NoRow => operation[o].project \in Projects
    BY OperationShape DEF LInv
  <1>14. ContentsFollowApprovals'
    <2>1. ASSUME NEW o \in Ops, operation'[o] # NoRow
          PROVE  /\ operation'[o].content = ArchivedForm(approval[operation'[o].approval].content)
                 /\ operation'[o].state = "completed" =>
                      digest'[operation'[o].project] = operation'[o].content
      <3>1. CASE o = c.op
        BY <1>3, <1>5, <1>8, <1>12, <3>1 DEF LInv, ContentsFollowApprovals
      <3>2. CASE o # c.op
        BY <1>5, <1>8, <1>11, <1>13, <2>1, <3>2 DEF LInv, ContentsFollowApprovals
      <3>3. QED
        BY <3>1, <3>2
    <2>2. QED
      BY <1>1, <2>1 DEF ContentsFollowApprovals
  <1>15. ArchivedAtApprovedCoordinates'
    <2>1. \A o \in Ops : operation'[o] # NoRow =>
            /\ operation[o] # NoRow /\ operation'[o].approval = operation[o].approval
            /\ operation'[o].project = operation[o].project
      BY <1>5, <1>12
    <2>2. UNCHANGED <<approval, writer, selector>> /\ ArchivedAtApprovedCoordinates
      BY <1>1 DEF LInv
    <2>3. QED
      BY <2>1, <2>2 DEF ArchivedAtApprovedCoordinates
  <1>16. FenceMatchesOperation'
    <2>1. ASSUME NEW z \in Projects
          PROVE  /\ \A o \in Ops : transition'[z] = o <=>
                        Unfinished(o)' /\ operation'[o].project = z
                 /\ lifecycle'[z] = "archived" <=>
                        \E o \in Ops : /\ operation'[o] # NoRow
                                       /\ operation'[o].project = z
                                       /\ operation'[o].state = "completed"
      <3>1. CASE z = s
        <4>1. \A o \in Ops : operation'[o] # NoRow /\ operation'[o].project = s <=> o = c.op
          BY <1>2, <1>5, <1>11, <1>12
        <4>2. \A o \in Ops : ~(Unfinished(o)' /\ operation'[o].project = z)
          BY <1>5, <3>1, <4>1 DEF Unfinished
        <4>3. QED
          BY <1>2, <1>5, <1>8, <3>1, <4>1, <4>2, NullAssumption
      <3>2. CASE z # s
        <4>1. transition'[z] = transition[z] /\ lifecycle'[z] = lifecycle[z]
          BY <1>8, <3>2
        <4>2. \A o \in Ops :
                  operation'[o] # NoRow /\ operation'[o].project = z <=>
                      operation[o] # NoRow /\ operation[o].project = z
          BY <1>5, <1>12, <3>2
        <4>3. \A o \in Ops : operation[o].project = z => operation'[o] = operation[o]
          BY <1>5, <1>12, <3>2
        <4>4. QED
          BY <4>1, <4>2, <4>3 DEF LInv, FenceMatchesOperation, Unfinished
      <3>3. QED
        BY <3>1, <3>2
    <2>2. QED
      BY <2>1 DEF FenceMatchesOperation
  <1>17. ArchivedNotFenced'
    BY <1>8 DEF LInv, ArchivedNotFenced
  <1>18. QED
    BY <1>9, <1>10, <1>14, <1>15, <1>16, <1>17 DEF LInv

\* Every step of an archive, a refusal or a crash.
LEMMA ArchiveStepKeeps ==
    ASSUME LInv, NEW p \in Callers, ArchiveStep(p) \/ ArchiveCrash(p)
    PROVE  LInv'
  <1>1. faults \in Nat
    BY DEF LInv, LifecycleTypeOK
  <1>2. CASE ArchiveRefuse(p)
    BY <1>1, <1>2, EndSagaStep DEF ArchiveRefuse
  <1>3. CASE ArchiveCrash(p)
    BY <1>1, <1>3, EndSagaStep DEF ArchiveCrash
  <1>4. QED
    BY <1>2, <1>3, PrepareStep, RenewStep, ApplyStep, CheckpointStep, FinishStep DEF ArchiveStep

LEMMA WritersKeep ==
    ASSUME LInv,
           \/ \E s \in Projects : DatabaseWrite(s)
           \/ \E p \in Callers, s \in Projects, o \in Ops, a \in Actors, v \in Selectors :
                SelectorUpdate(p, s, o, a, v)
           \/ \E w \in Writers : FileWriterStep(w)
    PROVE  LInv'
  <1>1. ASSUME NEW s \in Projects, DatabaseWrite(s) PROVE LInv'
    <2>1. /\ RecordProjectWrite(s)
          /\ UNCHANGED <<vars, lifecycle, selector, transition, digest, archiveVars, yaml, files,
                         lock, writing, saga, faults>>
      BY <1>1 DEF DatabaseWrite
    <2>2. selector' \in [Projects -> Selectors]
      BY <2>1 DEF LInv, LifecycleTypeOK
    <2>3. QED
      BY <2>1, <2>2, WriteSteps
  <1>2. ASSUME NEW p \in Callers, NEW s \in Projects, NEW o \in Ops, NEW a \in Actors,
               NEW v \in Selectors, SelectorUpdate(p, s, o, a, v)
        PROVE  LInv'
    <2>1. /\ RecordProjectWrite(s) /\ selector' = [selector EXCEPT ![s] = v]
          /\ UNCHANGED <<vars, lifecycle, transition, digest, archiveVars, yaml, files,
                         lock, writing, saga, faults>>
      BY <1>2 DEF SelectorUpdate
    <2>2. /\ selector' \in [Projects -> Selectors]
          /\ \A z \in Projects \ {s} : selector'[z] = selector[z]
      BY <2>1 DEF LInv, LifecycleTypeOK
    <2>3. QED
      BY <2>1, <2>2, WriteSteps
  <1>3. ASSUME NEW w \in Writers, NEW s \in Projects, FileWriteStart(w, s) PROVE LInv'
    <2>1. /\ RecordProjectWrite(s) /\ lock = Free /\ lock' = w
          /\ writing' = [writing EXCEPT ![w] = s]
          /\ UNCHANGED <<vars, lifecycle, selector, transition, digest, archiveVars, yaml, files,
                         saga, faults>>
      BY <1>3 DEF FileWriteStart
    <2>2. selector' \in [Projects -> Selectors]
      BY <2>1 DEF LInv, LifecycleTypeOK
    <2>3. QED
      BY <2>1, <2>2, WriteSteps
  <1>4. QED
    BY <1>1, <1>2, <1>3, ReleaseStep DEF FileWriterStep

LEMMA LInvNext == LInv /\ [LifecycleNext]_allVars => LInv'
  <1> SUFFICES ASSUME LInv, [LifecycleNext]_allVars PROVE LInv'
    OBVIOUS
  <1>1. CASE Tick /\ UNCHANGED lifecycleVars
    BY <1>1, CloudKeeps DEF Next
  <1>2. ASSUME NEW p \in Callers, CloudStep(p) PROVE LInv'
    BY <1>2, CloudKeeps DEF CloudStep, Next
  <1>3. CASE \E s \in Projects, b \in Bodies : ExternalEdit(s, b)
    BY <1>3, ExternalEditStep
  <1>4. CASE \E p \in Callers, a \in Approvals, s \in Projects, x \in 1 .. MaxTime + 1 :
               CreateApproval(p, a, s, x)
    BY <1>4, CreateApprovalStep
  <1>5. CASE UNCHANGED allVars
    BY <1>5, CloudKeeps DEF allVars
  <1>6. QED
    BY <1>1, <1>2, <1>3, <1>4, <1>5, ArchiveStartStep, ArchiveStepKeeps, WritersKeep
       DEF LifecycleNext

LEMMA LInvAlways == LifecycleSpec => []LInv
  BY LInvInit, LInvNext, PTL DEF LifecycleSpec

-----------------------------------------------------------------------------
(* The theorems for any number of processes.                               *)

\* The project state, its journal of writes, approvals, operations, locks and
\* sagas keep their types.
THEOREM LifecycleTypeCorrect == LifecycleSpec => []LifecycleTypeOK
  <1>1. LInv => LifecycleTypeOK
    BY DEF LInv
  <1>2. QED
    BY <1>1, LInvAlways, PTL

\* A project is fenced exactly while an archive of it is unfinished, and by
\* that archive, whatever crashes and whoever else runs.
THEOREM FencesMatch == LifecycleSpec => []FenceMatchesOperation
  <1>1. LInv => FenceMatchesOperation
    BY DEF LInv
  <1>2. QED
    BY <1>1, LInvAlways, PTL

\* From the preparation of its archive on, a project keeps the writer and the
\* selector watermark that its approval recorded, so nothing is journaled in
\* between, and the approval was consumed by this one operation.
THEOREM CoordinatesStayApproved == LifecycleSpec => []ArchivedAtApprovedCoordinates
  <1>1. LInv => ArchivedAtApprovedCoordinates
    BY DEF LInv
  <1>2. QED
    BY <1>1, LInvAlways, PTL

\* The digest recorded for an archived project is that of the approved content
\* in its archived form, however many processes archive and whatever was edited
\* meanwhile.  It says nothing of edits of the file after the archive.
THEOREM ArchivedContentIsApproved == LifecycleSpec => []ArchivedContentWasApproved
  <1>1. LInv => ArchivedContentWasApproved
    BY DEF LInv, ContentsFollowApprovals, ArchivedContentWasApproved
  <1>2. QED
    BY <1>1, LInvAlways, PTL

\* No effect of a journaled file write reaches a fenced or archived project.
THEOREM FilesStayFrozen == LifecycleSpec => FilesFrozen
  <1> DEFINE Frozen == \A s \in Projects :
                files'[s] # files[s] => transition[s] = NoOp /\ lifecycle[s] = "active"
  <1>1. ASSUME LInv, [LifecycleNext]_allVars PROVE [Frozen]_allVars
    <2>1. ASSUME NEW w \in Writers, FileWriteEnd(w) PROVE Frozen
      <3>1. writing[w] \in Projects /\ Writable(writing[w])
        BY <1>1, <2>1 DEF FileWriteEnd, ReleaseFileWrite, LInv, LifecycleTypeOK, LocksHeld
      <3>2. \A s \in Projects : files'[s] # files[s] => s = writing[w]
        BY <1>1, <2>1 DEF FileWriteEnd, LInv, LifecycleTypeOK
      <3>3. QED
        BY <1>1, <3>1, <3>2 DEF Writable, LInv, LifecycleTypeOK
    <2>2. CASE UNCHANGED files
      BY <2>2
    <2>3. QED
      <3>1. ASSUME NEW p \in Callers, ArchiveStart(p) PROVE UNCHANGED files
        BY <3>1 DEF ArchiveStart, ArchiveRead, ArchiveResume
      <3>2. ASSUME NEW p \in Callers, ArchiveStep(p) \/ ArchiveCrash(p) PROVE UNCHANGED files
        <4>1. CASE ArchivePrepare(p) \/ ArchiveRenew(p) \/ ArchiveApply(p)
          BY <4>1 DEF ArchivePrepare, ArchiveRenew, ArchiveApply
        <4>2. CASE ArchiveCheckpoint(p) \/ ArchiveFinish(p)
          BY <4>2 DEF ArchiveCheckpoint, ArchiveFinish
        <4>3. CASE ArchiveRefuse(p) \/ ArchiveCrash(p)
          BY <4>3 DEF ArchiveRefuse, ArchiveCrash, EndSaga
        <4>4. QED
          BY <3>2, <4>1, <4>2, <4>3 DEF ArchiveStep
      <3>3. CASE \E p \in Callers, s \in Projects, o \in Ops, a \in Actors, v \in Selectors :
                   SelectorUpdate(p, s, o, a, v)
        BY <2>2, <3>3 DEF SelectorUpdate
      <3>4. CASE \E p \in Callers, a \in Approvals, s \in Projects, x \in 1 .. MaxTime + 1 :
                   CreateApproval(p, a, s, x)
        BY <2>2, <3>4 DEF CreateApproval
      <3>5. CASE \/ \E s \in Projects : DatabaseWrite(s)
                 \/ \E s \in Projects, b \in Bodies : ExternalEdit(s, b)
        BY <2>2, <3>5 DEF DatabaseWrite, ExternalEdit
      <3>6. CASE \E w \in Writers : FileWriterStep(w)
        BY <2>1, <2>2, <3>6 DEF FileWriterStep, FileWriteStart, FileWriteFails
      <3>7. CASE \/ Tick /\ UNCHANGED lifecycleVars
                 \/ \E p \in Callers : CloudStep(p)
                 \/ UNCHANGED allVars
        BY <2>2, <3>7 DEF CloudStep, lifecycleVars, allVars
      <3>8. QED
        BY <1>1, <2>2, <3>1, <3>2, <3>3, <3>4, <3>5, <3>6, <3>7 DEF LifecycleNext
  <1>2. QED
    BY <1>1, LInvAlways, PTL DEF LifecycleSpec, FilesFrozen
-----------------------------------------------------------------------------
(* The invariant for a single process.                                     *)

OneProcess == \A p, q \in Callers : p = q

JournalActive(o) == journal[o] # NoRow /\ journal[o].state = "active"

LeaseFollowsRegistry ==
    \A o \in Ops :
        /\ IsActive(o) <=> leaseOp = o
        /\ IsActive(o) =>
            /\ ready
            /\ active[o].actor = leaseOwner
            /\ active[o].base = epoch
            /\ active[o].generation = generation
        /\ JournalActive(o) => IsActive(o)

ArchivesRegistered ==
    \A o \in Ops : Unfinished(o) =>
        /\ IsActive(o) /\ ~JournalActive(o)
        /\ RowMatches(active[o], ArchiveKind, operation[o].actor,
                      approval[operation[o].approval].epoch)

AcquiresCurrent ==
    \A p \in Callers : call[p].type = "acquire" =>
        LET c == call[p] IN
        /\ ready
        /\ c.epoch = epoch
        /\ c.generation = generation
        /\ c.same <=> leaseOp = c.op
        /\ NoOtherActive(c.op)

OneAtATime == \A p \in Callers : call[p] # Idle => saga[p] = NoSaga

OneInv ==
    /\ LeaseFollowsRegistry
    /\ ArchivesRegistered
    /\ AcquiresCurrent
    /\ OneAtATime

\* Whoever writes, edits, approves, begins or ends a saga leaves the control
\* alone.
LEMMA ControlKept ==
    ASSUME OneInv, UNCHANGED <<ready, epoch, generation, leaseOp, leaseOwner, active,
                                     journal, call>>,
           \A o \in Ops : Unfinished(o)' =>
              /\ Unfinished(o)
              /\ operation'[o].actor = operation[o].actor
              /\ approval'[operation'[o].approval].epoch = approval[operation[o].approval].epoch,
           OneAtATime'
    PROVE  OneInv'
  <1>1. LeaseFollowsRegistry'
    BY DEF OneInv, LeaseFollowsRegistry, IsActive, JournalActive
  <1>2. ArchivesRegistered'
    BY DEF OneInv, ArchivesRegistered, IsActive, JournalActive, RowMatches
  <1>3. AcquiresCurrent'
    BY DEF OneInv, AcquiresCurrent, NoOtherActive, IsActive
  <1>4. QED
    BY <1>1, <1>2, <1>3 DEF OneInv

LEMMA OneInvInit == LifecycleInit => OneInv
  <1> SUFFICES ASSUME LifecycleInit PROVE OneInv
    OBVIOUS
  <1>1. /\ \A o \in Ops : active[o] = NoRow /\ journal[o] = NoRow /\ operation[o] = NoRow
        /\ leaseOp = NoOp
        /\ \A p \in Callers : call[p] = Idle
    BY DEF LifecycleInit, Init
  <1>2. LeaseFollowsRegistry /\ ArchivesRegistered
    BY <1>1, NullAssumption
       DEF LeaseFollowsRegistry, ArchivesRegistered, IsActive, JournalActive, Unfinished
  <1>3. AcquiresCurrent /\ OneAtATime
    BY <1>1 DEF AcquiresCurrent, OneAtATime, Idle
  <1>4. QED
    BY <1>2, <1>3 DEF OneInv

\* The commit of an acquire finds what it read.
LEMMA OneAcquireCommit ==
    ASSUME OneProcess, TypeOK, OneInv, NEW p \in Callers, AcquireCommit(p), saga[p] = NoSaga,
           UNCHANGED lifecycleVars
    PROVE  OneInv'
  <1> DEFINE c == call[p]
             row == RegistryRow(c)
             entry == [state |-> "active", kind |-> c.kind, actor |-> c.actor,
                       base |-> c.epoch, generation |-> GrantedGeneration(c),
                       advance |-> FALSE, result |-> 0]
  <1>1. /\ c.type = "acquire" /\ AcquireCas(c) /\ RowsForAcquire(c)
        /\ generation' = GrantedGeneration(c) /\ leaseOp' = c.op /\ leaseOwner' = c.actor
        /\ active' = [active EXCEPT ![c.op] = row]
        /\ journal' = [journal EXCEPT ![c.op] = entry]
        /\ call' = [call EXCEPT ![p] = Idle]
        /\ UNCHANGED <<ready, epoch>>
    BY DEF AcquireCommit
  <1>2. /\ TypeOK /\ c \in AcquireCall /\ c.op \in Ops
    BY <1>1, CallShapes DEF AcquireCall
  <1>3. /\ ready /\ c.epoch = epoch /\ c.generation = generation
        /\ (c.same <=> leaseOp = c.op) /\ NoOtherActive(c.op)
    BY <1>1 DEF OneInv, AcquiresCurrent
  <1>4. UNCHANGED <<operation, approval, saga>>
    BY DEF lifecycleVars, archiveVars
  <1>5. /\ row.kind = c.kind /\ row.actor = c.actor /\ row.base = c.epoch
        /\ row.generation = GrantedGeneration(c)
        /\ entry.state = "active"
    BY DEF RegistryRow
  <1>6. row # NoRow /\ entry # NoRow
    <2>1. GrantedGeneration(c) \in Nat
      BY <1>2 DEF GrantedGeneration, AcquireCall
    <2>2. row \in Row /\ entry \in JournalRow
      BY <1>2, <2>1 DEF RegistryRow, Row, JournalRow, AcquireCall
    <2>3. QED
      BY <2>2, NoRowAssumption
  <1> HIDE DEF row, entry
  <1>7. /\ active'[c.op] = row /\ journal'[c.op] = entry
        /\ \A o \in Ops : o # c.op => active'[o] = active[o] /\ journal'[o] = journal[o]
    BY <1>1, <1>2 DEF TypeOK
  <1> HIDE DEF c
  <1>8. \A o \in Ops : o # c.op => ~IsActive(o)
    BY <1>3 DEF NoOtherActive
  <1>9. LeaseFollowsRegistry'
    BY <1>1, <1>2, <1>3, <1>5, <1>6, <1>7, <1>8
       DEF OneInv, LeaseFollowsRegistry, IsActive, JournalActive
  <1>10. ~Unfinished(c.op)
    BY <1>1, <1>2 DEF OneInv, ArchivesRegistered, RowsForAcquire, JournalActive
  <1>11. \A o \in Ops : ~Unfinished(o)
    BY <1>8, <1>10 DEF OneInv, ArchivesRegistered
  <1>12. ArchivesRegistered'
    BY <1>4, <1>11 DEF ArchivesRegistered, Unfinished
  <1>13. \A q \in Callers : call'[q] = Idle
    BY <1>1, <1>2 DEF TypeOK, OneProcess
  <1>14. AcquiresCurrent' /\ OneAtATime'
    BY <1>13 DEF AcquiresCurrent, OneAtATime, Idle
  <1>15. QED
    BY <1>9, <1>12, <1>14 DEF OneInv

LEMMA OneCompleteCommit ==
    ASSUME OneProcess, TypeOK, OneInv, NEW p \in Callers, CompleteCommit(p), saga[p] = NoSaga,
           UNCHANGED lifecycleVars
    PROVE  OneInv'
  <1> DEFINE c == call[p]
  <1>1. /\ c.type = "complete" /\ CompleteCas(c) /\ RowsForComplete(c)
        /\ leaseOp' = NoOp /\ active' = [active EXCEPT ![c.op] = NoRow]
        /\ journal' = [journal EXCEPT
              ![c.op] = [@ EXCEPT !.state = "completed", !.advance = c.advance,
                                  !.result = CompletedEpoch(c)]]
        /\ call' = [call EXCEPT ![p] = Idle]
        /\ UNCHANGED <<ready, generation>>
    BY DEF CompleteCommit
  <1>2. TypeOK /\ c \in CompleteCall /\ c.op \in Ops
    BY <1>1, CallShapes DEF CompleteCall
  <1>3. UNCHANGED <<operation, approval, saga>>
    BY DEF lifecycleVars, archiveVars
  <1>4. \A o \in Ops : IsActive(o) => o = c.op
    BY <1>1 DEF OneInv, LeaseFollowsRegistry, CompleteCas
  <1>5. ~Unfinished(c.op)
    BY <1>1, <1>2 DEF OneInv, ArchivesRegistered, RowsForComplete, JournalActive
  <1>6. journal'[c.op].state = "completed"
    <2> DEFINE new == [journal[c.op] EXCEPT !.state = "completed", !.advance = c.advance,
                                            !.result = CompletedEpoch(c)]
    <2>1. journal[c.op] \in JournalRow
      BY <1>1, <1>2 DEF TypeOK, RowsForComplete
    <2>2. new.state = "completed"
      BY <2>1 DEF JournalRow
    <2>3. journal' = [journal EXCEPT ![c.op] = new]
      BY <1>1
    <2> HIDE DEF new
    <2>4. QED
      BY <1>2, <2>2, <2>3 DEF TypeOK
  <1>7. /\ active'[c.op] = NoRow
        /\ \A o \in Ops : o # c.op => active'[o] = active[o] /\ journal'[o] = journal[o]
    BY <1>1, <1>2 DEF TypeOK
  <1>8. \A q \in Callers : call'[q] = Idle
    BY <1>1, <1>2 DEF TypeOK, OneProcess
  <1> HIDE DEF c
  <1>9. LeaseFollowsRegistry'
    BY <1>1, <1>2, <1>4, <1>6, <1>7, NullAssumption
       DEF OneInv, LeaseFollowsRegistry, IsActive, JournalActive
  <1>10. \A o \in Ops : ~Unfinished(o)
    BY <1>4, <1>5 DEF OneInv, ArchivesRegistered
  <1>11. ArchivesRegistered'
    BY <1>3, <1>10 DEF ArchivesRegistered, Unfinished
  <1>12. AcquiresCurrent' /\ OneAtATime'
    BY <1>8 DEF AcquiresCurrent, OneAtATime, Idle
  <1>13. QED
    BY <1>9, <1>11, <1>12 DEF OneInv

LEMMA OneActivate ==
    ASSUME OneProcess, TypeOK, OneInv, NEW p \in Callers, NEW bootstrap \in BOOLEAN,
           Activate(p, bootstrap), saga[p] = NoSaga, UNCHANGED lifecycleVars
    PROVE  OneInv'
  <1>1. /\ call[p] = Idle /\ UNCHANGED <<generation, leaseOp, leaseOwner, active, journal, call>>
        /\ \A o \in Ops : ~IsActive(o)
    BY DEF Activate
  <1>2. UNCHANGED <<operation, approval, saga>>
    BY DEF lifecycleVars, archiveVars
  <1>3. LeaseFollowsRegistry'
    BY <1>1 DEF OneInv, LeaseFollowsRegistry, IsActive, JournalActive
  <1>4. ArchivesRegistered'
    BY <1>1, <1>2 DEF OneInv, ArchivesRegistered, Unfinished
  <1>5. \A q \in Callers : call'[q] = Idle
    BY <1>1 DEF OneProcess
  <1>6. AcquiresCurrent' /\ OneAtATime'
    BY <1>5 DEF AcquiresCurrent, OneAtATime, Idle
  <1>7. QED
    BY <1>3, <1>4, <1>6 DEF OneInv

\* A call that reads, gives up or waits for the clock.
LEMMA OneReaders ==
    ASSUME OneProcess, TypeOK, OneInv, NEW p \in Callers, saga[p] = NoSaga,
           UNCHANGED lifecycleVars,
           \/ \E o \in Ops, k \in Kinds, a \in Actors, x \in 1 .. MaxTime + 1 :
                AcquireRead(p, o, k, a, x)
           \/ \E o \in Ops, a \in Actors, adv \in BOOLEAN : CompleteRead(p, o, a, adv)
           \/ Rollback(p)
    PROVE  OneInv'
  <1>1. UNCHANGED <<operation, approval, saga>>
    BY DEF lifecycleVars, archiveVars
  <1>2. UNCHANGED <<ready, epoch, generation, leaseOp, leaseOwner, active, journal>>
    BY DEF AcquireRead, CompleteRead, Rollback, cloudVars, controlVars
  <1>3. LeaseFollowsRegistry' /\ ArchivesRegistered'
    BY <1>1, <1>2
       DEF OneInv, LeaseFollowsRegistry, ArchivesRegistered, IsActive, JournalActive, Unfinished,
           RowMatches
  <1>4. \A q \in Callers : q = p
    BY DEF OneProcess
  <1>5. OneAtATime'
    BY <1>1, <1>4 DEF OneAtATime
  <1>6. call \in [Callers -> {Idle} \cup AcquireCall \cup CompleteCall]
    BY DEF TypeOK
  <1>7. ASSUME NEW o \in Ops, NEW k \in Kinds, NEW a \in Actors, NEW x \in 1 .. MaxTime + 1,
               AcquireRead(p, o, k, a, x)
        PROVE  AcquiresCurrent'
    <2> DEFINE c == [type |-> "acquire", op |-> o, kind |-> k, actor |-> a,
                     epoch |-> epoch, generation |-> generation,
                     same |-> leaseOp = o, renew |-> IsActive(o),
                     now |-> now, expires |-> x]
    <2>1. call'[p] = c /\ ready /\ NoOtherActive(o)
      BY <1>6, <1>7 DEF AcquireRead
    <2>2. /\ c.op = o /\ c.epoch = epoch /\ c.generation = generation
          /\ c.same <=> leaseOp = o
      OBVIOUS
    <2> HIDE DEF c
    <2>3. NoOtherActive(o)'
      BY <1>2, <2>1 DEF NoOtherActive, IsActive
    <2>4. QED
      BY <1>2, <1>4, <2>1, <2>2, <2>3 DEF AcquiresCurrent, NoOtherActive
  <1>8. ASSUME NEW o \in Ops, NEW a \in Actors, NEW adv \in BOOLEAN, CompleteRead(p, o, a, adv)
        PROVE  AcquiresCurrent'
    <2>1. call'[p].type = "complete"
      BY <1>6, <1>8 DEF CompleteRead
    <2>2. QED
      BY <1>4, <2>1 DEF AcquiresCurrent
  <1>9. ASSUME Rollback(p) PROVE AcquiresCurrent'
    <2>1. call'[p] = Idle
      BY <1>6, <1>9 DEF Rollback
    <2>2. call'[p].type = "idle"
      BY <2>1 DEF Idle
    <2>3. QED
      BY <1>4, <2>2 DEF AcquiresCurrent
  <1>10. QED
    BY <1>3, <1>5, <1>7, <1>8, <1>9 DEF OneInv

\* The clock, and every step of a call of a cloud route.
LEMMA OneCloud ==
    ASSUME OneProcess, TypeOK, OneInv,
           \/ Tick /\ UNCHANGED lifecycleVars
           \/ \E p \in Callers : CloudStep(p)
    PROVE  OneInv'
  <1>1. CASE Tick /\ UNCHANGED lifecycleVars
    <2>1. UNCHANGED <<operation, approval, saga, ready, epoch, generation, leaseOp, leaseOwner,
                      active, journal, call>>
      BY <1>1 DEF Tick, lifecycleVars, archiveVars, cloudVars, controlVars
    <2>2. OneAtATime'
      BY <2>1 DEF OneInv, OneAtATime
    <2>3. QED
      BY <2>1, <2>2, ControlKept DEF Unfinished
  <1>2. ASSUME NEW p \in Callers, CloudStep(p) PROVE OneInv'
    BY <1>2, OneAcquireCommit, OneCompleteCommit, OneActivate, OneReaders
       DEF CloudStep, CallStart, CallEnd
  <1>3. QED
    BY <1>1, <1>2

-----------------------------------------------------------------------------
(* The archive, in a single process.                                       *)

\* A process that serves a saga serves no call, and there is no other one.
LEMMA NoCalls ==
    ASSUME OneProcess, OneInv, NEW p \in Callers, saga[p] # NoSaga
    PROVE  \A q \in Callers : call[q] = Idle
  BY DEF OneProcess, OneInv, OneAtATime

\* The commit of a lease for an archive, new or renewed.
LEMMA OneTakeLease ==
    ASSUME OneProcess, LInv, OneInv, NEW p \in Callers, saga[p] # NoSaga, NEW c \in Saga,
           TakeLease(c), NoOtherActive(c.op), ready,
           leaseOp \in {NoOp, c.op}, approval[c.approval].epoch \in Nat,
           epoch = approval[c.approval].epoch, ~JournalActive(c.op),
           \A o \in Ops : o # c.op => (Unfinished(o)' => Unfinished(o)),
           operation'[c.op].actor = c.actor,
           approval'[operation'[c.op].approval].epoch = approval[c.approval].epoch
    PROVE  OneInv'
  <1> DEFINE row == ArchiveRow(c)
  <1>1. /\ generation' = c.generation /\ leaseOp' = c.op /\ leaseOwner' = c.actor
        /\ active' = [active EXCEPT ![c.op] = row]
        /\ UNCHANGED <<ready, epoch, journal, call>>
    BY DEF TakeLease
  <1>2. c.op \in Ops /\ c.actor \in Actors /\ c.generation \in Nat
    BY DEF Saga
  <1>3. /\ row.kind = ArchiveKind /\ row.actor = c.actor
        /\ row.base = approval[c.approval].epoch /\ row.generation = c.generation
    BY DEF ArchiveRow
  <1>4. row # NoRow
    <2>1. row \in Row
      BY <1>2, KindAssumption DEF ArchiveRow, Row
    <2>2. QED
      BY <2>1, NoRowAssumption
  <1> HIDE DEF row
  <1>5. active'[c.op] = row /\ \A o \in Ops : o # c.op => active'[o] = active[o]
    BY <1>1, <1>2 DEF LInv, LifecycleTypeOK, TypeOK
  <1>6. \A o \in Ops : o # c.op => ~IsActive(o) /\ ~JournalActive(o) /\ ~Unfinished(o)
    BY DEF NoOtherActive, OneInv, LeaseFollowsRegistry, ArchivesRegistered
  <1>7. LeaseFollowsRegistry'
    BY <1>1, <1>2, <1>3, <1>4, <1>5, <1>6
       DEF OneInv, LeaseFollowsRegistry, IsActive, JournalActive
  <1>8. ArchivesRegistered'
    <2>1. ASSUME NEW o \in Ops, Unfinished(o)'
          PROVE  /\ active'[o] # NoRow /\ ~JournalActive(o)'
                 /\ RowMatches(active'[o], ArchiveKind, operation'[o].actor,
                               approval'[operation'[o].approval].epoch)
      <3>1. o = c.op
        BY <1>6, <2>1
      <3>2. QED
        BY <1>1, <1>3, <1>4, <1>5, <3>1 DEF RowMatches, JournalActive
    <2>2. QED
      BY <2>1 DEF ArchivesRegistered, IsActive, RowMatches
  <1>9. \A q \in Callers : call'[q] = Idle
    BY <1>1, NoCalls
  <1>10. AcquiresCurrent' /\ OneAtATime'
    BY <1>9 DEF AcquiresCurrent, OneAtATime, Idle
  <1>11. QED
    BY <1>7, <1>8, <1>10 DEF OneInv

LEMMA OnePrepare ==
    ASSUME OneProcess, LInv, OneInv, NEW p \in Callers, ArchivePrepare(p)
    PROVE  OneInv'
  <1> DEFINE c == saga[p]
             a == c.approval
             row == [project |-> approval[a].project, approval |-> a, actor |-> c.actor,
                     content |-> ArchivedForm(c.found), state |-> "prepared"]
  <1>1. /\ c.pc = "reserving" /\ CanPrepare(c) /\ TakeLease(c)
        /\ approval' = [approval EXCEPT ![a].consumed = c.op]
        /\ operation' = [operation EXCEPT ![c.op] = row]
    BY DEF ArchivePrepare
  <1>2. /\ c # NoSaga /\ c \in Saga /\ c.op \in Ops /\ a \in Approvals
    BY <1>1, NotIdle, SagaShape DEF LInv
  <1>3. approval[a] # NoRow
    BY <1>1, <1>2 DEF LInv, SagasFollowOperations
  <1>4. approval[a] \in ApprovalRow /\ approval[a].epoch \in Nat
    BY <1>2, <1>3, ApprovalShape DEF LInv
  <1>5. /\ epoch = approval[a].epoch /\ ready /\ leaseOp = NoOp /\ NothingActive
    BY <1>1 DEF CanPrepare, PrepareControlCas
  <1>6. NoOtherActive(c.op) /\ ~JournalActive(c.op)
    BY <1>2, <1>5 DEF NothingActive, NoOtherActive, OneInv, LeaseFollowsRegistry
  <1>7. row.actor = c.actor /\ row.approval = a
    OBVIOUS
  <1> DEFINE spent == [approval[a] EXCEPT !.consumed = c.op]
  <1>8. spent.epoch = approval[a].epoch
    BY <1>4 DEF ApprovalRow
  <1>9. approval' = [approval EXCEPT ![a] = spent]
    BY <1>1
  <1> HIDE DEF row, spent
  <1>10. /\ operation'[c.op] = row /\ \A o \in Ops : o # c.op => operation'[o] = operation[o]
         /\ approval'[a] = spent
    BY <1>1, <1>2, <1>9 DEF LInv, LifecycleTypeOK
  <1>11. \A o \in Ops : o # c.op => (Unfinished(o)' => Unfinished(o))
    BY <1>10 DEF Unfinished
  <1> HIDE DEF c, a
  <1>12. QED
    <2>1. c = saga[p] /\ a = c.approval
      BY DEF c, a
    <2>2. QED
      BY <1>1, <1>2, <1>4, <1>5, <1>6, <1>7, <1>8, <1>10, <1>11, <2>1, OneTakeLease

LEMMA OneRenew ==
    ASSUME OneProcess, LInv, OneInv, NEW p \in Callers, ArchiveRenew(p)
    PROVE  OneInv'
  <1> DEFINE c == saga[p]
  <1>1. /\ c.pc = "resuming" /\ CanRenew(c) /\ TakeLease(c)
        /\ UNCHANGED <<operation, approval>>
    BY DEF ArchiveRenew, archiveVars
  <1>2. c # NoSaga /\ c \in Saga /\ c.op \in Ops /\ c.approval \in Approvals
    BY <1>1, NotIdle, SagaShape DEF LInv
  <1>3. /\ Unfinished(c.op) /\ operation[c.op].approval = c.approval
        /\ operation[c.op].actor = c.actor
    BY <1>1, <1>2 DEF LInv, SagasFollowOperations
  <1>4. approval[c.approval] # NoRow
    BY <1>2, <1>3 DEF LInv, ArchivedAtApprovedCoordinates, Unfinished
  <1>5. approval[c.approval].epoch \in Nat
    BY <1>2, <1>4, ApprovalShape DEF LInv
  <1>6. epoch = approval[c.approval].epoch /\ IsActive(c.op) /\ leaseOp \in {NoOp, c.op}
    BY <1>1 DEF CanRenew
  <1>7. ready /\ NoOtherActive(c.op) /\ ~JournalActive(c.op)
    BY <1>2, <1>3, <1>6 DEF OneInv, LeaseFollowsRegistry, NoOtherActive, ArchivesRegistered
  <1>8. \A o \in Ops : Unfinished(o)' => Unfinished(o)
    BY <1>1 DEF Unfinished
  <1>9. QED
    BY <1>1, <1>2, <1>3, <1>5, <1>6, <1>7, <1>8, OneTakeLease

LEMMA OneFinish ==
    ASSUME OneProcess, LInv, OneInv, NEW p \in Callers, ArchiveFinish(p)
    PROVE  OneInv'
  <1> DEFINE c == saga[p]
  <1>1. /\ c.pc = "checkpointed" /\ CanFinish(c)
        /\ operation' = [operation EXCEPT ![c.op].state = "completed"]
        /\ active' = [active EXCEPT ![c.op] = NoRow]
        /\ leaseOp' = NoOp
        /\ UNCHANGED <<ready, generation, journal, call, approval>>
    BY DEF ArchiveFinish
  <1>2. c # NoSaga /\ c \in Saga /\ c.op \in Ops
    BY <1>1, NotIdle, SagaShape DEF LInv
  <1>3. Unfinished(c.op)
    BY <1>1, <1>2 DEF LInv, SagasFollowOperations
  <1>4. ~JournalActive(c.op)
    BY <1>2, <1>3 DEF OneInv, ArchivesRegistered
  <1>5. \A o \in Ops : o # c.op => ~IsActive(o) /\ ~JournalActive(o) /\ ~Unfinished(o)
    BY <1>1 DEF CanFinish, NoOtherActive, OneInv, LeaseFollowsRegistry, ArchivesRegistered
  <1>6. /\ active'[c.op] = NoRow /\ \A o \in Ops : o # c.op => active'[o] = active[o]
    BY <1>1, <1>2 DEF LInv, LifecycleTypeOK, TypeOK
  <1>7. /\ operation'[c.op].state = "completed"
        /\ \A o \in Ops : o # c.op => operation'[o] = operation[o]
    BY <1>1, <1>2, <1>3, StateRewritten DEF Unfinished
  <1>8. \A q \in Callers : call'[q] = Idle
    BY <1>1, <1>2, NoCalls
  <1> HIDE DEF c
  <1>9. LeaseFollowsRegistry'
    BY <1>1, <1>2, <1>4, <1>5, <1>6, NullAssumption
       DEF LeaseFollowsRegistry, IsActive, JournalActive
  <1>10. ArchivesRegistered'
    BY <1>5, <1>7 DEF ArchivesRegistered, Unfinished
  <1>11. AcquiresCurrent' /\ OneAtATime'
    BY <1>8 DEF AcquiresCurrent, OneAtATime, Idle
  <1>12. QED
    BY <1>9, <1>10, <1>11 DEF OneInv

\* The steps between the commits, the ends without one, and all that is no
\* step of the control or of an archive: the control stays, and the process
\* still serves one call or one saga.
LEMMA OthersServeOne ==
    ASSUME OneProcess, OneInv, saga = [q \in Callers |-> saga[q]],
           \/ \E p \in Callers : ArchiveStart(p) \/ ArchiveApply(p) \/ ArchiveCheckpoint(p)
                                 \/ ArchiveRefuse(p) \/ ArchiveCrash(p)
           \/ \E p \in Callers, a \in Approvals, s \in Projects, x \in 1 .. MaxTime + 1 :
                CreateApproval(p, a, s, x)
           \/ \E p \in Callers, s \in Projects, o \in Ops, a \in Actors, v \in Selectors :
                SelectorUpdate(p, s, o, a, v)
           \/ \E s \in Projects : DatabaseWrite(s)
           \/ \E w \in Writers : FileWriterStep(w)
           \/ \E s \in Projects, b \in Bodies : ExternalEdit(s, b)
           \/ UNCHANGED allVars
    PROVE  UNCHANGED vars /\ OneAtATime'
  <1>1. ASSUME UNCHANGED <<call, saga>> PROVE OneAtATime'
    BY <1>1 DEF OneInv, OneAtATime
  <1>2. ASSUME NEW p \in Callers, call'[p] = Idle \/ saga'[p] = NoSaga PROVE OneAtATime'
    BY <1>2 DEF OneAtATime, OneProcess
  <1>3. ASSUME NEW p \in Callers, ArchiveStart(p) PROVE UNCHANGED vars /\ OneAtATime'
    <2>1. UNCHANGED vars /\ call'[p] = Idle
      BY <1>3 DEF ArchiveStart, ArchiveRead, ArchiveResume, ProcessIdle, vars
    <2>2. QED
      BY <1>2, <2>1
  <1>4. ASSUME NEW p \in Callers, ArchiveApply(p) \/ ArchiveCheckpoint(p)
        PROVE  UNCHANGED vars /\ OneAtATime'
    <2>1. UNCHANGED vars /\ saga[p] # NoSaga
      BY <1>4, NotIdle DEF ArchiveApply, ArchiveCheckpoint
    <2>2. call'[p] = Idle
      BY <2>1, NoCalls DEF vars
    <2>3. QED
      BY <1>2, <2>1, <2>2
  <1>5. ASSUME NEW p \in Callers, ArchiveRefuse(p) \/ ArchiveCrash(p)
        PROVE  UNCHANGED vars /\ OneAtATime'
    <2>1. UNCHANGED vars /\ saga' = [saga EXCEPT ![p] = NoSaga]
      BY <1>5 DEF ArchiveRefuse, ArchiveCrash, EndSaga
    <2>2. saga'[p] = NoSaga
      BY <2>1
    <2>3. QED
      BY <1>2, <2>1, <2>2
  <1>6. CASE \/ \E p \in Callers, a \in Approvals, s \in Projects, x \in 1 .. MaxTime + 1 :
                  CreateApproval(p, a, s, x)
             \/ \E p \in Callers, s \in Projects, o \in Ops, a \in Actors, v \in Selectors :
                  SelectorUpdate(p, s, o, a, v)
             \/ \E s \in Projects : DatabaseWrite(s)
             \/ \E s \in Projects, b \in Bodies : ExternalEdit(s, b)
    <2>1. UNCHANGED <<vars, saga>>
      BY <1>6 DEF CreateApproval, SelectorUpdate, DatabaseWrite, ExternalEdit
    <2>2. QED
      BY <1>1, <2>1 DEF vars
  <1>7. CASE (\E w \in Writers : FileWriterStep(w)) \/ UNCHANGED allVars
    <2>1. UNCHANGED <<vars, saga>>
      BY <1>7 DEF FileWriterStep, FileWriteStart, FileWriteEnd, FileWriteFails,
           ReleaseFileWrite, allVars, lifecycleVars
    <2>2. QED
      BY <1>1, <2>1 DEF vars
  <1>8. QED
    BY <1>3, <1>4, <1>5, <1>6, <1>7

\* They keep the archives in work as they are registered.
LEMMA OneOthers ==
    ASSUME OneProcess, LInv, OneInv,
           \/ \E p \in Callers : ArchiveStart(p) \/ ArchiveApply(p) \/ ArchiveCheckpoint(p)
                                 \/ ArchiveRefuse(p) \/ ArchiveCrash(p)
           \/ \E p \in Callers, a \in Approvals, s \in Projects, x \in 1 .. MaxTime + 1 :
                CreateApproval(p, a, s, x)
           \/ \E p \in Callers, s \in Projects, o \in Ops, a \in Actors, v \in Selectors :
                SelectorUpdate(p, s, o, a, v)
           \/ \E s \in Projects : DatabaseWrite(s)
           \/ \E w \in Writers : FileWriterStep(w)
           \/ \E s \in Projects, b \in Bodies : ExternalEdit(s, b)
           \/ UNCHANGED allVars
    PROVE  OneInv'
  <1>1. UNCHANGED vars /\ OneAtATime'
    <2>1. saga = [q \in Callers |-> saga[q]]
      BY DEF LInv, LifecycleTypeOK
    <2>2. QED
      BY <2>1, OthersServeOne
  <1>2. UNCHANGED <<ready, epoch, generation, leaseOp, leaseOwner, active, journal, call>>
    BY <1>1 DEF vars, cloudVars, controlVars
  <1>3. CASE UNCHANGED <<operation, approval>>
    BY <1>1, <1>2, <1>3, ControlKept DEF Unfinished
  <1>4. ASSUME NEW p \in Callers, ArchiveCheckpoint(p) PROVE OneInv'
    <2> DEFINE c == saga[p]
    <2>1. /\ c.pc = "applied" /\ UNCHANGED approval
          /\ operation' = [operation EXCEPT ![c.op].state = "filesystem_applied"]
      BY <1>4 DEF ArchiveCheckpoint
    <2>2. c # NoSaga /\ c.op \in Ops
      BY <2>1, NotIdle, SagaShape DEF LInv
    <2>3. Unfinished(c.op)
      BY <2>1, <2>2 DEF LInv, SagasFollowOperations
    <2>4. /\ \A o \in Ops : o # c.op => operation'[o] = operation[o]
          /\ operation'[c.op].approval = operation[c.op].approval
          /\ operation'[c.op].actor = operation[c.op].actor
      BY <2>1, <2>2, <2>3, StateRewritten DEF Unfinished
    <2>5. \A o \in Ops : Unfinished(o)' =>
            /\ Unfinished(o)
            /\ operation'[o].actor = operation[o].actor
            /\ approval'[operation'[o].approval].epoch = approval[operation[o].approval].epoch
      BY <2>1, <2>3, <2>4 DEF Unfinished
    <2>6. QED
      BY <1>1, <1>2, <2>5, ControlKept
  <1>5. ASSUME NEW p \in Callers, NEW a \in Approvals, NEW s \in Projects,
               NEW x \in 1 .. MaxTime + 1, CreateApproval(p, a, s, x)
        PROVE  OneInv'
    <2>1. /\ approval[a] = NoRow /\ UNCHANGED operation
          /\ \A b \in Approvals : b # a => approval'[b] = approval[b]
      BY <1>5 DEF CreateApproval, LInv, LifecycleTypeOK
    <2>2. \A o \in Ops : Unfinished(o)' =>
            /\ Unfinished(o)
            /\ operation'[o].actor = operation[o].actor
            /\ approval'[operation'[o].approval] = approval[operation[o].approval]
      BY <2>1, OperationShape DEF LInv, ArchivedAtApprovedCoordinates, Unfinished
    <2>3. QED
      BY <1>1, <1>2, <2>2, ControlKept
  <1>6. CASE \E p \in Callers : ArchiveStart(p) \/ ArchiveApply(p) \/ ArchiveRefuse(p)
                                \/ ArchiveCrash(p)
    <2>1. \A p \in Callers : ArchiveStart(p) => UNCHANGED <<operation, approval>>
      BY DEF ArchiveStart, ArchiveRead, ArchiveResume, archiveVars
    <2>2. \A p \in Callers : ArchiveApply(p) \/ ArchiveRefuse(p) \/ ArchiveCrash(p) =>
                UNCHANGED <<operation, approval>>
      BY DEF ArchiveApply, ArchiveRefuse, ArchiveCrash, EndSaga, archiveVars
    <2>3. QED
      BY <1>3, <1>6, <2>1, <2>2
  <1>7. CASE \/ \E p \in Callers, s \in Projects, o \in Ops, a \in Actors, v \in Selectors :
                  SelectorUpdate(p, s, o, a, v)
             \/ \E s \in Projects : DatabaseWrite(s)
             \/ \E s \in Projects, b \in Bodies : ExternalEdit(s, b)
             \/ UNCHANGED allVars
    <2>1. UNCHANGED <<operation, approval>>
      BY <1>7 DEF SelectorUpdate, DatabaseWrite, ExternalEdit, archiveVars, allVars,
         lifecycleVars
    <2>2. QED
      BY <1>3, <2>1
  <1>8. CASE \E w \in Writers : FileWriterStep(w)
    <2>1. UNCHANGED <<operation, approval>>
      BY <1>8 DEF FileWriterStep, FileWriteStart, FileWriteEnd, FileWriteFails,
           ReleaseFileWrite, archiveVars
    <2>2. QED
      BY <1>3, <2>1
  <1>9. QED
    BY <1>4, <1>5, <1>6, <1>7, <1>8

LEMMA OneInvNext ==
    ASSUME OneProcess
    PROVE  LInv /\ OneInv /\ [LifecycleNext]_allVars => OneInv'
  <1>1. LInv => TypeOK
    BY DEF LInv, LifecycleTypeOK
  <1>2. QED
    BY <1>1, OneCloud, OnePrepare, OneRenew, OneFinish, OneOthers DEF LifecycleNext, ArchiveStep

LEMMA OneInvAlways ==
    ASSUME OneProcess
    PROVE  LifecycleSpec => []OneInv
  BY LInvAlways, OneInvInit, OneInvNext, PTL DEF LifecycleSpec

-----------------------------------------------------------------------------
(* The theorems for a single process.                                      *)

\* Within one process an archive that was interrupted anywhere can be resumed
\* by its actor.
THEOREM RecoveryStaysPossible ==
    ASSUME OneProcess
    PROVE  LifecycleSpec => []RecoveryPossible
  <1>1. ASSUME LInv, OneInv PROVE RecoveryPossible
    <2>1. ASSUME NEW o \in Ops, Unfinished(o)
          PROVE  Resumable(o, operation[o].actor)
      <3>1. operation[o].project \in Projects
        BY <1>1, <2>1, OperationShape DEF LInv, Unfinished
      <3>2. transition[operation[o].project] = o
        BY <1>1, <2>1, <3>1 DEF LInv, FenceMatchesOperation
      <3>3. /\ IsActive(o)
            /\ RowMatches(active[o], ArchiveKind, operation[o].actor,
                          approval[operation[o].approval].epoch)
        BY <1>1, <2>1 DEF OneInv, ArchivesRegistered
      <3>4. leaseOp = o /\ leaseOwner = operation[o].actor /\ active[o].generation = generation
        BY <1>1, <2>1, <3>3 DEF OneInv, LeaseFollowsRegistry, RowMatches
      <3>5. NoOtherActive(o)
        BY <1>1, <3>4 DEF OneInv, LeaseFollowsRegistry, NoOtherActive
      <3>6. QED
        BY <2>1, <3>2, <3>3, <3>4, <3>5 DEF Resumable
    <2>2. QED
      BY <2>1 DEF RecoveryPossible
  <1>2. QED
    BY <1>1, LInvAlways, OneInvAlways, PTL

\* Every commit of a route or an archive begins, renews or ends the one change.
LEMMA LifecycleRefines ==
    ASSUME TypeOK, OneInv, \A p \in Callers : saga[p] # NoSaga => saga[p].op \in Ops,
           [LifecycleNext]_allVars
    PROVE  [Exclusive!Next]_(Exclusive!vars)
  <1>1. ASSUME UNCHANGED vars PROVE [Exclusive!Next]_(Exclusive!vars)
    BY <1>1 DEF vars, cloudVars, controlVars, Exclusive!vars
  <1>2. ASSUME NEW p \in Callers, AcquireCommit(p) PROVE [Exclusive!Next]_(Exclusive!vars)
    <2> DEFINE c == call[p]
    <2>1. c.type = "acquire" /\ leaseOp' = c.op /\ UNCHANGED <<ready, epoch>>
      BY <1>2 DEF AcquireCommit
    <2>2. c.op \in Ops /\ ready /\ NoOtherActive(c.op)
      BY <2>1, CallShapes
         DEF AcquireCall, OneInv, AcquiresCurrent
    <2>3. leaseOp \in Ops \cup {NoOp}
      BY DEF TypeOK
    <2>4. leaseOp = NoOp \/ leaseOp = c.op
      BY <2>2, <2>3 DEF NoOtherActive, OneInv, LeaseFollowsRegistry
    <2>5. QED
      BY <2>1, <2>2, <2>4 DEF Exclusive!Next, Exclusive!Begin, Exclusive!vars
  <1>3. ASSUME NEW p \in Callers, CompleteCommit(p) PROVE [Exclusive!Next]_(Exclusive!vars)
    <2> DEFINE c == call[p]
    <2>1. /\ c.type = "complete" /\ leaseOp = c.op /\ c.epoch = epoch
          /\ leaseOp' = NoOp /\ epoch' = CompletedEpoch(c) /\ UNCHANGED ready
      BY <1>3 DEF CompleteCommit, CompleteCas
    <2>2. c.op \in Ops
      BY <2>1, CallShapes DEF CompleteCall
    <2>3. epoch' \in {epoch, epoch + 1}
      BY <2>1 DEF CompletedEpoch
    <2>4. QED
      BY <2>1, <2>2, <2>3 DEF Exclusive!Next, Exclusive!Finish
  <1>4. ASSUME NEW p \in Callers, CloudStep(p) PROVE [Exclusive!Next]_(Exclusive!vars)
    <2>1. ASSUME NEW bootstrap \in BOOLEAN, Activate(p, bootstrap)
          PROVE  [Exclusive!Next]_(Exclusive!vars)
      BY <2>1 DEF Activate, Exclusive!Next, Exclusive!Activate
    <2>2. CASE UNCHANGED cloudVars
      BY <2>2 DEF cloudVars, controlVars, Exclusive!vars
    <2>3. QED
      BY <1>2, <1>3, <1>4, <2>1, <2>2
         DEF CloudStep, CallStart, CallEnd, AcquireRead, CompleteRead, Rollback
  <1>5. ASSUME NEW p \in Callers, ArchivePrepare(p) PROVE [Exclusive!Next]_(Exclusive!vars)
    <2>1. /\ saga[p].pc = "reserving" /\ leaseOp' = saga[p].op /\ UNCHANGED <<ready, epoch>>
          /\ ready /\ leaseOp = NoOp
      BY <1>5 DEF ArchivePrepare, TakeLease, CanPrepare, PrepareControlCas
    <2>2. saga[p].op \in Ops
      BY <2>1, NotIdle
    <2>3. QED
      BY <2>1, <2>2 DEF Exclusive!Next, Exclusive!Begin
  <1>6. ASSUME NEW p \in Callers, ArchiveRenew(p) PROVE [Exclusive!Next]_(Exclusive!vars)
    <2>1. /\ saga[p].pc = "resuming" /\ leaseOp' = saga[p].op /\ UNCHANGED <<ready, epoch>>
          /\ IsActive(saga[p].op)
      BY <1>6 DEF ArchiveRenew, TakeLease, CanRenew
    <2>2. saga[p].op \in Ops
      BY <2>1, NotIdle
    <2>3. leaseOp = saga[p].op
      BY <2>1, <2>2 DEF OneInv, LeaseFollowsRegistry
    <2>4. QED
      BY <2>1, <2>3 DEF Exclusive!vars
  <1>7. ASSUME NEW p \in Callers, ArchiveFinish(p) PROVE [Exclusive!Next]_(Exclusive!vars)
    <2>1. /\ saga[p].pc = "checkpointed" /\ leaseOp = saga[p].op /\ leaseOp' = NoOp
          /\ epoch' = epoch + 1 /\ UNCHANGED ready
      BY <1>7 DEF ArchiveFinish, CanFinish, StillHoldsLease
    <2>2. saga[p].op \in Ops
      BY <2>1, NotIdle
    <2>3. QED
      BY <2>1, <2>2 DEF Exclusive!Next, Exclusive!Finish
  <1>8. CASE Tick
    BY <1>8 DEF Tick, cloudVars, controlVars, Exclusive!vars
  <1>9. ASSUME NEW p \in Callers, ArchiveStart(p) PROVE UNCHANGED vars
    BY <1>9 DEF ArchiveStart, ArchiveRead, ArchiveResume
  <1>10. ASSUME NEW p \in Callers, ArchiveStep(p) \/ ArchiveCrash(p)
         PROVE  [Exclusive!Next]_(Exclusive!vars)
    <2>1. CASE ArchiveApply(p) \/ ArchiveCheckpoint(p)
      BY <1>1, <2>1 DEF ArchiveApply, ArchiveCheckpoint
    <2>2. CASE ArchiveRefuse(p) \/ ArchiveCrash(p)
      BY <1>1, <2>2 DEF ArchiveRefuse, ArchiveCrash, EndSaga
    <2>3. QED
      BY <1>5, <1>6, <1>7, <1>10, <2>1, <2>2 DEF ArchiveStep
  <1>11. CASE \/ \E p \in Callers, s \in Projects, o \in Ops, a \in Actors, v \in Selectors :
                   SelectorUpdate(p, s, o, a, v)
              \/ \E p \in Callers, a \in Approvals, s \in Projects, x \in 1 .. MaxTime + 1 :
                   CreateApproval(p, a, s, x)
    BY <1>1, <1>11 DEF SelectorUpdate, CreateApproval
  <1>12. CASE \/ \E s \in Projects : DatabaseWrite(s)
              \/ \E s \in Projects, b \in Bodies : ExternalEdit(s, b)
              \/ UNCHANGED allVars
    BY <1>1, <1>12 DEF DatabaseWrite, ExternalEdit, allVars
  <1>13. ASSUME NEW w \in Writers, FileWriterStep(w) PROVE UNCHANGED vars
    BY <1>13 DEF FileWriterStep, FileWriteStart, FileWriteEnd, FileWriteFails, ReleaseFileWrite
  <1>14. QED
    BY <1>1, <1>4, <1>8, <1>9, <1>10, <1>11, <1>12, <1>13 DEF LifecycleNext

\* Within one process archives and the other protected changes together are
\* one exclusive change at a time.
THEOREM RefinementWithArchives ==
    ASSUME OneProcess
    PROVE  LifecycleSpec => ImplementsExclusiveChangeWithArchives
  <1>1. LifecycleInit => Exclusive!Init
    BY DEF LifecycleInit, Init, Exclusive!Init
  <1>2. ASSUME LInv, OneInv, [LifecycleNext]_allVars
        PROVE  [Exclusive!Next]_(Exclusive!vars)
    <2>1. TypeOK /\ \A p \in Callers : saga[p] # NoSaga => saga[p].op \in Ops
      BY <1>2, SagaShape DEF LInv, LifecycleTypeOK
    <2>2. QED
      BY <1>2, <2>1, LifecycleRefines
  <1>3. QED
    BY <1>1, <1>2, LInvAlways, OneInvAlways, PTL
       DEF LifecycleSpec, ImplementsExclusiveChangeWithArchives, Exclusive!Spec
=============================================================================
