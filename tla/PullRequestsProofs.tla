--------------------------- MODULE PullRequestsProofs ---------------------------
(***************************************************************************)
(* Machine-checked proofs about PullRequests, for every set of tasks, pull *)
(* requests, processes and attempts and for every bound.  The invariant is *)
(* Sound, the conjunction of                                               *)
(*   - Typed: the types, the unique index, and that the row a process      *)
(*     works on is there and belongs to its task;                          *)
(*   - RepoSafe: what a merge knows of its commit, of the base it started  *)
(*     from and of the two copies of the target;                           *)
(*   - WorkDone: merged, completed and confirmed mean that the work is in  *)
(*     Solid, the part of the target that never shrinks;                   *)
(*   - Clean: what holds as long as there is no fault.                     *)
(* The properties follow from it; none of them is inductive by itself: a   *)
(* refused push takes commits out of the local target, so that a step that *)
(* looks harmless would break them without what the merge knows.           *)
(***************************************************************************)
EXTENDS PullRequests, TLAPS

\* The parts of the type invariant, each with what it takes to keep it.
RowsTyped ==
    /\ status \in [Tasks -> TaskStatuses]
    /\ prs \in [Prs -> PrRow \cup {NoPr}]
    /\ \A r, s \in Prs :
        prs[r] # NoPr /\ prs[s] # NoPr /\ prs[r].task = prs[s].task
        /\ {prs[r].status, prs[s].status} \subseteq ActiveStatuses => r = s

RepoTyped ==
    /\ head \in [Tasks -> 0 .. MaxCommits]
    /\ tested \subseteq Commits
    /\ local \in Contents /\ origin \in Contents /\ outside \subseteq Commits

ProcsTyped ==
    /\ ledger \in [Attempts -> Receipt]
    /\ procs \in [Processes -> Process \cup {Idle}]
    /\ \A q \in Processes :
        procs[q] \in FreshMerge \cup CheckedMerge =>
            /\ q = Merger
            /\ procs[q].attempt # NoAttempt =>
                ledger[procs[q].attempt] = [task |-> procs[q].task, stage |-> "intent"]
    /\ stale \subseteq {q \in Processes : procs[q] # Idle}

RestTyped ==
    exempt \subseteq Tasks /\ requests \in 0 .. MaxRequests /\ faults \in 0 .. MaxFaults

\* The pull request a process works on is there and belongs to its task.
RowsKnown ==
    \A q \in Processes : procs[q] \in PrRequest \cup CheckedMerge =>
        prs[procs[q].pr] \in PrRow /\ prs[procs[q].pr].task = procs[q].task

Typed == RowsTyped /\ RepoTyped /\ ProcsTyped /\ RestTyped /\ RowsKnown

LEMMA TypedImpliesTypeOK == Typed => PrTypeOK
  BY DEF Typed, RowsTyped, RepoTyped, ProcsTyped, RestTyped, PrTypeOK

-----------------------------------------------------------------------------
(* What a process at a step is, and what becomes of the processes.         *)

\* A process at a step has the record of that step.
LEMMA Shapes ==
    ASSUME ProcsTyped, NEW q \in Processes
    PROVE  /\ At(q, "transition") => procs[q] \in TaskRequest
           /\ At(q, "handoff") => procs[q] \in HandoffRequest
           /\ \A step \in {"submit", "close", "changes"} : At(q, step) => procs[q] \in PrRequest
           /\ At(q, "check") => procs[q] \in FreshMerge
           /\ At(q, "fail") => procs[q] \in FreshMerge \cup CheckedMerge
           /\ \A step \in MergeSteps \ {"check", "fail"} : At(q, step) => procs[q] \in CheckedMerge
           /\ \A step \in MergeSteps : At(q, step) => q = Merger
  <1>1. procs[q] \in Process \cup {Idle}
    BY DEF ProcsTyped
  <1>2. CASE procs[q] = Idle
    BY <1>2 DEF At
  <1>3. CASE procs[q] \in PrRequest
    BY <1>3 DEF At, PrRequest, MergeSteps, GitSteps
  <1>4. CASE procs[q] \in TaskRequest
    BY <1>4 DEF At, TaskRequest, MergeSteps, GitSteps
  <1>5. CASE procs[q] \in HandoffRequest
    BY <1>5 DEF At, HandoffRequest, MergeSteps, GitSteps
  <1>6. CASE procs[q] \in FreshMerge
    BY <1>6 DEF At, FreshMerge, MergeSteps, GitSteps, ProcsTyped
  <1>7. CASE procs[q] \in CheckedMerge
    BY <1>7 DEF At, CheckedMerge, MergeSteps, GitSteps, ProcsTyped
  <1>8. QED
    BY <1>1, <1>2, <1>3, <1>4, <1>5, <1>6, <1>7 DEF Process

LEMMA RequestsAreNotMerges ==
    (PrRequest \cup TaskRequest \cup HandoffRequest) \cap (FreshMerge \cup CheckedMerge) = {}
  BY DEF PrRequest, TaskRequest, HandoffRequest, FreshMerge, CheckedMerge, MergeSteps, GitSteps

LEMMA FreshIsNotChecked == FreshMerge \cap CheckedMerge = {}
  <1>1. \A merge \in FreshMerge : "pr" \notin DOMAIN merge
    BY DEF FreshMerge
  <1>2. \A merge \in CheckedMerge : "pr" \in DOMAIN merge
    BY DEF CheckedMerge
  <1>3. QED
    BY <1>1, <1>2

\* A process takes up a request that is no merge.
LEMMA RequestBegins ==
    ASSUME ProcsTyped, NEW q \in Processes, procs[q] = Idle,
           NEW new \in PrRequest \cup TaskRequest \cup HandoffRequest,
           procs' = [procs EXCEPT ![q] = new], UNCHANGED <<ledger, stale>>
    PROVE  ProcsTyped'
  <1>1. new \in Process /\ new # Idle
    BY IdleAssumption DEF Process
  <1>2. QED
    BY <1>1, RequestsAreNotMerges DEF ProcsTyped

\* The merge goes on with the same attempt at the same task.
LEMMA MergeGoesOn ==
    ASSUME ProcsTyped, procs[Merger] \in FreshMerge \cup CheckedMerge,
           NEW new \in FreshMerge \cup CheckedMerge,
           new.attempt = procs[Merger].attempt, new.task = procs[Merger].task,
           procs' = [procs EXCEPT ![Merger] = new],
           UNCHANGED ledger, stale' \subseteq {q \in Processes : procs[q] # Idle}
    PROVE  ProcsTyped'
  <1>1. new \in Process /\ new # Idle
    BY IdleAssumption DEF Process
  <1>2. QED
    BY <1>1, MergerAssumption DEF ProcsTyped

\* A process is done; a receipt may change with it, but only its own.
LEMMA ProcessEnds ==
    ASSUME ProcsTyped, NEW q \in Processes, Leave(q),
           stale' \subseteq {p \in Processes \ {q} : procs[p] # Idle},
           ledger' \in [Attempts -> Receipt],
           \/ UNCHANGED ledger
           \/ /\ procs[q] \in FreshMerge \cup CheckedMerge
              /\ \A a \in Attempts : a # procs[q].attempt => ledger'[a] = ledger[a]
    PROVE  ProcsTyped'
  <1>1. procs' \in [Processes -> Process \cup {Idle}]
    BY DEF ProcsTyped, Leave
  <1>2. stale' \subseteq {p \in Processes : procs'[p] # Idle}
    BY DEF ProcsTyped, Leave
  <1>3. ASSUME NEW p \in Processes, procs'[p] \in FreshMerge \cup CheckedMerge
        PROVE  /\ p = Merger
               /\ procs'[p].attempt # NoAttempt =>
                   ledger'[procs'[p].attempt] = [task |-> procs'[p].task, stage |-> "intent"]
    <2>1. p # q
      BY <1>3, IdleAssumption DEF Leave, ProcsTyped, Process
    <2>2. procs'[p] = procs[p] /\ p = Merger
      BY <1>3, <2>1 DEF Leave, ProcsTyped
    <2>3. UNCHANGED ledger
      BY <2>1, <2>2 DEF ProcsTyped
    <2>4. QED
      BY <1>3, <2>2, <2>3 DEF ProcsTyped
  <1>4. QED
    BY <1>1, <1>2, <1>3 DEF ProcsTyped

-----------------------------------------------------------------------------
(* What becomes of the rows.                                               *)

\* Whoever writes tasks makes stale only processes that work.
LEMMA TasksWritten ==
    ASSUME ProcsTyped, NEW q \in Processes, NEW new, NEW annotated, WriteTasks(new, annotated, q)
    PROVE  /\ stale' \subseteq {p \in Processes \ {q} : procs[p] # Idle}
           /\ status' = new
  BY DEF WriteTasks, Touched, ProcsTyped

LEMMA NoTasksWritten ==
    ASSUME ProcsTyped, NEW q \in Processes, NoTaskWritten(q)
    PROVE  /\ stale' \subseteq {p \in Processes \ {q} : procs[p] # Idle}
           /\ status' = status
  BY DEF NoTaskWritten, ProcsTyped

\* A pull request that becomes active takes a task without an active one, or was active.
LEMMA StatusSet ==
    ASSUME RowsTyped, NEW r \in Prs, prs[r] \in PrRow, NEW s \in ActiveStatuses \cup {"merged", "closed"},
           s \in ActiveStatuses => MayBeActive(r) \/ prs[r].status \in ActiveStatuses,
           SetPr(r, s), status' \in [Tasks -> TaskStatuses]
    PROVE  RowsTyped'
  <1>1. prs' \in [Prs -> PrRow \cup {NoPr}] /\ prs'[r] \in PrRow
    BY DEF RowsTyped, SetPr, PrRow
  <1>2. prs'[r].task = prs[r].task /\ prs'[r].status = s /\ \A x \in Prs \ {r} : prs'[x] = prs[x]
    BY DEF RowsTyped, SetPr, PrRow
  <1>3. ASSUME NEW x \in Prs \ {r}, prs[x] # NoPr, prs[x].task = prs[r].task,
               prs[x].status \in ActiveStatuses
        PROVE  s \notin ActiveStatuses
    BY <1>3, NoPrAssumption DEF RowsTyped, MayBeActive, Is
  <1>4. QED
    BY <1>1, <1>2, <1>3 DEF RowsTyped

\* A change of status loses no row.
LEMMA RowsSurvive ==
    ASSUME RowsTyped, NEW r \in Prs, prs[r] \in PrRow, NEW s \in ActiveStatuses \cup {"merged", "closed"},
           SetPr(r, s)
    PROVE  \A x \in Prs : prs[x] \in PrRow => prs'[x] \in PrRow /\ prs'[x].task = prs[x].task
  BY DEF RowsTyped, SetPr, PrRow

\* Known rows stay known to the processes that do not take up another one.
LEMMA RowsStayKnown ==
    ASSUME Typed, NEW q \in Processes, procs' \in [Processes -> Process \cup {Idle}],
           \A p \in Processes \ {q} : procs'[p] = procs[p],
           \A r \in Prs : prs[r] \in PrRow => prs'[r] \in PrRow /\ prs'[r].task = prs[r].task,
           procs'[q] \in PrRequest \cup CheckedMerge =>
             prs[procs'[q].pr] \in PrRow /\ prs[procs'[q].pr].task = procs'[q].task
    PROVE  RowsKnown'
  <1>1. SUFFICES ASSUME NEW p \in Processes, procs'[p] \in PrRequest \cup CheckedMerge
                 PROVE  prs'[procs'[p].pr] \in PrRow /\ prs'[procs'[p].pr].task = procs'[p].task
    BY DEF RowsKnown
  <1>2. procs'[p].pr \in Prs
    BY <1>1 DEF PrRequest, CheckedMerge
  <1>3. prs[procs'[p].pr] \in PrRow /\ prs[procs'[p].pr].task = procs'[p].task
    BY <1>1 DEF Typed, RowsKnown
  <1>4. QED
    BY <1>2, <1>3

\* A merge past its checks goes on to another step; no row is lost.
LEMMA CheckedMergeGoesOn ==
    ASSUME Typed, procs[Merger] \in CheckedMerge, NEW step \in MergeSteps \ {"check"},
           GoTo(Merger, step), UNCHANGED ledger,
           stale' \subseteq {q \in Processes : procs[q] # Idle},
           \A r \in Prs : prs[r] \in PrRow => prs'[r] \in PrRow /\ prs'[r].task = prs[r].task
    PROVE  ProcsTyped' /\ RowsKnown'
  <1> DEFINE new == [procs[Merger] EXCEPT !.step = step]
  <1>1. new \in CheckedMerge /\ new.attempt = procs[Merger].attempt
        /\ new.task = procs[Merger].task /\ new.pr = procs[Merger].pr
    BY DEF CheckedMerge
  <1>2. procs' = [procs EXCEPT ![Merger] = new]
    BY DEF GoTo
  <1>3. ProcsTyped'
    <2> HIDE DEF new
    <2> QED BY <1>1, <1>2, MergeGoesOn DEF Typed
  <1>4. procs' \in [Processes -> Process \cup {Idle}]
    BY <1>3 DEF ProcsTyped
  <1>5. \A p \in Processes \ {Merger} : procs'[p] = procs[p]
    BY <1>2 DEF Typed, ProcsTyped
  <1>6. procs'[Merger] = new
    BY <1>2, MergerAssumption DEF Typed, ProcsTyped
  <1>7. prs[new.pr] \in PrRow /\ prs[new.pr].task = new.task
    BY <1>1, MergerAssumption DEF Typed, RowsKnown
  <1>8. RowsKnown'
    <2> HIDE DEF new
    <2> QED BY <1>4, <1>5, <1>6, <1>7, RowsStayKnown, MergerAssumption
  <1>9. QED
    BY <1>3, <1>8

\* A process that ends, or takes up a task, leaves no row unknown.
LEMMA RowsKnownAtEnd ==
    ASSUME Typed, NEW q \in Processes, Leave(q),
           \A r \in Prs : prs[r] \in PrRow => prs'[r] \in PrRow /\ prs'[r].task = prs[r].task
    PROVE  RowsKnown'
  <1>1. procs' \in [Processes -> Process \cup {Idle}] /\ procs'[q] = Idle
        /\ \A p \in Processes \ {q} : procs'[p] = procs[p]
    BY DEF Leave, Typed, ProcsTyped
  <1>2. procs'[q] \notin PrRequest \cup CheckedMerge
    BY <1>1, IdleAssumption DEF Process
  <1>3. QED
    BY <1>1, <1>2, RowsStayKnown

-----------------------------------------------------------------------------
(* Type correctness.                                                       *)

LEMMA TypedInit == Init => Typed
  <1> SUFFICES ASSUME Init PROVE Typed
    OBVIOUS
  <1> USE BoundAssumption, InitialAssumption DEF Init
  <1>1. RowsTyped
    BY DEF RowsTyped
  <1>2. RepoTyped
    BY DEF RepoTyped, Contents
  <1>3. ProcsTyped
    BY IdleAssumption DEF ProcsTyped, Receipt, Process
  <1>4. RestTyped
    BY DEF RestTyped
  <1>5. RowsKnown
    BY IdleAssumption DEF RowsKnown, Process
  <1>6. QED
    BY <1>1, <1>2, <1>3, <1>4, <1>5 DEF Typed

LEMMA TypedStep ==
    ASSUME Typed, Next
    PROVE  Typed'
  <1> USE MergerAssumption, BoundAssumption DEF Typed
  <1>1. ASSUME NEW t \in Tasks, NEW r \in Prs, StartBranch(t, r)
        PROVE  Typed'
    <2> USE <1>1 DEF StartBranch
    <2>1. RowsTyped'
      BY DEF RowsTyped, PrRow, HasActive, Is, ActiveStatuses
    <2>2. RepoTyped' /\ RestTyped'
      BY DEF RepoTyped, RestTyped, repo, Request
    <2>3. ProcsTyped'
      BY DEF ProcsTyped
    <2>4. RowsKnown'
      BY NoPrAssumption DEF RowsTyped, RowsKnown
    <2>5. QED
      BY <2>1, <2>2, <2>3, <2>4
  <1>2. ASSUME NEW t \in Tasks, Commit(t) \/ \E n \in 1 .. MaxCommits : ChecksPass(t, n)
        PROVE  Typed'
    <2>1. NoRequest
      BY <1>2 DEF Commit, ChecksPass
    <2>2. RowsTyped' /\ ProcsTyped' /\ RestTyped' /\ RowsKnown'
      BY <2>1 DEF NoRequest, RowsTyped, ProcsTyped, RestTyped, RowsKnown
    <2>3. Commit(t) => RepoTyped'
      BY DEF Commit, RepoTyped
    <2>4. ASSUME NEW n \in 1 .. MaxCommits, ChecksPass(t, n)
          PROVE  RepoTyped'
      BY <2>4 DEF ChecksPass, RepoTyped, Commits
    <2>5. QED
      BY <1>2, <2>2, <2>3, <2>4
  <1>3. ASSUME NEW x \in Externals, PushByOthers(x)
        PROVE  Typed'
    <2> USE <1>3 DEF PushByOthers, NoRequest
    <2>1. RowsTyped' /\ ProcsTyped' /\ RestTyped' /\ RowsKnown'
      BY DEF RowsTyped, ProcsTyped, RestTyped, RowsKnown
    <2>2. RepoTyped'
      BY DEF RepoTyped, Contents
    <2>3. QED
      BY <2>1, <2>2
  <1>4. ASSUME NEW q \in Processes, NEW r \in Prs, NEW step \in {"submit", "close", "changes"},
               ReadPr(q, r, step)
        PROVE  Typed'
    <2> USE <1>4 DEF ReadPr
    <2> DEFINE new == [step |-> step, pr |-> r, task |-> prs[r].task]
    <2>1. RowsTyped' /\ RepoTyped' /\ RestTyped'
      BY DEF RowsTyped, RepoTyped, RestTyped, repo, Request
    <2>2. prs[r] \in PrRow /\ new \in PrRequest
      BY DEF RowsTyped, Is, PrRow, PrRequest
    <2>3. ProcsTyped'
      BY <2>2, RequestBegins
    <2>4. RowsKnown'
      BY <2>2, <2>3, RowsStayKnown DEF ProcsTyped
    <2>5. QED
      BY <2>1, <2>3, <2>4
  <1>5. ASSUME NEW q \in Processes, NEW t \in Tasks, NEW s \in TaskStatuses, ReadTask(q, t, s)
        PROVE  Typed'
    <2> USE <1>5 DEF ReadTask
    <2> DEFINE new == [step |-> "transition", task |-> t, to |-> s]
    <2>1. RowsTyped' /\ RepoTyped' /\ RestTyped'
      BY DEF RowsTyped, RepoTyped, RestTyped, repo, Request
    <2>2. new \in TaskRequest /\ new \notin PrRequest \cup CheckedMerge
      BY DEF TaskRequest, PrRequest, CheckedMerge, MergeSteps, GitSteps
    <2>3. ProcsTyped'
      BY <2>2, RequestBegins
    <2>4. RowsKnown'
      BY <2>2, <2>3, RowsStayKnown DEF ProcsTyped
    <2>5. QED
      BY <2>1, <2>3, <2>4
  <1>6. ASSUME NEW q \in Processes, WritePr(q)
        PROVE  Typed'
    <2> USE <1>6 DEF WritePr
    <2> DEFINE r == procs[q].pr
               t == procs[q].task
               step == procs[q].step
    <2>1. procs[q] \in PrRequest /\ procs[q] # Idle /\ Leave(q)
      BY Shapes DEF At
    <2>2. prs[r] \in PrRow /\ r \in Prs /\ t \in Tasks
      BY <2>1 DEF RowsKnown, PrRequest
    <2>3. RepoTyped' /\ RestTyped' /\ ledger' = ledger
      BY DEF RepoTyped, RestTyped, repo
    <2>4. CASE MayBecome(t, TaskAfter(step)) /\ (step = "submit" => MayBeActive(r))
      <3>1. SetPr(r, PrAfter(r, step))
            /\ WriteTasks([status EXCEPT ![t] = TaskAfter(step)],
                          IF step = "submit" THEN {} ELSE {t}, q)
        BY <2>4
      <3>2. status' = [status EXCEPT ![t] = TaskAfter(step)]
            /\ stale' \subseteq {p \in Processes \ {q} : procs[p] # Idle}
        BY <3>1, TasksWritten
      <3>3. status' \in [Tasks -> TaskStatuses]
        BY <2>2, <3>2 DEF RowsTyped, TaskAfter, TaskStatuses
      <3>4. PrAfter(r, step) \in ActiveStatuses \cup {"merged", "closed"}
            /\ (PrAfter(r, step) \in ActiveStatuses =>
                  MayBeActive(r) \/ prs[r].status \in ActiveStatuses)
        BY <2>1, <2>2, <2>4 DEF PrAfter, PrRow, ActiveStatuses, PrRequest
      <3>5. RowsTyped'
        BY <2>2, <3>1, <3>3, <3>4, StatusSet
      <3>6. ProcsTyped'
        BY <2>1, <2>3, <3>2, ProcessEnds DEF ProcsTyped
      <3>7. \A x \in Prs : prs[x] \in PrRow => prs'[x] \in PrRow /\ prs'[x].task = prs[x].task
        BY <2>2, <3>1, <3>4, RowsSurvive
      <3>8. RowsKnown'
        BY <2>1, <3>7, RowsKnownAtEnd
      <3>9. QED
        BY <2>3, <3>5, <3>6, <3>8
    <2>5. CASE ~(MayBecome(t, TaskAfter(step)) /\ (step = "submit" => MayBeActive(r)))
      <3>1. NoTaskWritten(q) /\ UNCHANGED prs
        BY <2>5
      <3>2. status' = status /\ stale' \subseteq {p \in Processes \ {q} : procs[p] # Idle}
        BY <3>1, NoTasksWritten
      <3>3. ProcsTyped'
        BY <2>1, <2>3, <3>2, ProcessEnds DEF ProcsTyped
      <3>4. RowsTyped' /\ RowsKnown'
        BY <2>1, <3>1, <3>2, RowsKnownAtEnd DEF RowsTyped
      <3>5. QED
        BY <2>3, <3>3, <3>4
    <2>6. QED
      BY <2>4, <2>5
  <1>7. ASSUME NEW q \in Processes, WriteTask(q) \/ WriteHandoff(q)
        PROVE  Typed'
    <2> USE <1>7 DEF WriteTask, WriteHandoff
    <2>1. Leave(q)
      OBVIOUS
    <2>2. status' \in [Tasks -> TaskStatuses]
          /\ stale' \subseteq {p \in Processes \ {q} : procs[p] # Idle}
      <3>1. CASE WriteTask(q) /\ q \in stale
        BY <3>1, NoTasksWritten DEF RowsTyped
      <3>2. CASE WriteTask(q) /\ q \notin stale
        <4>1. WriteTasks([status EXCEPT ![procs[q].task] = procs[q].to], {}, q)
              /\ procs[q] \in TaskRequest
          BY <3>2, Shapes
        <4>2. status' = [status EXCEPT ![procs[q].task] = procs[q].to]
              /\ stale' \subseteq {p \in Processes \ {q} : procs[p] # Idle}
          BY <4>1, TasksWritten
        <4>3. QED
          BY <4>1, <4>2 DEF RowsTyped, TaskRequest
      <3>3. CASE WriteHandoff(q)
        <4>1. status' = [status EXCEPT ![procs[q].task] = "completed"]
              /\ stale' \subseteq {p \in Processes \ {q} : procs[p] # Idle}
          BY <3>3, TasksWritten
        <4>2. QED
          BY <4>1 DEF RowsTyped, TaskStatuses
      <3>4. QED
        BY <3>1, <3>2, <3>3
    <2>3. ledger' = ledger /\ prs' = prs
      OBVIOUS
    <2>4. RowsTyped' /\ RepoTyped' /\ RestTyped'
      BY <2>2 DEF RowsTyped, RepoTyped, RestTyped, repo
    <2>5. ProcsTyped'
      BY <2>1, <2>2, <2>3, ProcessEnds DEF ProcsTyped
    <2>6. RowsKnown'
      BY <2>1, <2>3, RowsKnownAtEnd
    <2>7. QED
      BY <2>4, <2>5, <2>6
  <1>8. ASSUME NEW q \in Processes, Crash(q)
        PROVE  Typed'
    <2> USE <1>8 DEF Crash
    <2>1. status' = status /\ stale' \subseteq {p \in Processes \ {q} : procs[p] # Idle}
      BY NoTasksWritten
    <2>2. Leave(q) /\ ledger' = ledger /\ prs' = prs
      OBVIOUS
    <2>3. RowsTyped' /\ RepoTyped' /\ RestTyped'
      BY <2>1 DEF RowsTyped, RepoTyped, RestTyped, repo
    <2>4. ProcsTyped'
      BY <2>1, <2>2, ProcessEnds DEF ProcsTyped
    <2>5. RowsKnown'
      BY <2>2, RowsKnownAtEnd
    <2>6. QED
      BY <2>3, <2>4, <2>5
  <1>9. ASSUME NEW t \in Tasks, NEW a \in Attempts, MergeIntent(t, a)
        PROVE  Typed'
    <2> USE <1>9 DEF MergeIntent
    <2> DEFINE new == [step |-> "check", task |-> t, attempt |-> a]
    <2>1. RowsTyped' /\ RepoTyped' /\ RestTyped'
      BY DEF RowsTyped, RepoTyped, RestTyped, repo
    <2>2. new \in FreshMerge /\ new \in Process /\ new # Idle /\ new \notin PrRequest \cup CheckedMerge
      BY IdleAssumption DEF FreshMerge, Process, PrRequest, CheckedMerge
    <2>3. ledger' \in [Attempts -> Receipt] /\ ledger'[a] = [task |-> t, stage |-> "intent"]
      BY DEF ProcsTyped, Receipt
    <2>4. ProcsTyped'
      BY <2>2, <2>3 DEF ProcsTyped
    <2>5. RowsKnown'
      BY <2>2, <2>4, RowsStayKnown DEF ProcsTyped
    <2>6. QED
      BY <2>1, <2>4, <2>5
  <1>10. ASSUME NEW r \in Prs, MergeRead(r)
         PROVE  Typed'
    <2> USE <1>10 DEF MergeRead
    <2> DEFINE t == procs[Merger].task
               new == [step |-> "guard", task |-> t, attempt |-> procs[Merger].attempt,
                       pr |-> r, commit |-> <<t, head[t]>>, base |-> {}]
    <2>1. procs[Merger] \in FreshMerge
      BY Shapes
    <2>2. RowsTyped' /\ RepoTyped' /\ RestTyped'
      BY DEF RowsTyped, RepoTyped, RestTyped, repo
    <2>3. <<t, head[t]>> \in Commits /\ prs[r] \in PrRow /\ prs[r].task = t
      BY <2>1 DEF FreshMerge, Commits, RepoTyped, RowsTyped, Is
    <2>4. new \in CheckedMerge
      BY <2>1, <2>3 DEF FreshMerge, CheckedMerge, MergeSteps, Contents
    <2>5. procs' = [procs EXCEPT ![Merger] = new] /\ UNCHANGED <<ledger, stale, prs>>
      OBVIOUS
    <2> HIDE DEF new
    <2>6. new.attempt = procs[Merger].attempt /\ new.task = t /\ new.pr = r
      BY DEF new
    <2>7. ProcsTyped'
      BY <2>1, <2>4, <2>5, <2>6, MergeGoesOn DEF ProcsTyped
    <2>8. procs'[Merger] = new /\ \A p \in Processes \ {Merger} : procs'[p] = procs[p]
      BY <2>5 DEF ProcsTyped
    <2>9. RowsKnown'
      BY <2>3, <2>5, <2>6, <2>7, <2>8, RowsStayKnown DEF ProcsTyped
    <2>10. QED
      BY <2>2, <2>7, <2>9
  <1>11. ASSUME MergeRefused
         PROVE  Typed'
    <2> USE <1>11 DEF MergeRefused
    <2>1. RowsTyped' /\ RepoTyped' /\ RestTyped'
      BY DEF RowsTyped, RepoTyped, RestTyped, repo
    <2>2. CASE At(Merger, "guard")
      <3>1. procs[Merger] \in CheckedMerge
        BY <2>2, Shapes DEF MergeSteps
      <3>2. ProcsTyped' /\ RowsKnown'
        BY <3>1, CheckedMergeGoesOn DEF ProcsTyped, MergeSteps
      <3>3. QED
        BY <2>1, <3>2
    <2>3. CASE At(Merger, "check")
      <3> DEFINE new == [procs[Merger] EXCEPT !.step = "fail"]
      <3>1. procs[Merger] \in FreshMerge
        BY <2>3, Shapes
      <3>2. new \in FreshMerge /\ new.attempt = procs[Merger].attempt /\ new.task = procs[Merger].task
        BY <3>1 DEF FreshMerge
      <3>3. procs' = [procs EXCEPT ![Merger] = new] /\ UNCHANGED <<ledger, stale, prs>>
        BY DEF GoTo
      <3> HIDE DEF new
      <3>4. new \notin PrRequest \cup CheckedMerge
        BY <3>2, RequestsAreNotMerges, FreshIsNotChecked
      <3>5. ProcsTyped'
        BY <3>1, <3>2, <3>3, MergeGoesOn DEF ProcsTyped
      <3>6. procs'[Merger] = new /\ \A p \in Processes \ {Merger} : procs'[p] = procs[p]
        BY <3>3 DEF ProcsTyped
      <3>7. RowsKnown'
        BY <3>3, <3>4, <3>5, <3>6, RowsStayKnown DEF ProcsTyped
      <3>8. QED
        BY <2>1, <3>5, <3>7
    <2>4. QED
      BY <2>2, <2>3
  <1>12. ASSUME MergeLock
         PROVE  Typed'
    <2> USE <1>12 DEF MergeLock
    <2> DEFINE r == procs[Merger].pr
    <2>1. procs[Merger] \in CheckedMerge
      BY Shapes DEF MergeSteps
    <2>2. prs[r] \in PrRow /\ r \in Prs
      BY <2>1 DEF RowsKnown, CheckedMerge
    <2>3. RepoTyped' /\ RestTyped' /\ UNCHANGED <<status, ledger, stale>>
      BY DEF RepoTyped, RestTyped, repo
    <2>4. stale' \subseteq {q \in Processes : procs[q] # Idle}
      BY <2>3 DEF ProcsTyped
    <2>5. CASE MayBeActive(r)
      <3>1. SetPr(r, "merging") /\ GoTo(Merger, "sync")
        BY <2>5
      <3>2. RowsTyped'
        BY <2>2, <2>3, <2>5, <3>1, StatusSet DEF ActiveStatuses, RowsTyped
      <3>3. ProcsTyped' /\ RowsKnown'
        BY <2>1, <2>2, <2>3, <2>4, <3>1, RowsSurvive, CheckedMergeGoesOn
           DEF ActiveStatuses, MergeSteps, GitSteps
      <3>4. QED
        BY <2>3, <3>2, <3>3
    <2>6. CASE ~MayBeActive(r)
      <3>1. UNCHANGED prs /\ GoTo(Merger, "fail")
        BY <2>6
      <3>2. RowsTyped'
        BY <2>3, <3>1 DEF RowsTyped
      <3>3. ProcsTyped' /\ RowsKnown'
        BY <2>1, <2>3, <2>4, <3>1, CheckedMergeGoesOn DEF MergeSteps
      <3>4. QED
        BY <2>3, <3>2, <3>3
    <2>7. QED
      BY <2>5, <2>6
  <1>13. ASSUME GitSync
         PROVE  Typed'
    <2> USE <1>13 DEF GitSync
    <2>1. procs[Merger] \in CheckedMerge
      BY Shapes DEF MergeSteps, GitSteps
    <2>2. RowsTyped' /\ RestTyped'
      BY DEF RowsTyped, RestTyped
    <2>3. CASE local \subseteq origin \/ origin \subseteq local
      <3> DEFINE synced == local \cup origin
                 step == IF Contains(synced, procs[Merger].commit) THEN "record" ELSE "merge"
                 new == [procs[Merger] EXCEPT !.base = synced, !.step = step]
      <3>1. procs' = [procs EXCEPT ![Merger] = new]
            /\ local' = synced /\ UNCHANGED <<prs, ledger, stale, origin, head, tested, outside>>
        BY <2>3 DEF ProcsTyped
      <3>2. synced \in Contents
        BY DEF RepoTyped, Contents
      <3>3. RepoTyped'
        BY <3>1, <3>2 DEF RepoTyped
      <3>4. new \in CheckedMerge /\ new.attempt = procs[Merger].attempt
            /\ new.task = procs[Merger].task /\ new.pr = procs[Merger].pr
        BY <2>1, <3>2 DEF CheckedMerge, MergeSteps, GitSteps
      <3> HIDE DEF new
      <3>5. ProcsTyped'
        BY <2>1, <3>1, <3>4, MergeGoesOn DEF ProcsTyped
      <3>6. procs'[Merger] = new /\ \A p \in Processes \ {Merger} : procs'[p] = procs[p]
        BY <3>1 DEF ProcsTyped
      <3>7. RowsKnown'
        BY <2>1, <3>1, <3>4, <3>5, <3>6, RowsStayKnown DEF ProcsTyped, RowsKnown
      <3>8. QED
        BY <2>2, <3>3, <3>5, <3>7
    <2>4. CASE ~(local \subseteq origin \/ origin \subseteq local)
      <3>1. GoTo(Merger, "back") /\ UNCHANGED <<prs, ledger, stale, repo>>
        BY <2>4 DEF repo
      <3>2. RepoTyped'
        BY <3>1 DEF RepoTyped, repo
      <3>3. ProcsTyped' /\ RowsKnown'
        BY <2>1, <3>1, CheckedMergeGoesOn DEF MergeSteps, ProcsTyped
      <3>4. QED
        BY <2>2, <3>2, <3>3
    <2>5. QED
      BY <2>3, <2>4
  <1>14. ASSUME GitMerge \/ GitMergeFails \/ GitPush \/ GitPushFails
         PROVE  Typed'
    <2> USE <1>14 DEF GitMerge, GitMergeFails, GitPush, GitPushFails
    <2>1. procs[Merger] \in CheckedMerge
      BY Shapes DEF MergeSteps, GitSteps
    <2>2. UNCHANGED <<status, exempt, prs, head, tested, outside, ledger, stale, requests>>
      BY DEF repo
    <2>3. RowsTyped' /\ RestTyped'
      BY <2>2 DEF RowsTyped, RestTyped
    <2>4. RepoTyped'
      BY <2>1, <2>2 DEF RepoTyped, repo, Contents, CheckedMerge, Merged, CommitMerged
    <2>5. \E step \in MergeSteps \ {"check"} : GoTo(Merger, step)
      BY DEF MergeSteps, GitSteps
    <2>6. ProcsTyped' /\ RowsKnown'
      BY <2>1, <2>2, <2>5, CheckedMergeGoesOn DEF ProcsTyped
    <2>7. QED
      BY <2>3, <2>4, <2>6
  <1>15. ASSUME MergeBack
         PROVE  Typed'
    <2> USE <1>15 DEF MergeBack
    <2> DEFINE r == procs[Merger].pr
    <2>1. procs[Merger] \in CheckedMerge
      BY Shapes DEF MergeSteps
    <2>2. prs[r] \in PrRow /\ r \in Prs
      BY <2>1 DEF RowsKnown, CheckedMerge
    <2>3. RepoTyped' /\ RestTyped' /\ UNCHANGED <<status, ledger, stale>> /\ GoTo(Merger, "fail")
      BY DEF RepoTyped, RestTyped, repo
    <2>4. stale' \subseteq {q \in Processes : procs[q] # Idle}
      BY <2>3 DEF ProcsTyped
    <2>5. CASE MayBeActive(r)
      <3>1. SetPr(r, "open")
        BY <2>5
      <3>2. RowsTyped'
        BY <2>2, <2>3, <2>5, <3>1, StatusSet DEF ActiveStatuses, RowsTyped
      <3>3. ProcsTyped' /\ RowsKnown'
        BY <2>1, <2>2, <2>3, <2>4, <3>1, RowsSurvive, CheckedMergeGoesOn
           DEF ActiveStatuses, MergeSteps
      <3>4. QED
        BY <2>3, <3>2, <3>3
    <2>6. CASE ~MayBeActive(r)
      <3>1. UNCHANGED prs
        BY <2>6
      <3>2. RowsTyped'
        BY <2>3, <3>1 DEF RowsTyped
      <3>3. ProcsTyped' /\ RowsKnown'
        BY <2>1, <2>3, <2>4, <3>1, CheckedMergeGoesOn DEF MergeSteps
      <3>4. QED
        BY <2>3, <3>2, <3>3
    <2>7. QED
      BY <2>5, <2>6
  <1>16. ASSUME MergeRecord
         PROVE  Typed'
    <2> USE <1>16 DEF MergeRecord
    <2> DEFINE r == procs[Merger].pr
    <2>1. procs[Merger] \in CheckedMerge
      BY Shapes DEF MergeSteps
    <2>2. prs[r] \in PrRow /\ r \in Prs
      BY <2>1 DEF RowsKnown, CheckedMerge
    <2>3. RepoTyped' /\ RestTyped' /\ UNCHANGED <<status, ledger, stale>>
          /\ GoTo(Merger, "sha") /\ SetPr(r, "merged")
      BY DEF RepoTyped, RestTyped, repo
    <2>4. stale' \subseteq {q \in Processes : procs[q] # Idle}
      BY <2>3 DEF ProcsTyped
    <2>5. RowsTyped'
      BY <2>2, <2>3, StatusSet DEF ActiveStatuses, RowsTyped
    <2>6. ProcsTyped' /\ RowsKnown'
      BY <2>1, <2>2, <2>3, <2>4, RowsSurvive, CheckedMergeGoesOn DEF MergeSteps
    <2>7. QED
      BY <2>3, <2>5, <2>6
  <1>17. ASSUME MergeSha
         PROVE  Typed'
    <2> USE <1>17 DEF MergeSha
    <2> DEFINE r == procs[Merger].pr
    <2>1. procs[Merger] \in CheckedMerge
      BY Shapes DEF MergeSteps
    <2>2. prs[r] \in PrRow /\ r \in Prs
      BY <2>1 DEF RowsKnown, CheckedMerge
    <2>3. RepoTyped' /\ RestTyped' /\ UNCHANGED <<status, ledger, stale>> /\ GoTo(Merger, "complete")
      BY DEF RepoTyped, RestTyped, repo
    <2>4. \A x \in Prs : prs[x] \in PrRow =>
            prs'[x] \in PrRow /\ prs'[x].task = prs[x].task /\ prs'[x].status = prs[x].status
      <3>1. prs'[r] = [prs[r] EXCEPT !.hasSha = TRUE] /\ \A x \in Prs \ {r} : prs'[x] = prs[x]
        BY <2>2 DEF RowsTyped
      <3>2. ASSUME NEW row \in PrRow
            PROVE  LET new == [row EXCEPT !.hasSha = TRUE] IN
                   new \in PrRow /\ new.task = row.task /\ new.status = row.status
        BY DEF PrRow
      <3>3. QED
        BY <2>2, <3>1, <3>2
    <2>5. \A x \in Prs : prs[x] \notin PrRow => prs'[x] = prs[x]
      BY <2>2 DEF RowsTyped
    <2>6. RowsTyped'
      <3>1. prs' \in [Prs -> PrRow \cup {NoPr}]
        BY <2>4, <2>5 DEF RowsTyped
      <3>2. \A x \in Prs : prs'[x] # NoPr =>
              prs[x] # NoPr /\ prs'[x].task = prs[x].task /\ prs'[x].status = prs[x].status
        BY <2>4, <2>5, NoPrAssumption DEF RowsTyped
      <3>3. QED
        BY <2>3, <3>1, <3>2 DEF RowsTyped
    <2>7. ProcsTyped' /\ RowsKnown'
      BY <2>1, <2>3, <2>4, CheckedMergeGoesOn DEF MergeSteps, ProcsTyped
    <2>8. QED
      BY <2>3, <2>6, <2>7
  <1>21. ASSUME MergeGuard
         PROVE  Typed'
    <2> USE <1>21 DEF MergeGuard
    <2>1. procs[Merger] \in CheckedMerge
      BY Shapes DEF MergeSteps
    <2>2. RowsTyped' /\ RepoTyped' /\ RestTyped' /\ UNCHANGED <<prs, ledger, stale>>
      BY DEF RowsTyped, RepoTyped, RestTyped, repo
    <2>3. ProcsTyped' /\ RowsKnown'
      BY <2>1, <2>2, CheckedMergeGoesOn DEF MergeSteps, ProcsTyped
    <2>4. QED
      BY <2>2, <2>3
  <1>18. ASSUME MergeComplete \/ MergeSiblings
         PROVE  Typed'
    <2> USE <1>18 DEF MergeComplete, MergeSiblings
    <2>1. procs[Merger] \in CheckedMerge
      BY Shapes DEF MergeSteps
    <2>2. RepoTyped' /\ RestTyped' /\ UNCHANGED <<prs, ledger>>
      BY DEF RepoTyped, RestTyped, repo
    <2>3. status' \in [Tasks -> TaskStatuses]
          /\ stale' \subseteq {q \in Processes : procs[q] # Idle}
      <3>1. CASE MergeComplete
        <4>1. CASE WriteTasks([status EXCEPT ![procs[Merger].task] = "completed"], {}, Merger)
          <5>1. [status EXCEPT ![procs[Merger].task] = "completed"] \in [Tasks -> TaskStatuses]
            BY DEF RowsTyped, TaskStatuses
          <5>2. QED
            BY <4>1, <5>1, TasksWritten
        <4>2. CASE NoTaskWritten(Merger)
          BY <4>2, NoTasksWritten DEF RowsTyped
        <4>3. QED
          BY <3>1, <4>1, <4>2
      <3>2. CASE MergeSiblings
        <4>1. PICK some \in SUBSET Closable(procs[Merger].task) :
                WriteTasks([s \in Tasks |-> IF s \in some THEN SiblingAfter(s) ELSE status[s]],
                           {}, Merger)
          BY <3>2
        <4>2. [s \in Tasks |-> IF s \in some THEN SiblingAfter(s) ELSE status[s]]
                \in [Tasks -> TaskStatuses]
          BY DEF RowsTyped, SiblingAfter, TaskStatuses
        <4>3. QED
          BY <4>1, <4>2, TasksWritten
      <3>3. QED
        BY <3>1, <3>2
    <2>4. RowsTyped'
      BY <2>2, <2>3 DEF RowsTyped
    <2>5. \E step \in MergeSteps \ {"check"} : GoTo(Merger, step)
      BY DEF MergeSteps
    <2>6. ProcsTyped' /\ RowsKnown'
      BY <2>1, <2>2, <2>3, <2>5, CheckedMergeGoesOn
    <2>7. QED
      BY <2>2, <2>4, <2>6
  <1>19. ASSUME MergeConfirm \/ MergeFail
         PROVE  Typed'
    <2> USE <1>19 DEF MergeConfirm, MergeFail
    <2>1. procs[Merger] \in FreshMerge \cup CheckedMerge /\ Leave(Merger)
      BY Shapes DEF MergeSteps
    <2>2. status' = status /\ stale' \subseteq {p \in Processes \ {Merger} : procs[p] # Idle}
      BY NoTasksWritten
    <2>3. RowsTyped' /\ RepoTyped' /\ RestTyped' /\ prs' = prs
      BY <2>2 DEF RowsTyped, RepoTyped, RestTyped, repo
    <2>4. procs[Merger].attempt \in Attempts \cup {NoAttempt}
      BY <2>1 DEF FreshMerge, CheckedMerge
    <2>5. ledger' \in [Attempts -> Receipt]
          /\ \A a \in Attempts : a # procs[Merger].attempt => ledger'[a] = ledger[a]
      BY <2>4 DEF Conclude, ProcsTyped, Receipt
    <2>6. ProcsTyped'
      BY <2>1, <2>2, <2>5, ProcessEnds
    <2>7. RowsKnown'
      BY <2>1, <2>3, RowsKnownAtEnd
    <2>8. QED
      BY <2>3, <2>6, <2>7
  <1>20. ASSUME Busy
         PROVE  Typed'
    <2> USE <1>20 DEF Busy
    <2>1. procs[Merger] \in CheckedMerge
      BY Shapes DEF MergeSteps
    <2>2. RowsTyped' /\ RepoTyped' /\ RestTyped' /\ UNCHANGED <<prs, ledger, stale>>
      BY DEF RowsTyped, RepoTyped, RestTyped, repo
    <2>3. ProcsTyped' /\ RowsKnown'
      BY <2>1, <2>2, CheckedMergeGoesOn DEF MergeSteps, ProcsTyped
    <2>4. QED
      BY <2>2, <2>3
  <1>22. ASSUME NEW q \in Processes, NEW t \in Tasks, PatchMode(q, t)
         PROVE  Typed'
    <2> USE <1>22 DEF PatchMode
    <2>1. status' = status /\ stale' \subseteq {p \in Processes : procs[p] # Idle}
      BY TasksWritten
    <2>2. RowsTyped' /\ RepoTyped' /\ RestTyped'
      BY <2>1 DEF RowsTyped, RepoTyped, RestTyped, repo, Request
    <2>3. ProcsTyped' /\ RowsKnown'
      BY <2>1 DEF ProcsTyped, RowsKnown
    <2>4. QED
      BY <2>2, <2>3
  <1>23. ASSUME NEW q \in Processes, NEW t \in Tasks, ReadHandoff(q, t)
         PROVE  Typed'
    <2> USE <1>23 DEF ReadHandoff
    <2> DEFINE new == [step |-> "handoff", task |-> t]
    <2>1. RowsTyped' /\ RepoTyped' /\ RestTyped'
      BY DEF RowsTyped, RepoTyped, RestTyped, repo, Request
    <2>2. new \in HandoffRequest /\ new \notin PrRequest \cup CheckedMerge
      BY DEF HandoffRequest, PrRequest, CheckedMerge, MergeSteps, GitSteps
    <2>3. ProcsTyped'
      BY <2>2, RequestBegins
    <2>4. RowsKnown'
      BY <2>2, <2>3, RowsStayKnown DEF ProcsTyped
    <2>5. QED
      BY <2>1, <2>3, <2>4
  <1>24. ASSUME NEW t \in Tasks, HookMerge(t)
         PROVE  Typed'
    <2> USE <1>24 DEF HookMerge
    <2> DEFINE new == [step |-> "check", task |-> t, attempt |-> NoAttempt]
    <2>1. RowsTyped' /\ RepoTyped' /\ RestTyped'
      BY DEF RowsTyped, RepoTyped, RestTyped, repo
    <2>2. new \in FreshMerge /\ new \in Process /\ new # Idle /\ new \notin PrRequest \cup CheckedMerge
      BY IdleAssumption DEF FreshMerge, Process, PrRequest, CheckedMerge
    <2>3. ProcsTyped'
      BY <2>2 DEF ProcsTyped
    <2>4. RowsKnown'
      BY <2>2, <2>3, RowsStayKnown DEF ProcsTyped
    <2>5. QED
      BY <2>1, <2>3, <2>4
  <1>25. ASSUME NEW t \in Tasks, GitHubMerge(t)
         PROVE  Typed'
    <2> USE <1>25 DEF GitHubMerge, Request
    <2>1. RowsTyped' /\ ProcsTyped' /\ RestTyped' /\ RowsKnown'
      BY DEF RowsTyped, ProcsTyped, RestTyped, RowsKnown
    <2>2. <<t, head[t]>> \in Commits
      BY DEF RepoTyped, Commits
    <2>3. RepoTyped'
      BY <2>2 DEF RepoTyped, Contents
    <2>4. QED
      BY <2>1, <2>3
  <1>26. QED
    BY <1>1, <1>2, <1>3, <1>4, <1>5, <1>6, <1>7, <1>8, <1>9, <1>10, <1>11, <1>12, <1>13,
       <1>14, <1>15, <1>16, <1>17, <1>18, <1>19, <1>20, <1>21, <1>22, <1>23, <1>24, <1>25 DEF Next

\* The unique index and the types hold in every reachable state.
THEOREM PrTypeCorrect == Spec => []PrTypeOK
  <1>1. Typed /\ [Next]_vars => Typed'
    <2>1. CASE Next
      BY <2>1, TypedStep
    <2>2. CASE UNCHANGED vars
      BY <2>2 DEF vars, repo, Typed, RowsTyped, RepoTyped, ProcsTyped, RestTyped, RowsKnown
    <2>3. QED
      BY <2>1, <2>2
  <1>2. QED
    BY <1>1, TypedInit, TypedImpliesTypeOK, PTL DEF Spec

-----------------------------------------------------------------------------
(* What lands.  Solid is what is on the target for good: a push that is    *)
(* refused takes the merge commit out of the local target again.           *)
LandedSteps == {"record", "sha", "complete", "siblings", "confirm"}

Solid ==
    IF faults = 0 THEN origin
    ELSE origin \cup (IF At(Merger, "push") THEN procs[Merger].base ELSE local)

\* The checks of a commit passed, or none watches a diff that began on the local target.
Judged(t, n) ==
    \/ <<t, n>> \in tested
    \/ \E b \in 0 .. MaxCommits, m \in n .. MaxCommits :
        /\ b = 0 \/ <<t, b>> \in local
        /\ <<b, m>> \notin Touches[t]

\* The same for good, of a diff that began before the commit.
Settled(t, n) ==
    \/ <<t, n>> \in tested
    \/ \E b \in 0 .. MaxCommits, m \in n .. MaxCommits :
        /\ b < n
        /\ b = 0 \/ <<t, b>> \in Solid
        /\ <<b, m>> \notin Touches[t]

LandedSettled ==
    \A t \in Tasks, n \in 1 .. MaxCommits :
        <<t, n>> \in (local \cup origin) \ outside => Settled(t, n)

\* What a merge past its checks knows of its commit and of the repository.
MergeKnows ==
    procs[Merger] \in CheckedMerge =>
        LET merge == procs[Merger]
            n == merge.commit[2]
        IN
        /\ merge.commit[1] = merge.task /\ n <= head[merge.task]
        /\ merge.step \in {"lock", "sync"} => Judged(merge.task, n)
        /\ merge.step = "merge" => local = merge.base /\ Settled(merge.task, n)
        /\ merge.step = "push" => local = merge.base \cup {merge.commit}
        /\ merge.step \in {"merge", "push"} /\ faults = 0 => merge.base \subseteq origin
        /\ merge.step \in LandedSteps => Contains(Solid, merge.commit)

\* Between merges, unless there was a fault, nothing waits to be pushed.
LocalPushed == faults = 0 /\ ~At(Merger, "push") => local \subseteq origin

RepoSafe == LandedSettled /\ MergeKnows /\ LocalPushed

\* Solid is part of the target.
LEMMA SolidIsOnTarget ==
    ASSUME Typed, RepoSafe
    PROVE  Solid \subseteq Target
  <1>1. At(Merger, "push") => procs[Merger] \in CheckedMerge
    BY Shapes, MergerAssumption DEF Typed, MergeSteps, GitSteps
  <1>2. At(Merger, "push") => procs[Merger].base \subseteq local
    BY <1>1 DEF At, RepoSafe, MergeKnows
  <1>3. QED
    BY <1>2 DEF Solid, Target

\* What is settled is tested or waived.
LEMMA SettledMeansTested ==
    ASSUME Typed, RepoSafe
    PROVE  LandedCommitsWereTested
  <1>1. Solid \subseteq local \cup origin
    BY SolidIsOnTarget DEF Target
  <1>2. QED
    BY <1>1 DEF RepoSafe, LandedSettled, Settled, LandedCommitsWereTested, Waived

\* What is settled, and what is contained, stays so while Solid and the passed checks grow.
LEMMA SettledStays ==
    ASSUME Solid \subseteq Solid', tested \subseteq tested', NEW t, NEW n
    PROVE  Settled(t, n) => Settled(t, n)'
  BY DEF Settled

LEMMA JudgedStays ==
    ASSUME UNCHANGED local, tested \subseteq tested', NEW t, NEW n
    PROVE  Judged(t, n) => Judged(t, n)'
  BY DEF Judged

LEMMA ContainedStays ==
    ASSUME Solid \subseteq Solid', NEW c
    PROVE  Contains(Solid, c) => Contains(Solid', c)
  BY DEF Contains

\* What others do to the repository: it grows, on the target by externals' commits and by
\* those merged on GitHub.
LEMMA RepoGrows ==
    ASSUME Typed, RepoSafe, Typed', UNCHANGED <<local, faults, procs>>,
           tested \subseteq tested', origin \subseteq origin', outside \subseteq outside',
           \A t \in Tasks : head[t] <= head'[t],
           (origin' \ origin) \cap Commits \subseteq outside'
    PROVE  RepoSafe' /\ Solid \subseteq Solid'
  <1>1. Solid \subseteq Solid'
    BY DEF Solid, At
  <1>2. LandedSettled'
    <2>1. SUFFICES ASSUME NEW t \in Tasks, NEW n \in 1 .. MaxCommits,
                          <<t, n>> \in (local' \cup origin') \ outside'
                   PROVE  Settled(t, n)'
      BY DEF LandedSettled
    <2>2. <<t, n>> \in Commits
      BY DEF Commits
    <2>3. <<t, n>> \in (local \cup origin) \ outside
      BY <2>1, <2>2
    <2>4. QED
      BY <1>1, <2>3, SettledStays DEF RepoSafe, LandedSettled
  <1>3. MergeKnows'
    <2>1. SUFFICES ASSUME procs[Merger] \in CheckedMerge
                   PROVE  MergeKnows'
      BY DEF MergeKnows
    <2> DEFINE t == procs[Merger].task
               n == procs[Merger].commit[2]
    <2>2. t \in Tasks /\ n \in Nat
      BY <2>1 DEF CheckedMerge, Commits
    <2>3. n <= head'[t]
      <3>1. n <= head[t] /\ head[t] <= head'[t]
        BY <2>1, <2>2 DEF RepoSafe, MergeKnows
      <3>2. head[t] \in Nat /\ head'[t] \in Nat
        BY <2>2, BoundAssumption DEF Typed, RepoTyped
      <3>3. QED
        BY <2>2, <3>1, <3>2
    <2>4. QED
      <3>1. (Judged(t, n) => Judged(t, n)') /\ (Settled(t, n) => Settled(t, n)')
        BY <1>1, SettledStays, JudgedStays
      <3>2. Contains(Solid, procs[Merger].commit) => Contains(Solid', procs[Merger].commit)
        BY <1>1, ContainedStays
      <3>3. QED
        BY <2>1, <2>3, <3>1, <3>2 DEF RepoSafe, MergeKnows
  <1>4. LocalPushed'
    BY DEF RepoSafe, LocalPushed, At
  <1>5. QED
    BY <1>1, <1>2, <1>3, <1>4 DEF RepoSafe

\* A step that leaves the repository alone and in which the merge, if it goes on past its
\* checks, neither is judged, comes to a merge or a push nor claims to have landed anew.
GoesQuietly(step) ==
    /\ procs'[Merger] = [procs[Merger] EXCEPT !.step = step]
    /\ step = "sync" => procs[Merger].step = "lock"
    /\ step \in LandedSteps => procs[Merger].step \in LandedSteps

LEMMA RepoKept ==
    ASSUME Typed, RepoSafe, UNCHANGED <<head, tested, local, origin, outside, faults>>,
           \/ UNCHANGED procs[Merger]
           \/ ~At(Merger, "push") /\ procs'[Merger] \notin CheckedMerge
           \/ /\ procs[Merger] \in CheckedMerge /\ ~At(Merger, "push")
              /\ \E step \in MergeSteps \ {"check", "lock", "merge", "push"} : GoesQuietly(step),
           Typed'
    PROVE  RepoSafe' /\ Solid \subseteq Solid'
  <1>1. CASE UNCHANGED procs[Merger]
    <2>1. Solid' = Solid /\ (At(Merger, "push")' <=> At(Merger, "push"))
      BY <1>1 DEF Solid, At
    <2>2. LandedSettled' /\ LocalPushed'
      BY <2>1 DEF RepoSafe, LandedSettled, Settled, LocalPushed
    <2>3. MergeKnows'
      BY <1>1, <2>1 DEF RepoSafe, MergeKnows, Settled, Judged
    <2>4. QED
      BY <2>1, <2>2, <2>3 DEF RepoSafe
  <1>2. CASE ~At(Merger, "push") /\ procs'[Merger] \notin CheckedMerge
    <2>1. ~At(Merger, "push")'
      BY <1>2, Shapes, MergerAssumption DEF Typed, ProcsTyped, At, Process, PrRequest, TaskRequest,
         HandoffRequest, FreshMerge
    <2>2. Solid' = Solid
      BY <1>2, <2>1 DEF Solid
    <2>3. QED
      BY <1>2, <2>1, <2>2 DEF RepoSafe, LandedSettled, Settled, MergeKnows, LocalPushed
  <1>3. CASE /\ procs[Merger] \in CheckedMerge /\ ~At(Merger, "push")
             /\ \E step \in MergeSteps \ {"check", "lock", "merge", "push"} : GoesQuietly(step)
    <2>1. PICK step \in MergeSteps \ {"check", "lock", "merge", "push"} : GoesQuietly(step)
      BY <1>3
    <2>2. /\ procs'[Merger].step = step
          /\ procs'[Merger].commit = procs[Merger].commit
          /\ procs'[Merger].task = procs[Merger].task
      BY <1>3, <2>1 DEF GoesQuietly, CheckedMerge
    <2>3. ~At(Merger, "push")' /\ Solid' = Solid
      BY <1>3, <2>2 DEF At, Solid
    <2>4. LandedSettled'
      BY <2>3 DEF RepoSafe, LandedSettled, Settled
    <2>5. MergeKnows'
      BY <1>3, <2>1, <2>2, <2>3 DEF GoesQuietly, RepoSafe, MergeKnows, Judged
    <2>6. LocalPushed'
      BY <1>3, <2>3 DEF RepoSafe, LocalPushed
    <2>7. QED
      BY <2>3, <2>4, <2>5, <2>6 DEF RepoSafe
  <1>4. QED
    BY <1>1, <1>2, <1>3

\* What is left of the merge when a process leaves.
LEMMA ProcessLeft ==
    ASSUME Typed, NEW q \in Processes, Leave(q)
    PROVE  \/ q # Merger /\ UNCHANGED procs[Merger]
           \/ q = Merger /\ procs'[Merger] \notin CheckedMerge /\ procs'[Merger] = Idle
  BY MergerAssumption, IdleAssumption DEF Leave, Typed, ProcsTyped, Process

LEMMA RepoSafeInit == Init => RepoSafe
  BY MergerAssumption, IdleAssumption
     DEF Init, RepoSafe, LandedSettled, MergeKnows, LocalPushed, Process

LEMMA RepoStep ==
    ASSUME Typed, RepoSafe, Next, Typed'
    PROVE  RepoSafe' /\ Solid \subseteq Solid'
  <1> USE MergerAssumption, BoundAssumption
  <1>1. ASSUME NEW t \in Tasks, NEW r \in Prs, StartBranch(t, r)
        PROVE  RepoSafe' /\ Solid \subseteq Solid'
    BY <1>1, RepoKept DEF StartBranch, repo
  <1>2. ASSUME NEW t \in Tasks, Commit(t) \/ \E n \in 1 .. MaxCommits : ChecksPass(t, n)
        PROVE  RepoSafe' /\ Solid \subseteq Solid'
    <2>1. UNCHANGED <<local, faults, procs, origin, outside>> /\ tested \subseteq tested'
      BY <1>2 DEF Commit, ChecksPass, NoRequest
    <2>2. UNCHANGED head \/ head' = [head EXCEPT ![t] = head[t] + 1]
      BY <1>2 DEF Commit, ChecksPass
    <2>3. \A u \in Tasks : head[u] <= head'[u]
      BY <2>2 DEF Typed, RepoTyped
    <2>4. QED
      BY <2>1, <2>3, RepoGrows
  <1>3. ASSUME NEW x \in Externals, PushByOthers(x)
        PROVE  RepoSafe' /\ Solid \subseteq Solid'
    <2>1. UNCHANGED <<local, faults, procs, head, tested, outside>> /\ origin' = origin \cup {x}
      BY <1>3 DEF PushByOthers, NoRequest
    <2>2. \A u \in Tasks : head[u] <= head'[u]
      BY <2>1 DEF Typed, RepoTyped
    <2>3. QED
      BY <2>1, <2>2, RepoGrows, ExternalsAssumption
  <1>18. ASSUME NEW t \in Tasks, GitHubMerge(t)
         PROVE  RepoSafe' /\ Solid \subseteq Solid'
    <2>1. UNCHANGED <<local, faults, procs, head, tested>>
          /\ outside' = outside \cup {<<t, head[t]>>}
          /\ origin \subseteq origin' /\ origin' \subseteq origin \cup {<<t, head[t]>>}
      BY <1>18 DEF GitHubMerge
    <2>2. \A u \in Tasks : head[u] <= head'[u]
      BY <2>1 DEF Typed, RepoTyped
    <2>3. QED
      BY <2>1, <2>2, RepoGrows
  <1>4. ASSUME NEW q \in Processes,
               \/ \E r \in Prs, step \in {"submit", "close", "changes"} : ReadPr(q, r, step)
               \/ \E t \in Tasks, s \in TaskStatuses : ReadTask(q, t, s)
               \/ \E t \in Tasks : ReadHandoff(q, t)
        PROVE  RepoSafe' /\ Solid \subseteq Solid'
    <2>1. UNCHANGED <<head, tested, local, origin, outside, faults>> /\ procs[q] = Idle
          /\ \E new : procs' = [procs EXCEPT ![q] = new] /\ new.step \notin MergeSteps
      <3>1. ASSUME NEW r \in Prs, NEW step \in {"submit", "close", "changes"}, ReadPr(q, r, step)
            PROVE  /\ UNCHANGED <<head, tested, local, origin, outside, faults>> /\ procs[q] = Idle
                   /\ \E new : procs' = [procs EXCEPT ![q] = new] /\ new.step \notin MergeSteps
        <4> DEFINE new == [step |-> step, pr |-> r, task |-> prs[r].task]
        <4>1. procs' = [procs EXCEPT ![q] = new] /\ new.step \notin MergeSteps
          BY <3>1 DEF ReadPr, MergeSteps, GitSteps
        <4>2. QED
          BY <3>1, <4>1 DEF ReadPr, repo
      <3>2. ASSUME NEW t \in Tasks, NEW s \in TaskStatuses, ReadTask(q, t, s)
            PROVE  /\ UNCHANGED <<head, tested, local, origin, outside, faults>> /\ procs[q] = Idle
                   /\ \E new : procs' = [procs EXCEPT ![q] = new] /\ new.step \notin MergeSteps
        <4> DEFINE new == [step |-> "transition", task |-> t, to |-> s]
        <4>1. procs' = [procs EXCEPT ![q] = new] /\ new.step \notin MergeSteps
          BY <3>2 DEF ReadTask, MergeSteps, GitSteps
        <4>2. QED
          BY <3>2, <4>1 DEF ReadTask, repo
      <3>3. ASSUME NEW t \in Tasks, ReadHandoff(q, t)
            PROVE  /\ UNCHANGED <<head, tested, local, origin, outside, faults>> /\ procs[q] = Idle
                   /\ \E new : procs' = [procs EXCEPT ![q] = new] /\ new.step \notin MergeSteps
        <4> DEFINE new == [step |-> "handoff", task |-> t]
        <4>1. procs' = [procs EXCEPT ![q] = new] /\ new.step \notin MergeSteps
          BY <3>3 DEF ReadHandoff, MergeSteps, GitSteps
        <4>2. QED
          BY <3>3, <4>1 DEF ReadHandoff, repo
      <3>4. QED
        BY <1>4, <3>1, <3>2, <3>3
    <2>2. CASE q # Merger
      BY <2>1, <2>2, RepoKept DEF Typed, ProcsTyped
    <2>3. CASE q = Merger
      <3>1. procs'[Merger] \notin CheckedMerge
        BY <2>1, <2>3 DEF CheckedMerge, Typed, ProcsTyped
      <3>2. QED
        BY <2>1, <2>3, <3>1, RepoKept DEF At
    <2>4. QED
      BY <2>2, <2>3
  <1>5. ASSUME NEW q \in Processes, WritePr(q) \/ WriteTask(q) \/ WriteHandoff(q)
        PROVE  RepoSafe' /\ Solid \subseteq Solid'
    <2>1. UNCHANGED <<head, tested, local, origin, outside, faults>> /\ Leave(q) /\ ~At(q, "push")
      BY <1>5 DEF WritePr, WriteTask, WriteHandoff, repo, At
    <2>2. QED
      BY <2>1, ProcessLeft, RepoKept
  <1>6. ASSUME MergeConfirm \/ MergeFail
        PROVE  RepoSafe' /\ Solid \subseteq Solid'
    <2>1. UNCHANGED <<head, tested, local, origin, outside, faults>> /\ Leave(Merger) /\ ~At(Merger, "push")
      BY <1>6 DEF MergeConfirm, MergeFail, repo, At
    <2>2. QED
      BY <2>1, ProcessLeft, RepoKept
  <1>7. ASSUME NEW q \in Processes, Crash(q)
        PROVE  RepoSafe' /\ Solid \subseteq Solid'
    <2>1. UNCHANGED <<head, tested, local, origin, outside>> /\ faults' # 0 /\ Leave(q)
      BY <1>7 DEF Crash, repo, Typed, RestTyped
    <2>2. UNCHANGED procs[Merger] \/ (procs'[Merger] \notin CheckedMerge /\ ~At(Merger, "push")')
      BY <2>1, ProcessLeft DEF At
    <2>3. At(Merger, "push") => procs[Merger].base \subseteq local
      BY Shapes DEF Typed, At, RepoSafe, MergeKnows, MergeSteps, GitSteps
    <2>4. Solid \subseteq Solid'
      BY <2>1, <2>2, <2>3 DEF Solid, At
    <2>5. LandedSettled'
      BY <2>1, <2>4, SettledStays DEF RepoSafe, LandedSettled
    <2>6. MergeKnows'
      <3>1. CASE procs'[Merger] \notin CheckedMerge
        BY <3>1 DEF MergeKnows
      <3>2. CASE UNCHANGED procs[Merger] /\ procs[Merger] \in CheckedMerge
        <4> DEFINE t == procs[Merger].task
                   n == procs[Merger].commit[2]
        <4>1. (Judged(t, n) => Judged(t, n)') /\ (Settled(t, n) => Settled(t, n)')
          BY <2>1, <2>4, <3>2 DEF Judged, Settled
        <4>2. Contains(Solid, procs[Merger].commit) => Contains(Solid', procs[Merger].commit)
          BY <2>4, ContainedStays
        <4>3. QED
          BY <2>1, <3>2, <4>1, <4>2 DEF RepoSafe, MergeKnows
      <3>3. QED
        BY <2>2, <3>1, <3>2
    <2>7. QED
      BY <2>1, <2>4, <2>5, <2>6 DEF RepoSafe, LocalPushed
  <1>8. ASSUME NEW t \in Tasks, HookMerge(t) \/ \E a \in Attempts : MergeIntent(t, a)
        PROVE  RepoSafe' /\ Solid \subseteq Solid'
    <2>1. UNCHANGED <<head, tested, local, origin, outside, faults>> /\ ~At(Merger, "push")
          /\ procs'[Merger].step = "check"
      BY <1>8 DEF MergeIntent, HookMerge, repo, At, Typed, ProcsTyped
    <2>2. procs'[Merger] \notin CheckedMerge
      BY <2>1 DEF CheckedMerge
    <2>3. QED
      BY <2>1, <2>2, RepoKept
  <1>9. ASSUME MergeRefused
        PROVE  RepoSafe' /\ Solid \subseteq Solid'
    <2>1. UNCHANGED <<head, tested, local, origin, outside, faults>> /\ ~At(Merger, "push")
          /\ procs'[Merger] = [procs[Merger] EXCEPT !.step = "fail"]
      BY <1>9 DEF MergeRefused, repo, At, GoTo, Typed, ProcsTyped
    <2>2. procs[Merger] \in FreshMerge \cup CheckedMerge
      BY <1>9, Shapes DEF MergeRefused, Typed, MergeSteps
    <2>3. CASE procs[Merger] \in FreshMerge
      <3>1. procs'[Merger] \in FreshMerge
        BY <2>1, <2>3 DEF FreshMerge
      <3>2. QED
        BY <2>1, <3>1, FreshIsNotChecked, RepoKept
    <2>4. CASE procs[Merger] \in CheckedMerge
      <3>1. GoesQuietly("fail") /\ "fail" \in MergeSteps \ {"check", "lock", "merge", "push"}
        BY <2>1 DEF GoesQuietly, LandedSteps, MergeSteps
      <3>2. QED
        BY <2>1, <2>4, <3>1, RepoKept
    <2>5. QED
      BY <2>2, <2>3, <2>4
  <1>10. ASSUME NEW r \in Prs, MergeRead(r)
         PROVE  RepoSafe' /\ Solid \subseteq Solid'
    <2> DEFINE t == procs[Merger].task
    <2>1. UNCHANGED <<head, tested, local, origin, outside, faults>> /\ ~At(Merger, "push")
      BY <1>10 DEF MergeRead, repo, At
    <2>2. t \in Tasks
      BY <1>10, Shapes DEF MergeRead, Typed, FreshMerge
    <2>3. /\ procs'[Merger].step = "guard" /\ procs'[Merger].commit = <<t, head[t]>>
          /\ procs'[Merger].task = t
      BY <1>10 DEF MergeRead, Typed, ProcsTyped
    <2>4. ~At(Merger, "push")' /\ Solid' = Solid
      BY <2>1, <2>3 DEF At, Solid
    <2>5. MergeKnows'
      <3>1. head[t] \in Nat /\ head'[t] = head[t]
        BY <2>1, <2>2 DEF Typed, RepoTyped
      <3>2. QED
        BY <2>3, <3>1 DEF MergeKnows, LandedSteps
    <2>6. QED
      BY <2>1, <2>4, <2>5 DEF RepoSafe, LandedSettled, Settled, LocalPushed
  <1>19. ASSUME MergeGuard
         PROVE  RepoSafe' /\ Solid \subseteq Solid'
    <2> DEFINE t == procs[Merger].task
               n == procs[Merger].commit[2]
    <2>1. UNCHANGED <<head, tested, local, origin, outside, faults>> /\ ~At(Merger, "push")
          /\ procs'[Merger] = [procs[Merger] EXCEPT !.step = "lock"]
      BY <1>19 DEF MergeGuard, repo, At, GoTo, Typed, ProcsTyped
    <2>2. procs[Merger] \in CheckedMerge
      BY <1>19, Shapes DEF MergeGuard, Typed, MergeSteps
    <2>3. /\ procs'[Merger].step = "lock" /\ procs'[Merger].commit = procs[Merger].commit
          /\ procs'[Merger].task = t
      BY <2>1, <2>2 DEF CheckedMerge
    <2>4. ~At(Merger, "push")' /\ Solid' = Solid
      BY <2>1, <2>3 DEF At, Solid
    <2>5. t \in Tasks /\ n \in 1 .. MaxCommits /\ procs[Merger].commit = <<t, n>> /\ n <= head[t]
      <3>1. procs[Merger].commit \in Commits /\ t \in Tasks
        BY <2>2 DEF CheckedMerge
      <3>2. procs[Merger].commit[1] = t /\ n <= head[t]
        BY <2>2 DEF RepoSafe, MergeKnows
      <3>3. QED
        BY <3>1, <3>2 DEF Commits
    <2>6. Judged(t, n)
      <3>1. CASE procs[Merger].commit \in tested
        BY <2>5, <3>1 DEF Judged
      <3>2. ASSUME NEW b \in 0 .. MaxCommits, IsMergeBase(t, b), ~Applies(t, b, head[t])
            PROVE  Judged(t, n)
        <4>1. head[t] \in n .. MaxCommits
          BY <2>5 DEF Typed, RepoTyped
        <4>2. QED
          BY <3>2, <4>1 DEF IsMergeBase, Applies, Judged
      <3>3. QED
        BY <1>19, <3>1, <3>2 DEF MergeGuard
    <2>7. Judged(t, n)'
      <3>1. Judged(t, n) <=> Judged(t, n)'
        BY <2>1, <2>3 DEF Judged
      <3>2. QED
        BY <2>6, <3>1
    <2>8. MergeKnows'
      BY <2>1, <2>3, <2>5, <2>7 DEF MergeKnows, LandedSteps
    <2>9. QED
      BY <2>1, <2>4, <2>8 DEF RepoSafe, LandedSettled, Settled, LocalPushed
  <1>11. ASSUME \/ MergeLock \/ GitMergeFails \/ MergeBack \/ MergeRecord \/ MergeSha
                \/ MergeComplete \/ MergeSiblings
         PROVE  RepoSafe' /\ Solid \subseteq Solid'
    <2>1. procs[Merger] \in CheckedMerge /\ ~At(Merger, "push")
      BY <1>11, Shapes DEF Typed, MergeSteps, GitSteps, At, MergeLock, GitMergeFails, MergeBack,
         MergeRecord, MergeSha, MergeComplete, MergeSiblings
    <2>2. UNCHANGED <<head, tested, local, origin, outside, faults>>
      BY <1>11 DEF repo, MergeLock, GitMergeFails, MergeBack, MergeRecord, MergeSha, MergeComplete,
         MergeSiblings
    <2>3. PICK step \in MergeSteps \ {"check", "lock", "merge", "push"} :
            /\ GoTo(Merger, step)
            /\ step = "sync" => procs[Merger].step = "lock"
            /\ step \in LandedSteps => procs[Merger].step \in LandedSteps
      BY <1>11 DEF MergeSteps, GitSteps, LandedSteps, At, MergeLock, GitMergeFails, MergeBack,
         MergeRecord, MergeSha, MergeComplete, MergeSiblings
    <2>4. GoesQuietly(step)
      BY <2>3 DEF GoesQuietly, GoTo, Typed, ProcsTyped
    <2>5. QED
      BY <2>1, <2>2, <2>4, RepoKept
  <1>12. ASSUME GitSync
         PROVE  RepoSafe' /\ Solid \subseteq Solid'
    <2> DEFINE t == procs[Merger].task
               c == procs[Merger].commit
               n == c[2]
    <2>1. procs[Merger] \in CheckedMerge /\ procs[Merger].step = "sync" /\ ~At(Merger, "push")
      BY <1>12, Shapes DEF Typed, MergeSteps, GitSteps, At, GitSync
    <2>2. UNCHANGED <<head, tested, origin, outside, faults>>
      BY <1>12 DEF GitSync
    <2>3. CASE local \subseteq origin \/ origin \subseteq local
      <3> DEFINE synced == local \cup origin
                 step == IF Contains(synced, c) THEN "record" ELSE "merge"
      <3>1. procs'[Merger] = [procs[Merger] EXCEPT !.base = synced, !.step = step]
            /\ local' = synced
        BY <1>12, <2>3 DEF GitSync, Typed, ProcsTyped
      <3>2. /\ procs'[Merger].base = synced /\ procs'[Merger].step = step
            /\ procs'[Merger].commit = c /\ procs'[Merger].task = t
        <4> HIDE DEF synced, step
        <4> QED BY <2>1, <3>1 DEF CheckedMerge
      <3>3. ~At(Merger, "push")' /\ Solid \subseteq Solid'
            /\ (faults = 0 => local' \subseteq origin)
        BY <2>1, <2>2, <3>1, <3>2 DEF At, Solid, RepoSafe, LocalPushed
      <3>4. local' \subseteq Solid'
        BY <2>2, <3>1, <3>3 DEF Solid
      <3>5. LandedSettled'
        BY <2>2, <3>1, <3>3, SettledStays DEF RepoSafe, LandedSettled
      <3>6. t \in Tasks /\ n \in 1 .. MaxCommits /\ c = <<t, n>>
        <4>1. c \in Commits /\ t \in Tasks
          BY <2>1 DEF CheckedMerge
        <4>2. c[1] = t
          BY <2>1 DEF RepoSafe, MergeKnows
        <4>3. QED
          BY <4>1, <4>2 DEF Commits
      <3>7. ASSUME ~Contains(synced, c)
            PROVE  Settled(t, n)'
        <4>1. Judged(t, n)
          BY <2>1 DEF RepoSafe, MergeKnows
        <4>2. CASE <<t, n>> \in tested
          BY <2>2, <3>2, <4>2 DEF Settled
        <4>3. ASSUME NEW b \in 0 .. MaxCommits, NEW m \in n .. MaxCommits,
                     b = 0 \/ <<t, b>> \in local, <<b, m>> \notin Touches[t]
              PROVE  Settled(t, n)'
          <5>1. b = 0 \/ <<t, b>> \in Solid'
            BY <3>1, <3>4, <4>3
          <5>2. b < n
            BY <3>6, <3>7, <4>3 DEF Contains
          <5>3. \E b1 \in 0 .. MaxCommits, m1 \in n .. MaxCommits :
                  b1 < n /\ (b1 = 0 \/ <<t, b1>> \in Solid') /\ <<b1, m1>> \notin Touches[t]
            BY <4>3, <5>1, <5>2
          <5>4. QED
            BY <5>3, <3>2 DEF Settled
        <4>4. QED
          BY <4>1, <4>2, <4>3 DEF Judged
      <3>8. Contains(synced, c) => Contains(Solid', c)
        BY <3>1, <3>4 DEF Contains
      <3>9. MergeKnows'
        <4>1. c[1] = t /\ n <= head'[t]
          BY <2>1, <2>2 DEF RepoSafe, MergeKnows
        <4>2. step = "merge" => Settled(t, n)'
          BY <3>7
        <4>3. step = "record" => Contains(Solid', c)
          BY <3>8
        <4>4. step \in {"merge", "record"}
          OBVIOUS
        <4> HIDE DEF step
        <4>5. QED
          BY <2>2, <3>1, <3>2, <3>3, <4>1, <4>2, <4>3, <4>4 DEF MergeKnows, LandedSteps
      <3>10. QED
        BY <2>2, <3>3, <3>5, <3>9 DEF RepoSafe, LocalPushed
    <2>4. CASE ~(local \subseteq origin \/ origin \subseteq local)
      <3>1. local' = local /\ GoesQuietly("back")
        BY <1>12, <2>4 DEF GitSync, GoTo, GoesQuietly, LandedSteps, Typed, ProcsTyped
      <3>2. "back" \in MergeSteps \ {"check", "lock", "merge", "push"}
        BY DEF MergeSteps
      <3>3. QED
        BY <2>1, <2>2, <3>1, <3>2, RepoKept
    <2>5. QED
      BY <2>3, <2>4
  <1>13. ASSUME GitMerge
         PROVE  RepoSafe' /\ Solid \subseteq Solid'
    <2> DEFINE t == procs[Merger].task
               c == procs[Merger].commit
               n == c[2]
    <2>1. procs[Merger] \in CheckedMerge /\ procs[Merger].step = "merge" /\ ~At(Merger, "push")
      BY <1>13, Shapes DEF Typed, MergeSteps, GitSteps, At, GitMerge
    <2>2. /\ UNCHANGED <<head, tested, origin, outside, faults>>
          /\ local' = procs[Merger].base \cup {c}
          /\ procs'[Merger] = [procs[Merger] EXCEPT !.step = "push"]
      BY <1>13 DEF GitMerge, GoTo, Merged, CommitMerged, Typed, ProcsTyped
    <2>3. /\ procs'[Merger].step = "push" /\ procs'[Merger].base = procs[Merger].base
          /\ procs'[Merger].commit = c /\ procs'[Merger].task = t
      BY <2>1, <2>2 DEF CheckedMerge
    <2>4. At(Merger, "push")'
      <3>1. procs'[Merger] \in CheckedMerge
        BY <2>1, <2>2 DEF CheckedMerge, MergeSteps, GitSteps
      <3>2. QED
        BY <2>3, <3>1, IdleAssumption DEF At, Process
    <2>5. local = procs[Merger].base /\ Settled(t, n) /\ c[1] = t /\ n <= head'[t]
          /\ (faults = 0 => procs[Merger].base \subseteq origin)
      BY <2>1, <2>2 DEF RepoSafe, MergeKnows
    <2>6. Solid \subseteq Solid'
      BY <2>1, <2>2, <2>3, <2>4, <2>5 DEF Solid
    <2>7. LandedSettled'
      <3>1. ASSUME NEW u \in Tasks, NEW m \in 1 .. MaxCommits,
                   <<u, m>> \in (local' \cup origin') \ outside'
            PROVE  Settled(u, m)'
        <4>1. <<u, m>> \in (local \cup origin) \ outside \/ <<u, m>> = c
          BY <2>2, <2>5, <3>1
        <4>2. Settled(u, m)
          BY <2>5, <4>1 DEF RepoSafe, LandedSettled
        <4>3. QED
          BY <2>2, <2>6, <4>2, SettledStays
      <3>2. QED
        BY <3>1 DEF LandedSettled
    <2>8. MergeKnows'
      BY <2>2, <2>3, <2>5 DEF MergeKnows, LandedSteps
    <2>9. QED
      BY <2>4, <2>6, <2>7, <2>8 DEF RepoSafe, LocalPushed
  <1>14. ASSUME GitPush
         PROVE  RepoSafe' /\ Solid \subseteq Solid'
    <2> DEFINE t == procs[Merger].task
               c == procs[Merger].commit
               n == c[2]
    <2>1. procs[Merger] \in CheckedMerge /\ procs[Merger].step = "push" /\ At(Merger, "push")
      BY <1>14, Shapes DEF Typed, MergeSteps, GitSteps, At, GitPush
    <2>2. /\ UNCHANGED <<head, tested, local, outside, faults>>
          /\ origin' = local /\ origin \subseteq local
          /\ procs'[Merger] = [procs[Merger] EXCEPT !.step = "record"]
      BY <1>14 DEF GitPush, GoTo, Typed, ProcsTyped
    <2>3. /\ procs'[Merger].step = "record"
          /\ procs'[Merger].commit = c /\ procs'[Merger].task = t
      BY <2>1, <2>2 DEF CheckedMerge
    <2>4. ~At(Merger, "push")' /\ Solid' = local
      BY <2>2, <2>3 DEF At, Solid
    <2>5. c \in local /\ procs[Merger].base \subseteq local /\ c[1] = t /\ n <= head'[t]
      BY <2>1, <2>2 DEF RepoSafe, MergeKnows
    <2>6. Solid \subseteq Solid'
      BY <2>1, <2>2, <2>4, <2>5 DEF Solid
    <2>7. LandedSettled'
      BY <2>2, <2>6, SettledStays DEF RepoSafe, LandedSettled
    <2>8. Contains(Solid', c)
      <3>1. c \in Commits
        BY <2>1 DEF CheckedMerge
      <3>2. PICK u \in Tasks, m \in 1 .. MaxCommits : c = <<u, m>>
        BY <3>1 DEF Commits
      <3>3. m \in m .. MaxCommits
        OBVIOUS
      <3>4. QED
        BY <2>4, <2>5, <3>2, <3>3 DEF Contains
    <2>9. MergeKnows'
      BY <2>3, <2>5, <2>8 DEF MergeKnows, LandedSteps
    <2>10. QED
      BY <2>2, <2>6, <2>7, <2>9 DEF RepoSafe, LocalPushed
  <1>15. ASSUME GitPushFails
         PROVE  RepoSafe' /\ Solid \subseteq Solid'
    <2> DEFINE base == procs[Merger].base
    <2>1. procs[Merger] \in CheckedMerge /\ procs[Merger].step = "push" /\ At(Merger, "push")
      BY <1>15, Shapes DEF Typed, MergeSteps, GitSteps, At, GitPushFails
    <2>2. /\ UNCHANGED <<head, tested, outside>>
          /\ procs'[Merger] = [procs[Merger] EXCEPT !.step = "back"]
      BY <1>15 DEF GitPushFails, GoTo, Typed, ProcsTyped
    <2>3. PICK accepted \in BOOLEAN, putBack \in BOOLEAN :
            /\ accepted => origin \subseteq local
            /\ origin' = IF accepted THEN local ELSE origin
            /\ local' = IF putBack THEN base ELSE local
            /\ IF accepted \/ ~putBack
               THEN faults < MaxFaults /\ faults' = faults + 1 ELSE UNCHANGED faults
      BY <1>15 DEF GitPushFails
    <2>4. faults' # 0 \/ (UNCHANGED <<origin, faults>> /\ local' = base /\ faults = 0)
          \/ (UNCHANGED <<origin, faults>> /\ local' = base /\ faults # 0)
      BY <2>3 DEF Typed, RestTyped
    <2>5. /\ procs'[Merger].step = "back"
          /\ procs'[Merger].commit = procs[Merger].commit
          /\ procs'[Merger].task = procs[Merger].task
      BY <2>1, <2>2 DEF CheckedMerge
    <2>6. base \subseteq local /\ (faults = 0 => base \subseteq origin)
      BY <2>1 DEF RepoSafe, MergeKnows
    <2>7. ~At(Merger, "push")'
      BY <2>5 DEF At
    <2>8. Solid \subseteq Solid'
      <3>1. Solid \subseteq origin \cup base /\ (faults = 0 => Solid = origin)
        BY <2>1 DEF Solid
      <3>2. origin \subseteq origin' /\ base \subseteq local'
        BY <2>3, <2>6
      <3>3. CASE faults' # 0
        BY <2>7, <3>1, <3>2, <3>3 DEF Solid
      <3>4. CASE UNCHANGED <<origin, faults>>
        BY <2>7, <3>1, <3>2, <3>4 DEF Solid
      <3>5. QED
        BY <2>4, <3>3, <3>4
    <2>9. local' \cup origin' \subseteq local \cup origin
      BY <2>3, <2>6
    <2>10. LandedSettled'
      BY <2>2, <2>8, <2>9, SettledStays DEF RepoSafe, LandedSettled
    <2>11. MergeKnows'
      BY <2>1, <2>2, <2>5 DEF RepoSafe, MergeKnows, LandedSteps
    <2>12. LocalPushed'
      BY <2>4, <2>6 DEF LocalPushed
    <2>13. QED
      BY <2>8, <2>10, <2>11, <2>12 DEF RepoSafe
  <1>16. ASSUME Busy
         PROVE  RepoSafe' /\ Solid \subseteq Solid'
    <2>1. procs[Merger] \in CheckedMerge /\ ~At(Merger, "push")
      BY <1>16, Shapes DEF Typed, MergeSteps, GitSteps, At, Busy
    <2>2. /\ UNCHANGED <<head, tested, local, origin, outside>> /\ faults' # 0
          /\ procs'[Merger] = [procs[Merger] EXCEPT !.step = "fail"]
      BY <1>16 DEF Busy, GoTo, repo, Typed, ProcsTyped, RestTyped
    <2>3. /\ procs'[Merger].step = "fail"
          /\ procs'[Merger].commit = procs[Merger].commit
          /\ procs'[Merger].task = procs[Merger].task
      BY <2>1, <2>2 DEF CheckedMerge
    <2>4. ~At(Merger, "push")' /\ Solid \subseteq Solid'
      BY <2>1, <2>2, <2>3 DEF At, Solid
    <2>5. LandedSettled'
      BY <2>2, <2>4, SettledStays DEF RepoSafe, LandedSettled
    <2>6. QED
      BY <2>1, <2>2, <2>3, <2>4, <2>5 DEF RepoSafe, MergeKnows, LocalPushed, LandedSteps
  <1>20. ASSUME NEW q \in Processes, NEW t \in Tasks, PatchMode(q, t)
         PROVE  RepoSafe' /\ Solid \subseteq Solid'
    BY <1>20, RepoKept DEF PatchMode, repo
  <1>21. QED
    BY <1>1, <1>2, <1>3, <1>4, <1>5, <1>6, <1>7, <1>8, <1>9, <1>10, <1>11, <1>12, <1>13,
       <1>14, <1>15, <1>16, <1>18, <1>19, <1>20 DEF Next
-----------------------------------------------------------------------------
(* Merged and completed mean landed.                                       *)
Done(t) == \E c \in 1 .. MaxCommits : <<t, c>> \in Solid
Accounted(t) == Done(t) \/ \E u \in Tasks : t \in Mentions[u] /\ Done(u)

MergedRowsDone ==
    \A r \in Prs : prs[r] \in PrRow /\ prs[r].status = "merged" => Done(prs[r].task)
CompletedTasksDone == \A t \in Tasks \ exempt : status[t] = "completed" => Accounted(t)
CompletionsDone ==
    \A q \in Processes :
        /\ procs[q] \in TaskRequest /\ procs[q].to = "completed" =>
             procs[q].task \in exempt \/ Done(procs[q].task)
        /\ procs[q] \in HandoffRequest => procs[q].task \in exempt
ConfirmationsDone == \A a \in Attempts : ledger[a].stage = "confirmed" => Done(ledger[a].task)

WorkDone == MergedRowsDone /\ CompletedTasksDone /\ CompletionsDone /\ ConfirmationsDone

LEMMA DoneStays ==
    ASSUME Solid \subseteq Solid', NEW t
    PROVE  /\ Done(t) => Done(t)'
           /\ Accounted(t) => Accounted(t)'
  BY DEF Done, Accounted

\* A merge that says so has landed its task.
LEMMA MergeDone ==
    ASSUME Typed, RepoSafe, procs[Merger] \in CheckedMerge, procs[Merger].step \in LandedSteps
    PROVE  procs[Merger].task \in Tasks /\ Done(procs[Merger].task)
  <1>1. Contains(Solid, procs[Merger].commit) /\ procs[Merger].commit[1] = procs[Merger].task
    BY DEF RepoSafe, MergeKnows
  <1>2. procs[Merger].commit \in Commits /\ procs[Merger].task \in Tasks
    BY DEF CheckedMerge
  <1>3. PICK t \in Tasks, c \in 1 .. MaxCommits : procs[Merger].commit = <<t, c>>
    BY <1>2 DEF Commits
  <1>4. PICK m \in c .. MaxCommits : <<t, m>> \in Solid
    BY <1>1, <1>3 DEF Contains
  <1>5. m \in 1 .. MaxCommits
    OBVIOUS
  <1>6. QED
    BY <1>1, <1>2, <1>3, <1>4, <1>5 DEF Done

\* A task that was exempt stays so.
LEMMA ExemptStays == Next => exempt \subseteq exempt'
  <1>1. ASSUME NEW t \in Tasks, NEW q \in Processes, PatchMode(q, t)
        PROVE  exempt \subseteq exempt'
    BY <1>1 DEF PatchMode
  <1>2. QED
    BY <1>1
       DEF Next, StartBranch, Commit, ChecksPass, GitHubMerge, NoRequest, ReadTask, ReadHandoff,
           MergeIntent, HookMerge, PushByOthers, ReadPr, WritePr, WriteTask, WriteHandoff, Crash,
           MergeRead, MergeGuard, MergeRefused, MergeLock, GitSync, GitMerge, GitMergeFails, GitPush,
           GitPushFails, MergeBack, MergeRecord, MergeSha, MergeComplete, MergeSiblings,
           MergeConfirm, MergeFail, Busy

LEMMA WorkDoneInit == Init => WorkDone
  BY InitialAssumption, NoPrAssumption, IdleAssumption
     DEF Init, WorkDone, MergedRowsDone, CompletedTasksDone, CompletionsDone, ConfirmationsDone, Process

\* Only the merge records a pull request as merged.
LEMMA MergedRowsStep ==
    ASSUME Typed, RepoSafe, WorkDone, Next, Solid \subseteq Solid'
    PROVE  MergedRowsDone'
  <1> USE MergerAssumption
  <1>1. CASE UNCHANGED prs
    BY <1>1, DoneStays DEF WorkDone, MergedRowsDone
  <1>2. ASSUME NEW t \in Tasks, NEW r \in Prs, StartBranch(t, r)
        PROVE  MergedRowsDone'
    BY <1>2, DoneStays DEF StartBranch, WorkDone, MergedRowsDone, Typed, RowsTyped
  <1>3. ASSUME NEW q \in Processes, WritePr(q)
        PROVE  MergedRowsDone'
    <2> DEFINE r == procs[q].pr
               step == procs[q].step
    <2>1. procs[q] \in PrRequest
      BY <1>3, Shapes DEF WritePr, Typed
    <2>2. prs[r] \in PrRow /\ r \in Prs
      BY <2>1 DEF PrRequest, Typed, RowsKnown
    <2>3. CASE SetPr(r, PrAfter(r, step))
      <3>1. prs'[r] = [prs[r] EXCEPT !.status = PrAfter(r, step)]
            /\ \A x \in Prs \ {r} : prs'[x] = prs[x]
        BY <2>2, <2>3 DEF SetPr, Typed, RowsTyped
      <3>2. prs'[r].task = prs[r].task
            /\ (prs'[r].status = "merged" => prs[r].status = "merged")
        BY <2>1, <2>2, <3>1 DEF PrAfter, PrRow, PrRequest
      <3>3. QED
        BY <2>2, <3>1, <3>2, DoneStays DEF WorkDone, MergedRowsDone
    <2>4. QED
      BY <1>1, <1>3, <2>3 DEF WritePr
  <1>4. ASSUME NEW s \in {"merging", "open", "merged"}, SetPr(procs[Merger].pr, s),
               procs[Merger] \in CheckedMerge, s = "merged" => procs[Merger].step = "record"
        PROVE  MergedRowsDone'
    <2> DEFINE r == procs[Merger].pr
    <2>1. prs[r] \in PrRow /\ r \in Prs /\ prs[r].task = procs[Merger].task
      BY <1>4 DEF CheckedMerge, Typed, RowsKnown
    <2>2. /\ prs'[r].task = prs[r].task /\ prs'[r].status = s
          /\ \A x \in Prs \ {r} : prs'[x] = prs[x]
      BY <1>4, <2>1 DEF SetPr, Typed, RowsTyped, PrRow
    <2>3. s = "merged" => Done(prs[r].task)
      BY <1>4, <2>1, MergeDone DEF LandedSteps
    <2>4. QED
      BY <2>1, <2>2, <2>3, DoneStays DEF WorkDone, MergedRowsDone
  <1>5. CASE MergeLock \/ MergeBack
    <2>1. procs[Merger] \in CheckedMerge
      BY <1>5, Shapes DEF MergeLock, MergeBack, MergeSteps, Typed
    <2>2. QED
      BY <1>1, <1>4, <1>5, <2>1 DEF MergeLock, MergeBack
  <1>6. CASE MergeRecord
    <2>1. procs[Merger] \in CheckedMerge /\ procs[Merger].step = "record"
      BY <1>6, Shapes DEF MergeRecord, MergeSteps, Typed, At
    <2>2. QED
      BY <1>4, <1>6, <2>1 DEF MergeRecord
  <1>7. CASE MergeSha
    <2> DEFINE r == procs[Merger].pr
    <2>1. procs[Merger] \in CheckedMerge
      BY <1>7, Shapes DEF MergeSha, MergeSteps, Typed
    <2>2. prs[r] \in PrRow /\ r \in Prs
      BY <2>1 DEF CheckedMerge, Typed, RowsKnown
    <2>3. /\ prs'[r].task = prs[r].task /\ prs'[r].status = prs[r].status
          /\ \A x \in Prs \ {r} : prs'[x] = prs[x]
      BY <1>7, <2>2 DEF MergeSha, Typed, RowsTyped, PrRow
    <2>4. QED
      BY <2>2, <2>3, DoneStays DEF WorkDone, MergedRowsDone
  <1>8. QED
    BY <1>1, <1>2, <1>3, <1>5, <1>6, <1>7
       DEF Next, Commit, ChecksPass, GitHubMerge, NoRequest, ReadTask, PatchMode, ReadHandoff,
           MergeIntent, HookMerge, PushByOthers, ReadPr, WriteTask, WriteHandoff, Crash,
           MergeRead, MergeGuard, MergeRefused, GitSync, GitMerge, GitMergeFails, GitPush, GitPushFails,
           MergeComplete, MergeSiblings, MergeConfirm, MergeFail, Busy

\* A task is completed by a request that saw a merged pull request or that it is exempt, by its
\* own merge, or as one that the merged pull request names.
LEMMA CompletedTasksStep ==
    ASSUME Typed, RepoSafe, WorkDone, Next, Solid \subseteq Solid'
    PROVE  CompletedTasksDone'
  <1> USE MergerAssumption
  <1>0. exempt \subseteq exempt'
    BY ExemptStays
  <1>1. CASE UNCHANGED status
    BY <1>0, <1>1, DoneStays DEF WorkDone, CompletedTasksDone
  <1>2. ASSUME NEW t \in Tasks, NEW s \in TaskStatuses, status' = [status EXCEPT ![t] = s],
               s = "completed" => t \in exempt \/ Done(t)
        PROVE  CompletedTasksDone'
    BY <1>0, <1>2, DoneStays DEF WorkDone, CompletedTasksDone, Accounted, Typed, RowsTyped
  <1>3. ASSUME NEW q \in Processes, WritePr(q)
        PROVE  CompletedTasksDone'
    <2>1. procs[q] \in PrRequest
      BY <1>3, Shapes DEF WritePr, Typed
    <2>2. procs[q].task \in Tasks /\ TaskAfter(procs[q].step) \in TaskStatuses \ {"completed"}
      BY <2>1 DEF PrRequest, TaskAfter, TaskStatuses
    <2>3. UNCHANGED status \/ status' = [status EXCEPT ![procs[q].task] = TaskAfter(procs[q].step)]
      BY <1>3, TasksWritten, NoTasksWritten DEF WritePr, Typed
    <2>4. QED
      BY <1>1, <1>2, <2>2, <2>3
  <1>4. ASSUME NEW q \in Processes, WriteTask(q)
        PROVE  CompletedTasksDone'
    <2>1. procs[q] \in TaskRequest
      BY <1>4, Shapes DEF WriteTask, Typed
    <2>2. UNCHANGED status \/ status' = [status EXCEPT ![procs[q].task] = procs[q].to]
      BY <1>4, TasksWritten, NoTasksWritten DEF WriteTask, Typed
    <2>3. procs[q].task \in Tasks /\ procs[q].to \in TaskStatuses
          /\ (procs[q].to = "completed" => procs[q].task \in exempt \/ Done(procs[q].task))
      BY <2>1 DEF TaskRequest, WorkDone, CompletionsDone
    <2>4. QED
      BY <1>1, <1>2, <2>2, <2>3
  <1>5. CASE MergeComplete
    <2>1. procs[Merger] \in CheckedMerge /\ procs[Merger].step = "complete"
      BY <1>5, Shapes DEF MergeComplete, MergeSteps, Typed, At
    <2>2. Done(procs[Merger].task) /\ procs[Merger].task \in Tasks
      BY <2>1, MergeDone DEF LandedSteps
    <2>3. UNCHANGED status \/ status' = [status EXCEPT ![procs[Merger].task] = "completed"]
      BY <1>5, TasksWritten, NoTasksWritten DEF MergeComplete, Typed
    <2>4. QED
      BY <1>1, <1>2, <2>2, <2>3 DEF TaskStatuses
  <1>6. CASE MergeSiblings
    <2> DEFINE t == procs[Merger].task
    <2>1. procs[Merger] \in CheckedMerge /\ procs[Merger].step = "siblings"
      BY <1>6, Shapes DEF MergeSiblings, MergeSteps, Typed, At
    <2>2. Done(t) /\ t \in Tasks
      BY <2>1, MergeDone DEF LandedSteps
    <2>3. PICK some \in SUBSET Closable(t) :
            WriteTasks([s \in Tasks |-> IF s \in some THEN SiblingAfter(s) ELSE status[s]],
                       {}, Merger)
      BY <1>6 DEF MergeSiblings
    <2>4. status' = [s \in Tasks |-> IF s \in some THEN SiblingAfter(s) ELSE status[s]]
      BY <2>3, TasksWritten DEF Typed
    <2>5. some \subseteq Mentions[t]
      BY DEF Closable
    <2>6. ASSUME NEW s \in Tasks \ exempt', status'[s] = "completed"
          PROVE  Accounted(s)'
      <3>1. CASE s \in some
        BY <2>2, <2>5, <3>1, DoneStays DEF Accounted
      <3>2. CASE s \notin some
        BY <1>0, <2>4, <2>6, <3>2, DoneStays DEF WorkDone, CompletedTasksDone
      <3>3. QED
        BY <3>1, <3>2
    <2>7. QED
      BY <2>6 DEF CompletedTasksDone
  <1>7. ASSUME NEW q \in Processes, Crash(q)
        PROVE  UNCHANGED status
    BY <1>7, NoTasksWritten DEF Crash, Typed
  <1>8. CASE MergeConfirm \/ MergeFail
    BY <1>1, <1>8, NoTasksWritten DEF MergeConfirm, MergeFail, Typed
  <1>9. ASSUME NEW q \in Processes, WriteHandoff(q)
        PROVE  CompletedTasksDone'
    <2>1. procs[q].task \in Tasks \cap exempt
      BY <1>9, Shapes DEF WriteHandoff, Typed, HandoffRequest, WorkDone, CompletionsDone
    <2>2. status' = [status EXCEPT ![procs[q].task] = "completed"]
      BY <1>9, TasksWritten DEF WriteHandoff, Typed
    <2>3. QED
      BY <1>2, <2>1, <2>2 DEF TaskStatuses
  <1>10. ASSUME NEW q \in Processes, NEW t \in Tasks, PatchMode(q, t)
         PROVE  UNCHANGED status
    BY <1>10, TasksWritten DEF PatchMode, Typed
  <1>11. QED
    BY <1>1, <1>3, <1>4, <1>5, <1>6, <1>7, <1>8, <1>9, <1>10
       DEF Next, StartBranch, Commit, ChecksPass, GitHubMerge, NoRequest, ReadTask, ReadHandoff,
           MergeIntent, HookMerge, PushByOthers, ReadPr, MergeRead, MergeGuard, MergeRefused, MergeLock, GitSync, GitMerge, GitMergeFails, GitPush,
           GitPushFails, MergeBack, MergeRecord, MergeSha, Busy

\* A request to complete a task found it landed.
LEMMA CompletionsStep ==
    ASSUME Typed, RepoSafe, WorkDone, Next, Solid \subseteq Solid'
    PROVE  CompletionsDone'
  <1> USE MergerAssumption
  <1>0. exempt \subseteq exempt'
    BY ExemptStays
  <1>1. ASSUME \A q \in Processes :
                 procs'[q] \in TaskRequest \cup HandoffRequest => procs'[q] = procs[q]
        PROVE  CompletionsDone'
    BY <1>0, <1>1, DoneStays DEF WorkDone, CompletionsDone
  <1>2. ASSUME NEW q \in Processes, NEW t \in Tasks, NEW s \in TaskStatuses, ReadTask(q, t, s)
        PROVE  CompletionsDone'
    <2> DEFINE new == [step |-> "transition", task |-> t, to |-> s]
    <2>1. procs' = [procs EXCEPT ![q] = new] /\ (s = "completed" => MayComplete(t))
      BY <1>2 DEF ReadTask
    <2>2. MayComplete(t) => t \in exempt \/ Done(t)
      BY DEF MayComplete, Is, WorkDone, MergedRowsDone, Typed, RowsTyped
    <2>3. procs'[q] = new /\ \A p \in Processes \ {q} : procs'[p] = procs[p]
      BY <2>1 DEF Typed, ProcsTyped
    <2>4. new \notin HandoffRequest
      BY DEF HandoffRequest
    <2>5. QED
      BY <1>0, <2>1, <2>2, <2>3, <2>4, DoneStays DEF WorkDone, CompletionsDone
  <1>3. ASSUME NEW q \in Processes, NEW new, procs' = [procs EXCEPT ![q] = new],
               new \notin TaskRequest \cup HandoffRequest
        PROVE  CompletionsDone'
    BY <1>1, <1>3 DEF Typed, ProcsTyped
  <1>4. ASSUME NEW q \in Processes, NEW r \in Prs, NEW step \in {"submit", "close", "changes"},
               ReadPr(q, r, step)
        PROVE  CompletionsDone'
    <2> DEFINE new == [step |-> step, pr |-> r, task |-> prs[r].task]
    <2>1. procs' = [procs EXCEPT ![q] = new] /\ new \notin TaskRequest \cup HandoffRequest
      BY <1>4 DEF ReadPr, TaskRequest, HandoffRequest
    <2>2. QED
      BY <1>3, <2>1
  <1>5. ASSUME NEW q \in Processes, Leave(q)
        PROVE  CompletionsDone'
    BY <1>3, <1>5, IdleAssumption DEF Leave, Process
  <1>6. ASSUME NEW step \in MergeSteps, procs'[Merger].step = step,
               \A p \in Processes \ {Merger} : procs'[p] = procs[p]
        PROVE  CompletionsDone'
    BY <1>1, <1>6 DEF TaskRequest, HandoffRequest, MergeSteps, GitSteps
  <1>7. ASSUME NEW step \in MergeSteps, GoTo(Merger, step), procs[Merger] \in FreshMerge \cup CheckedMerge
        PROVE  CompletionsDone'
    BY <1>6, <1>7 DEF GoTo, FreshMerge, CheckedMerge, Typed, ProcsTyped
  <1>8. ASSUME NEW t \in Tasks, HookMerge(t) \/ \E a \in Attempts : MergeIntent(t, a)
        PROVE  CompletionsDone'
    BY <1>6, <1>8 DEF MergeIntent, HookMerge, MergeSteps, Typed, ProcsTyped
  <1>9. ASSUME NEW r \in Prs, MergeRead(r)
        PROVE  CompletionsDone'
    BY <1>6, <1>9 DEF MergeRead, MergeSteps, Typed, ProcsTyped
  <1>10. CASE GitSync
    <2>1. procs[Merger] \in CheckedMerge
      BY <1>10, Shapes DEF GitSync, MergeSteps, GitSteps, Typed
    <2>2. CASE local \subseteq origin \/ origin \subseteq local
      <3>1. procs'[Merger].step \in {"record", "merge"}
            /\ \A p \in Processes \ {Merger} : procs'[p] = procs[p]
        BY <1>10, <2>1, <2>2 DEF GitSync, Typed, ProcsTyped, CheckedMerge
      <3>2. QED
        BY <1>6, <3>1 DEF MergeSteps, GitSteps
    <2>3. CASE ~(local \subseteq origin \/ origin \subseteq local)
      BY <1>7, <1>10, <2>1, <2>3 DEF GitSync, MergeSteps
    <2>4. QED
      BY <2>2, <2>3
  <1>11. CASE \/ MergeGuard \/ MergeRefused \/ MergeLock \/ GitMerge \/ GitMergeFails \/ GitPush
              \/ GitPushFails \/ MergeBack \/ MergeRecord \/ MergeSha \/ MergeComplete \/ MergeSiblings \/ Busy
    <2>1. procs[Merger] \in FreshMerge \cup CheckedMerge
      BY <1>11, Shapes
         DEF MergeGuard, MergeRefused, MergeLock, GitMerge, GitMergeFails, GitPush, GitPushFails, MergeBack,
             MergeRecord, MergeSha, MergeComplete, MergeSiblings, Busy, MergeSteps, GitSteps, Typed
    <2>2. \E step \in MergeSteps : GoTo(Merger, step)
      BY <1>11
         DEF MergeGuard, MergeRefused, MergeLock, GitMerge, GitMergeFails, GitPush, GitPushFails, MergeBack,
             MergeRecord, MergeSha, MergeComplete, MergeSiblings, Busy, MergeSteps, GitSteps
    <2>3. QED
      BY <1>7, <2>1, <2>2
  <1>12. CASE UNCHANGED procs
    BY <1>1, <1>12
  <1>13. ASSUME NEW q \in Processes, NEW t \in Tasks, ReadHandoff(q, t)
         PROVE  CompletionsDone'
    <2> DEFINE new == [step |-> "handoff", task |-> t]
    <2>1. procs' = [procs EXCEPT ![q] = new] /\ t \in exempt /\ new \notin TaskRequest
      BY <1>13 DEF ReadHandoff, TaskRequest
    <2>2. procs'[q] = new /\ \A p \in Processes \ {q} : procs'[p] = procs[p]
      BY <2>1 DEF Typed, ProcsTyped
    <2>3. QED
      BY <1>0, <2>1, <2>2, DoneStays DEF WorkDone, CompletionsDone
  <1>14. QED
    BY <1>2, <1>4, <1>5, <1>8, <1>9, <1>10, <1>11, <1>12, <1>13
       DEF Next, StartBranch, Commit, ChecksPass, GitHubMerge, NoRequest, PushByOthers, PatchMode,
           WritePr, WriteTask, WriteHandoff, Crash, MergeConfirm, MergeFail

\* Only a merge that landed is confirmed.
LEMMA ConfirmationsStep ==
    ASSUME Typed, RepoSafe, WorkDone, Next, Solid \subseteq Solid'
    PROVE  ConfirmationsDone'
  <1> USE MergerAssumption
  <1>1. CASE UNCHANGED ledger
    BY <1>1, DoneStays DEF WorkDone, ConfirmationsDone
  <1>2. ASSUME NEW t \in Tasks, NEW a \in Attempts, MergeIntent(t, a)
        PROVE  ConfirmationsDone'
    BY <1>2, DoneStays DEF MergeIntent, WorkDone, ConfirmationsDone, Typed, ProcsTyped
  <1>3. CASE MergeConfirm
    <2>1. procs[Merger] \in CheckedMerge /\ procs[Merger].step = "confirm"
      BY <1>3, Shapes DEF MergeConfirm, MergeSteps, Typed, At
    <2>2. Done(procs[Merger].task)
      BY <2>1, MergeDone DEF LandedSteps
    <2>3. CASE procs[Merger].attempt # NoAttempt
      <3>1. procs[Merger].attempt \in Attempts
        BY <2>1, <2>3 DEF CheckedMerge
      <3>2. ledger[procs[Merger].attempt] = [task |-> procs[Merger].task, stage |-> "intent"]
        BY <2>1, <2>3 DEF Typed, ProcsTyped
      <3>3. ledger[procs[Merger].attempt].task = procs[Merger].task
        BY <3>2
      <3>4. ledger' = [ledger EXCEPT ![procs[Merger].attempt].stage = "confirmed"]
        BY <1>3, <2>3 DEF MergeConfirm, Conclude
      <3>5. \A a \in Attempts :
              /\ ledger'[a].task = ledger[a].task
              /\ a # procs[Merger].attempt => ledger'[a] = ledger[a]
        BY <3>1, <3>4 DEF Typed, ProcsTyped, Receipt
      <3>6. QED
        BY <2>2, <3>1, <3>3, <3>5, DoneStays DEF WorkDone, ConfirmationsDone
    <2>4. QED
      BY <1>1, <1>3, <2>3 DEF MergeConfirm, Conclude
  <1>4. CASE MergeFail
    <2>1. procs[Merger] \in FreshMerge \cup CheckedMerge
      BY <1>4, Shapes DEF MergeFail, Typed
    <2>2. CASE procs[Merger].attempt # NoAttempt
      <3>1. procs[Merger].attempt \in Attempts
        BY <2>1, <2>2 DEF FreshMerge, CheckedMerge
      <3>2. ledger' = [ledger EXCEPT ![procs[Merger].attempt].stage = "failed"]
        BY <1>4, <2>2 DEF MergeFail, Conclude
      <3>3. \A a \in Attempts :
              IF a = procs[Merger].attempt THEN ledger'[a].stage = "failed" ELSE ledger'[a] = ledger[a]
        BY <3>1, <3>2 DEF Typed, ProcsTyped, Receipt
      <3>4. QED
        BY <3>3, DoneStays DEF WorkDone, ConfirmationsDone
    <2>3. QED
      BY <1>1, <1>4, <2>2 DEF MergeFail, Conclude
  <1>5. QED
    BY <1>1, <1>2, <1>3, <1>4
       DEF Next, StartBranch, Commit, ChecksPass, GitHubMerge, NoRequest, ReadTask, PatchMode,
           ReadHandoff, HookMerge, PushByOthers, ReadPr, WritePr, WriteTask, WriteHandoff,
           Crash, MergeRead, MergeGuard, MergeRefused, MergeLock, GitSync, GitMerge, GitMergeFails, GitPush,
           GitPushFails, MergeBack, MergeRecord, MergeSha, MergeComplete, MergeSiblings, Busy

LEMMA WorkDoneStep ==
    ASSUME Typed, RepoSafe, WorkDone, [Next]_vars, Typed'
    PROVE  RepoSafe' /\ WorkDone'
  <1>1. CASE Next
    BY <1>1, RepoStep, MergedRowsStep, CompletedTasksStep, CompletionsStep, ConfirmationsStep
       DEF WorkDone
  <1>2. CASE UNCHANGED vars
    <2>1. RepoSafe' /\ Solid' = Solid
      <3>1. UNCHANGED <<head, tested, local, origin, outside, faults, procs>>
        BY <1>2 DEF vars, repo
      <3>2. RepoSafe'
        BY <3>1, RepoKept
      <3>3. QED
        BY <3>1, <3>2 DEF Solid, At
    <2>2. \A t : (Done(t) <=> Done(t)') /\ (Accounted(t) <=> Accounted(t)')
      BY <2>1 DEF Done, Accounted
    <2>3. QED
      BY <1>2, <2>1, <2>2 DEF vars, WorkDone, MergedRowsDone, CompletedTasksDone, CompletionsDone,
         ConfirmationsDone
  <1>3. QED
    BY <1>1, <1>2

LEMMA WorkDoneMeansLanded ==
    ASSUME Typed, RepoSafe, WorkDone
    PROVE  CompletedWorkLanded
  <1>1. \A t : Done(t) => Landed(t)
    BY SolidIsOnTarget DEF Done, Landed
  <1>2. QED
    BY <1>1 DEF CompletedWorkLanded, WorkDone, MergedRowsDone, CompletedTasksDone, Accounted, Is,
       Typed, RowsTyped
-----------------------------------------------------------------------------
(* While there is no fault.                                                *)

\* What a pull request is at while its merge runs.
MergingSteps == GitSteps \cup {"back", "record"}

MergingIsWorkedOn ==
    \A r \in Prs : Is(r, {"merging"}) =>
        /\ procs[Merger] \in CheckedMerge
        /\ procs[Merger].step \in MergingSteps /\ procs[Merger].pr = r

IntentIsWorkedOn ==
    \A a \in Attempts : ledger[a].stage = "intent" =>
        procs[Merger] \in FreshMerge \cup CheckedMerge /\ procs[Merger].attempt = a

\* A merge without a receipt is one that GitHub reported.
MergedOutside(t) == \E c \in outside : c[1] = t
HooksFollowGitHub ==
    procs[Merger] \in FreshMerge \cup CheckedMerge /\ procs[Merger].attempt = NoAttempt =>
        MergedOutside(procs[Merger].task)

\* The merge that landed and has not yet said so.
Landing(a) ==
    /\ procs[Merger] \in CheckedMerge
    /\ procs[Merger].step \in LandedSteps /\ procs[Merger].attempt = a
LandedIsReceipted ==
    \A t \in Tasks : Done(t) =>
        \/ \E a \in Attempts : ledger[a].task = t /\ (ledger[a].stage = "confirmed" \/ Landing(a))
        \/ MergedOutside(t)

Clean ==
    faults = 0 =>
        MergingIsWorkedOn /\ IntentIsWorkedOn /\ HooksFollowGitHub /\ LandedIsReceipted

\* The steps of requests that are no merges, and those of others.
OtherRequest ==
    \/ \E t \in Tasks :
        \/ \E r \in Prs : StartBranch(t, r)
        \/ Commit(t) \/ GitHubMerge(t)
        \/ \E n \in 1 .. MaxCommits : ChecksPass(t, n)
        \/ \E q \in Processes :
            \/ \E s \in TaskStatuses : ReadTask(q, t, s)
            \/ PatchMode(q, t) \/ ReadHandoff(q, t)
    \/ \E x \in Externals : PushByOthers(x)
    \/ \E q \in Processes :
        \/ \E r \in Prs, step \in {"submit", "close", "changes"} : ReadPr(q, r, step)
        \/ WritePr(q) \/ WriteTask(q) \/ WriteHandoff(q)

\* A merge begins.
Begin == \E t \in Tasks : HookMerge(t) \/ \E a \in Attempts : MergeIntent(t, a)

\* What it read is checked, or it is refused.
Check == MergeRefused \/ \E r \in Prs : MergeRead(r)

\* The steps past that which lead to the next one.
Walk ==
    \/ MergeGuard \/ MergeLock \/ GitSync \/ GitMerge \/ GitMergeFails \/ GitPush \/ GitPushFails
    \/ MergeBack \/ MergeRecord \/ MergeSha \/ MergeComplete \/ MergeSiblings

LEMMA NextSteps ==
    ASSUME Typed, Next, Typed', faults' = 0
    PROVE  /\ faults = 0
           /\ OtherRequest \/ Begin \/ Check \/ Walk \/ MergeConfirm \/ MergeFail
  <1>1. faults \in Nat
    BY BoundAssumption DEF Typed, RestTyped
  <1>2. ~Busy /\ \A q \in Processes : ~Crash(q)
    BY <1>1 DEF Busy, Crash
  <1>3. OtherRequest \/ Begin \/ Check \/ Walk \/ MergeConfirm \/ MergeFail
    BY <1>2 DEF Next, OtherRequest, Begin, Check, Walk
  <1>4. OtherRequest \/ Begin \/ Check \/ MergeConfirm \/ MergeFail => UNCHANGED faults
    BY DEF OtherRequest, StartBranch, Commit, ChecksPass, GitHubMerge, ReadTask, PatchMode,
       ReadHandoff, PushByOthers, ReadPr, WritePr, WriteTask, WriteHandoff, NoRequest, Begin,
       HookMerge, MergeIntent, Check, MergeRefused, MergeRead, MergeConfirm, MergeFail
  <1>5. Walk => UNCHANGED faults \/ faults' = faults + 1
    BY DEF Walk, MergeGuard, MergeLock, GitSync, GitMerge, GitMergeFails, GitPush, GitPushFails,
       MergeBack, MergeRecord, MergeSha, MergeComplete, MergeSiblings
  <1>6. QED
    BY <1>1, <1>3, <1>4, <1>5

\* Without a fault, a push that fails leaves the remote as it is.
LEMMA RefusedPush ==
    ASSUME Typed, GitPushFails, faults' = 0
    PROVE  UNCHANGED origin
  BY BoundAssumption DEF Typed, RestTyped, GitPushFails

\* A request leaves a merge and its receipt alone, and nothing of a task comes to the remote
\* but what is merged there.
LEMMA RequestLeavesMerge ==
    ASSUME Typed, OtherRequest
    PROVE  /\ \/ UNCHANGED procs[Merger]
              \/ {procs[Merger], procs'[Merger]} \cap (FreshMerge \cup CheckedMerge) = {}
           /\ UNCHANGED ledger
           /\ outside \subseteq outside'
           /\ (origin' \ origin) \cap Commits \subseteq outside'
  <1>1. /\ UNCHANGED ledger
        /\ outside \subseteq outside'
        /\ (origin' \ origin) \cap Commits \subseteq outside'
    BY ExternalsAssumption
       DEF OtherRequest, StartBranch, Commit, ChecksPass, GitHubMerge, ReadTask, PatchMode,
           ReadHandoff, PushByOthers, ReadPr, WritePr, WriteTask, WriteHandoff, NoRequest, repo
  <1> DEFINE Requests == PrRequest \cup TaskRequest \cup HandoffRequest \cup {Idle}
  <1>2. \/ UNCHANGED procs
        \/ \E q \in Processes, new \in Requests :
            procs[q] \in Requests /\ procs' = [procs EXCEPT ![q] = new]
    <2>1. ASSUME NEW q \in Processes, NEW t \in Tasks, NEW s \in TaskStatuses, ReadTask(q, t, s)
          PROVE  \E new \in Requests : procs[q] \in Requests /\ procs' = [procs EXCEPT ![q] = new]
      <3>1. [step |-> "transition", task |-> t, to |-> s] \in TaskRequest
        BY DEF TaskRequest
      <3>2. QED
        BY <2>1, <3>1 DEF ReadTask
    <2>2. ASSUME NEW q \in Processes, NEW t \in Tasks, ReadHandoff(q, t)
          PROVE  \E new \in Requests : procs[q] \in Requests /\ procs' = [procs EXCEPT ![q] = new]
      <3>1. [step |-> "handoff", task |-> t] \in HandoffRequest
        BY DEF HandoffRequest
      <3>2. QED
        BY <2>2, <3>1 DEF ReadHandoff
    <2>3. ASSUME NEW q \in Processes, NEW r \in Prs, NEW step \in {"submit", "close", "changes"},
                 ReadPr(q, r, step)
          PROVE  \E new \in Requests : procs[q] \in Requests /\ procs' = [procs EXCEPT ![q] = new]
      <3>1. [step |-> step, pr |-> r, task |-> prs[r].task] \in PrRequest
        BY <2>3 DEF ReadPr, Is, PrRequest, PrRow, Typed, RowsTyped
      <3>2. QED
        BY <2>3, <3>1 DEF ReadPr
    <2>4. ASSUME NEW q \in Processes, WritePr(q) \/ WriteTask(q) \/ WriteHandoff(q)
          PROVE  \E new \in Requests : procs[q] \in Requests /\ procs' = [procs EXCEPT ![q] = new]
      <3>1. procs[q] \in Requests
        BY <2>4, Shapes DEF Typed, WritePr, WriteTask, WriteHandoff
      <3>2. procs' = [procs EXCEPT ![q] = Idle]
        BY <2>4 DEF WritePr, WriteTask, WriteHandoff, Leave
      <3>3. QED
        BY <3>1, <3>2
    <2>5. \/ UNCHANGED procs
          \/ \E q \in Processes, t \in Tasks :
              (\E s \in TaskStatuses : ReadTask(q, t, s)) \/ ReadHandoff(q, t)
          \/ \E q \in Processes, r \in Prs, step \in {"submit", "close", "changes"} : ReadPr(q, r, step)
          \/ \E q \in Processes : WritePr(q) \/ WriteTask(q) \/ WriteHandoff(q)
      BY DEF OtherRequest, StartBranch, Commit, ChecksPass, GitHubMerge, PatchMode, PushByOthers,
         NoRequest
    <2>6. QED
      <3> HIDE DEF Requests
      <3>1. CASE \E q \in Processes, t \in Tasks :
              (\E s \in TaskStatuses : ReadTask(q, t, s)) \/ ReadHandoff(q, t)
        BY <2>1, <2>2, <3>1
      <3>2. CASE \E q \in Processes, r \in Prs, step \in {"submit", "close", "changes"} :
                   ReadPr(q, r, step)
        BY <2>3, <3>2
      <3>3. CASE \E q \in Processes : WritePr(q) \/ WriteTask(q) \/ WriteHandoff(q)
        BY <2>4, <3>3
      <3>4. QED
        BY <2>5, <3>1, <3>2, <3>3
  <1>3. Requests \cap (FreshMerge \cup CheckedMerge) = {}
    BY RequestsAreNotMerges, IdleAssumption DEF Process
  <1>4. QED
    <2> HIDE DEF Requests
    <2> QED BY <1>1, <1>2, <1>3, MergerAssumption DEF Typed, ProcsTyped

\* A merge that begins works on no receipt but its own.
LEMMA MergeBegins ==
    ASSUME Typed, Begin
    PROVE  /\ procs[Merger] = Idle /\ procs'[Merger] \in FreshMerge
           /\ UNCHANGED <<prs, origin, outside>>
           /\ \/ procs'[Merger].attempt = NoAttempt /\ MergedOutside(procs'[Merger].task)
                 /\ UNCHANGED ledger
              \/ \E a \in Attempts :
                  /\ procs'[Merger].attempt = a /\ ledger[a].stage = "none"
                  /\ \A b \in Attempts \ {a} : ledger'[b] = ledger[b]
  <1> USE MergerAssumption
  <1>1. ASSUME NEW t \in Tasks, HookMerge(t)
        PROVE  /\ procs'[Merger] = [step |-> "check", task |-> t, attempt |-> NoAttempt]
               /\ MergedOutside(t)
    BY <1>1 DEF HookMerge, MergedOutside, Typed, ProcsTyped
  <1>2. ASSUME NEW t \in Tasks, NEW a \in Attempts, MergeIntent(t, a)
        PROVE  /\ procs'[Merger] = [step |-> "check", task |-> t, attempt |-> a]
               /\ \A b \in Attempts \ {a} : ledger'[b] = ledger[b]
    BY <1>2 DEF MergeIntent, Typed, ProcsTyped
  <1>3. procs[Merger] = Idle /\ UNCHANGED <<prs, origin, outside>>
    BY DEF Begin, HookMerge, MergeIntent, repo
  <1>4. ASSUME NEW t \in Tasks, NEW a \in Attempts \cup {NoAttempt},
               procs'[Merger] = [step |-> "check", task |-> t, attempt |-> a]
        PROVE  /\ procs'[Merger] \in FreshMerge
               /\ procs'[Merger].attempt = a /\ procs'[Merger].task = t
    BY <1>4 DEF FreshMerge
  <1>5. ASSUME NEW t \in Tasks, HookMerge(t)
        PROVE  /\ procs'[Merger] \in FreshMerge /\ procs'[Merger].attempt = NoAttempt
               /\ MergedOutside(procs'[Merger].task) /\ UNCHANGED ledger
    <2>1. NoAttempt \in Attempts \cup {NoAttempt}
      OBVIOUS
    <2>2. /\ procs'[Merger] \in FreshMerge
          /\ procs'[Merger].attempt = NoAttempt /\ procs'[Merger].task = t
      <3>1. procs'[Merger] = [step |-> "check", task |-> t, attempt |-> NoAttempt]
        BY <1>1, <1>5
      <3>2. QED
        BY <1>4, <2>1, <3>1
    <2>3. MergedOutside(t) /\ UNCHANGED ledger
      BY <1>1, <1>5 DEF HookMerge
    <2>4. QED
      BY <2>2, <2>3
  <1>6. ASSUME NEW t \in Tasks, NEW a \in Attempts, MergeIntent(t, a)
        PROVE  /\ procs'[Merger] \in FreshMerge /\ procs'[Merger].attempt = a
               /\ ledger[a].stage = "none" /\ \A b \in Attempts \ {a} : ledger'[b] = ledger[b]
    <2>1. a \in Attempts \cup {NoAttempt}
      OBVIOUS
    <2>2. procs'[Merger] \in FreshMerge /\ procs'[Merger].attempt = a
      <3>1. procs'[Merger] = [step |-> "check", task |-> t, attempt |-> a]
        BY <1>2, <1>6
      <3>2. QED
        BY <1>4, <2>1, <3>1
    <2>3. QED
      BY <1>2, <1>6, <2>2 DEF MergeIntent
  <1>7. QED
    BY <1>3, <1>5, <1>6 DEF Begin

\* It goes on with its attempt when its checks are done.
LEMMA MergeChecks ==
    ASSUME Typed, Check
    PROVE  /\ {procs[Merger], procs'[Merger]} \subseteq FreshMerge \cup CheckedMerge
           /\ procs'[Merger].attempt = procs[Merger].attempt
           /\ procs'[Merger].task = procs[Merger].task
           /\ procs[Merger].step \in {"check", "guard"}
           /\ UNCHANGED <<prs, ledger, origin, outside>>
  <1> USE MergerAssumption
  <1>1. /\ procs[Merger] \in FreshMerge \cup CheckedMerge
        /\ procs[Merger].step \in {"check", "guard"}
        /\ UNCHANGED <<prs, ledger, origin, outside>>
    BY Shapes DEF Check, MergeRefused, MergeRead, At, Typed, MergeSteps, GitSteps, repo
  <1>2. CASE MergeRefused
    <2>1. procs'[Merger] = [procs[Merger] EXCEPT !.step = "fail"]
      BY <1>2 DEF MergeRefused, GoTo, Typed, ProcsTyped
    <2>2. ASSUME procs[Merger] \in FreshMerge
          PROVE  /\ procs'[Merger] \in FreshMerge
                 /\ procs'[Merger].attempt = procs[Merger].attempt
                 /\ procs'[Merger].task = procs[Merger].task
      BY <2>1, <2>2 DEF FreshMerge
    <2>3. ASSUME procs[Merger] \in CheckedMerge
          PROVE  /\ procs'[Merger] \in CheckedMerge
                 /\ procs'[Merger].attempt = procs[Merger].attempt
                 /\ procs'[Merger].task = procs[Merger].task
      BY <2>1, <2>3 DEF CheckedMerge, MergeSteps
    <2>4. QED
      BY <1>1, <2>2, <2>3
  <1>3. ASSUME NEW r \in Prs, MergeRead(r)
        PROVE  /\ procs'[Merger] \in CheckedMerge
               /\ procs'[Merger].attempt = procs[Merger].attempt
               /\ procs'[Merger].task = procs[Merger].task
    <2> DEFINE t == procs[Merger].task
               new == [step |-> "guard", task |-> t, attempt |-> procs[Merger].attempt,
                       pr |-> r, commit |-> <<t, head[t]>>, base |-> {}]
    <2>1. procs[Merger] \in FreshMerge
      BY <1>3, Shapes DEF MergeRead, Typed
    <2>2. t \in Tasks /\ procs[Merger].attempt \in Attempts \cup {NoAttempt} /\ {} \in Contents
      BY <2>1 DEF FreshMerge, Contents
    <2>3. procs'[Merger] = new /\ head[t] > 0
      BY <1>3 DEF MergeRead, Typed, ProcsTyped
    <2>4. <<t, head[t]>> \in Commits
      BY <2>2, <2>3, BoundAssumption DEF Commits, Typed, RepoTyped
    <2>5. new \in CheckedMerge
      BY <2>2, <2>4 DEF CheckedMerge, MergeSteps
    <2>6. QED
      BY <2>3, <2>5
  <1>4. QED
    BY <1>1, <1>2, <1>3 DEF Check

\* Where a merge may go from a step.
MayGo(from, to) ==
    \/ from = "guard" /\ to = "lock"
    \/ from = "lock" /\ to \in {"sync", "fail"}
    \/ from \in GitSteps /\ to \in MergingSteps
    \/ from = "back" /\ to = "fail"
    \/ from = "record" /\ to = "sha"
    \/ from \in {"sha", "complete", "siblings"} /\ to \in {"complete", "siblings", "confirm"}

LEMMA MergeWalks ==
    ASSUME Typed, Walk
    PROVE  /\ {procs[Merger], procs'[Merger]} \subseteq CheckedMerge
           /\ procs'[Merger].pr = procs[Merger].pr
           /\ procs'[Merger].attempt = procs[Merger].attempt
           /\ procs'[Merger].task = procs[Merger].task
           /\ MayGo(procs[Merger].step, procs'[Merger].step)
           /\ UNCHANGED <<ledger, outside>>
  <1> USE MergerAssumption
  <1>1. procs[Merger] \in CheckedMerge
    BY Shapes DEF Typed, Walk, MergeGuard, MergeLock, GitSync, GitMerge, GitMergeFails, GitPush,
       GitPushFails, MergeBack, MergeRecord, MergeSha, MergeComplete, MergeSiblings, MergeSteps,
       GitSteps
  <1>2. UNCHANGED <<ledger, outside>>
    BY DEF Walk, MergeGuard, MergeLock, GitSync, GitMerge, GitMergeFails, GitPush, GitPushFails,
       MergeBack, MergeRecord, MergeSha, MergeComplete, MergeSiblings, repo
  <1>3. \/ \E step \in MergeSteps \ {"check"} : GoTo(Merger, step) /\ MayGo(procs[Merger].step, step)
        \/ GitSync /\ (local \subseteq origin \/ origin \subseteq local)
    BY DEF Walk, MergeGuard, MergeLock, GitSync, GitMerge, GitMergeFails, GitPush, GitPushFails,
       MergeBack, MergeRecord, MergeSha, MergeComplete, MergeSiblings, MayGo, At, MergingSteps,
       MergeSteps, GitSteps
  <1>4. CASE \E step \in MergeSteps \ {"check"} : GoTo(Merger, step) /\ MayGo(procs[Merger].step, step)
    <2>1. PICK step \in MergeSteps \ {"check"} :
            /\ procs'[Merger] = [procs[Merger] EXCEPT !.step = step]
            /\ MayGo(procs[Merger].step, step)
      BY <1>4 DEF GoTo, Typed, ProcsTyped
    <2>2. /\ procs'[Merger] \in CheckedMerge /\ procs'[Merger].step = step
          /\ procs'[Merger].pr = procs[Merger].pr /\ procs'[Merger].attempt = procs[Merger].attempt
          /\ procs'[Merger].task = procs[Merger].task
      BY <1>1, <2>1 DEF CheckedMerge
    <2>3. QED
      BY <1>1, <1>2, <2>1, <2>2
  <1>5. CASE GitSync /\ (local \subseteq origin \/ origin \subseteq local)
    <2> DEFINE synced == local \cup origin
               step == IF Contains(synced, procs[Merger].commit) THEN "record" ELSE "merge"
    <2>1. procs'[Merger] = [procs[Merger] EXCEPT !.base = synced, !.step = step]
          /\ procs[Merger].step = "sync"
      BY <1>5 DEF GitSync, At, Typed, ProcsTyped
    <2>2. synced \in Contents /\ step \in {"record", "merge"}
      BY DEF Typed, RepoTyped, Contents
    <2>3. /\ procs'[Merger] \in CheckedMerge /\ procs'[Merger].step = step
          /\ procs'[Merger].pr = procs[Merger].pr /\ procs'[Merger].attempt = procs[Merger].attempt
          /\ procs'[Merger].task = procs[Merger].task
      <3> HIDE DEF synced, step
      <3>1. QED
        BY <1>1, <2>1, <2>2 DEF CheckedMerge, MergeSteps, GitSteps
    <2>4. MayGo("sync", step)
      BY <2>2 DEF MayGo, MergingSteps, GitSteps
    <2>5. QED
      BY <1>1, <1>2, <2>1, <2>3, <2>4
  <1>6. QED
    BY <1>3, <1>4, <1>5

\* A step that makes no pull request merging, and in which no merge leaves the merging steps.
LEMMA MergingKept ==
    ASSUME MergingIsWorkedOn,
           \A r \in Prs : Is(r, {"merging"})' => Is(r, {"merging"}),
           \/ UNCHANGED procs[Merger]
           \/ procs[Merger] \notin CheckedMerge \/ procs[Merger].step \notin MergingSteps
           \/ /\ procs'[Merger] \in CheckedMerge /\ procs'[Merger].step \in MergingSteps
              /\ procs'[Merger].pr = procs[Merger].pr
    PROVE  MergingIsWorkedOn'
  BY DEF MergingIsWorkedOn

\* The status of one pull request is set.
LEMMA OneRowSet ==
    ASSUME Typed, NEW r \in Prs, prs[r] \in PrRow, NEW s \in ActiveStatuses \cup {"merged", "closed"},
           SetPr(r, s)
    PROVE  /\ Is(r, {"merging"})' <=> s = "merging"
           /\ \A x \in Prs \ {r} : Is(x, {"merging"})' <=> Is(x, {"merging"})
  <1>1. /\ prs' = [prs EXCEPT ![r] = prs'[r]] /\ prs'[r].status = s /\ prs'[r] \in PrRow
        /\ \A x \in Prs \ {r} : prs'[x] = prs[x]
    BY DEF SetPr, PrRow, Typed, RowsTyped
  <1>2. QED
    BY <1>1, NoPrAssumption DEF Is

\* A pull request is merging only while its merge runs.
LEMMA MergingStep ==
    ASSUME Typed, MergingIsWorkedOn, Next, Typed', faults' = 0
    PROVE  MergingIsWorkedOn'
  <1> USE MergerAssumption
  <1>1. CASE OtherRequest
    <2>1. UNCHANGED procs[Merger] \/ procs[Merger] \notin CheckedMerge
      BY <1>1, RequestLeavesMerge
    <2>2. CASE UNCHANGED prs
      BY <2>1, <2>2, MergingKept DEF Is
    <2>3. ASSUME NEW t \in Tasks, NEW r \in Prs, StartBranch(t, r)
          PROVE  MergingIsWorkedOn'
      <3>1. \A x \in Prs : Is(x, {"merging"})' => Is(x, {"merging"})
        BY <2>3 DEF StartBranch, Is, Typed, RowsTyped
      <3>2. QED
        BY <2>1, <3>1, MergingKept
    <2>4. ASSUME NEW q \in Processes, WritePr(q)
          PROVE  MergingIsWorkedOn'
      <3> DEFINE r == procs[q].pr
                 s == PrAfter(r, procs[q].step)
      <3>1. procs[q] \in PrRequest
        BY <2>4, Shapes DEF WritePr, Typed
      <3>2. prs[r] \in PrRow /\ r \in Prs
        BY <3>1 DEF PrRequest, Typed, RowsKnown
      <3>3. /\ s \in ActiveStatuses \cup {"merged", "closed"}
            /\ s = "merging" => Is(r, {"merging"})
        BY <3>1, <3>2, NoPrAssumption DEF PrAfter, PrRow, PrRequest, ActiveStatuses, Is
      <3>4. UNCHANGED prs \/ SetPr(r, s)
        BY <2>4 DEF WritePr
      <3>5. CASE SetPr(r, s)
        <4> HIDE DEF r, s
        <4>1. \A x \in Prs : Is(x, {"merging"})' => Is(x, {"merging"})
          BY <3>2, <3>3, <3>5, OneRowSet
        <4>2. QED
          BY <2>1, <4>1, MergingKept
      <3>6. QED
        BY <2>2, <3>4, <3>5
    <2>5. QED
      BY <1>1, <2>2, <2>3, <2>4
         DEF OtherRequest, Commit, ChecksPass, GitHubMerge, ReadTask, PatchMode, ReadHandoff,
             PushByOthers, ReadPr, WriteTask, WriteHandoff, NoRequest
  <1>2. CASE Walk
    <2> DEFINE r == procs[Merger].pr
               from == procs[Merger].step
               to == procs'[Merger].step
    <2>1. /\ procs[Merger] \in CheckedMerge /\ procs'[Merger] \in CheckedMerge
          /\ procs'[Merger].pr = r /\ MayGo(from, to)
      BY <1>2, MergeWalks
    <2>2. prs[r] \in PrRow /\ r \in Prs
      BY <2>1 DEF CheckedMerge, Typed, RowsKnown
    <2>3. CASE UNCHANGED prs /\ from \notin {"back", "record"}
      <3>1. from \notin MergingSteps \/ to \in MergingSteps
        BY <2>1, <2>3 DEF MayGo, MergingSteps, GitSteps
      <3>2. QED
        BY <2>1, <2>3, <3>1, MergingKept DEF Is
    <2>4. ASSUME NEW s \in {"open", "merged"}, SetPr(r, s)
          PROVE  MergingIsWorkedOn'
      <3>1. s \in ActiveStatuses \cup {"merged", "closed"} /\ s # "merging"
        BY DEF ActiveStatuses
      <3>2. \A x \in Prs : Is(x, {"merging"})' => x # r /\ Is(x, {"merging"})
        BY <2>2, <2>4, <3>1, OneRowSet
      <3>3. QED
        BY <3>2 DEF MergingIsWorkedOn
    <2>5. CASE MergeLock
      <3>1. from = "lock" /\ from \notin MergingSteps
        BY <2>5 DEF MergeLock, At, MergingSteps, GitSteps
      <3>2. \A x \in Prs : ~Is(x, {"merging"})
        BY <3>1 DEF MergingIsWorkedOn
      <3>3. CASE UNCHANGED prs
        BY <2>3, <3>1, <3>3
      <3>4. CASE SetPr(r, "merging") /\ GoTo(Merger, "sync")
        <4>1. \A x \in Prs : Is(x, {"merging"})' => x = r
          BY <2>2, <3>2, <3>4, OneRowSet DEF ActiveStatuses
        <4>2. to = "sync"
          BY <2>1, <3>4 DEF GoTo, Typed, ProcsTyped, CheckedMerge
        <4>3. QED
          BY <2>1, <4>1, <4>2 DEF MergingIsWorkedOn, MergingSteps, GitSteps
      <3>5. QED
        BY <2>5, <3>3, <3>4 DEF MergeLock
    <2>6. CASE MergeBack
      \* One merging pull request of its task is the only active one.
      <3>1. Is(r, {"merging"}) => MayBeActive(r)
        BY <2>2 DEF Is, MayBeActive, Typed, RowsTyped, ActiveStatuses
      <3>2. CASE SetPr(r, "open")
        BY <2>4, <3>2
      <3>3. CASE UNCHANGED prs /\ ~Is(r, {"merging"})
        BY <3>3 DEF MergingIsWorkedOn, Is
      <3>4. QED
        BY <2>6, <3>1, <3>2, <3>3 DEF MergeBack
    <2>7. CASE MergeRecord
      BY <2>4, <2>7 DEF MergeRecord
    <2>8. CASE MergeSha
      <3>1. from = "sha" /\ from \notin MergingSteps
        BY <2>8 DEF MergeSha, At, MergingSteps, GitSteps
      <3>2. prs' = [prs EXCEPT ![r].hasSha = TRUE]
        BY <2>8 DEF MergeSha
      <3>3. \A x \in Prs : IF x = r THEN prs'[x].status = prs[x].status ELSE prs'[x] = prs[x]
        BY <2>2, <3>2 DEF Typed, RowsTyped, PrRow
      <3>4. \A x \in Prs : Is(x, {"merging"})' => Is(x, {"merging"})
        BY <2>2, <3>3, NoPrAssumption DEF Is
      <3>5. QED
        BY <3>1, <3>4, MergingKept
    <2>9. CASE \/ MergeGuard \/ GitSync \/ GitMerge \/ GitMergeFails \/ GitPush \/ GitPushFails
               \/ MergeComplete \/ MergeSiblings
      <3>1. UNCHANGED prs /\ from \notin {"back", "record"}
        BY <2>9 DEF MergeGuard, GitSync, GitMerge, GitMergeFails, GitPush, GitPushFails, MergeComplete,
           MergeSiblings, At
      <3>2. QED
        BY <2>3, <3>1
    <2>10. QED
      BY <1>2, <2>5, <2>6, <2>7, <2>8, <2>9 DEF Walk
  <1>3. CASE Begin \/ Check \/ MergeConfirm \/ MergeFail
    <2>1. UNCHANGED prs
      BY <1>3, MergeBegins, MergeChecks DEF MergeConfirm, MergeFail
    <2>2. procs[Merger] = Idle \/ procs[Merger].step \notin MergingSteps
      BY <1>3, MergeBegins, MergeChecks DEF MergeConfirm, MergeFail, At, MergingSteps, GitSteps
    <2>3. Idle \notin CheckedMerge
      BY IdleAssumption DEF Process
    <2>4. QED
      BY <2>1, <2>2, <2>3, MergingKept DEF Is
  <1>4. QED
    BY <1>1, <1>2, <1>3, NextSteps

\* A merge that ends, and what becomes of its receipt.
LEMMA MergeEnds ==
    ASSUME Typed, MergeConfirm \/ MergeFail
    PROVE  /\ procs[Merger] \in FreshMerge \cup CheckedMerge
           /\ procs'[Merger] = Idle
           /\ UNCHANGED <<origin, outside>>
           /\ \/ procs[Merger].attempt = NoAttempt /\ UNCHANGED ledger
              \/ /\ procs[Merger].attempt \in Attempts
                 /\ ledger[procs[Merger].attempt].stage = "intent"
                 /\ \A a \in Attempts \ {procs[Merger].attempt} : ledger'[a] = ledger[a]
                 /\ ledger'[procs[Merger].attempt].task = ledger[procs[Merger].attempt].task
                 /\ ledger'[procs[Merger].attempt].stage \in {"confirmed", "failed"}
                 /\ procs[Merger].step \in LandedSteps =>
                     ledger'[procs[Merger].attempt].stage = "confirmed"
  <1> USE MergerAssumption
  <1>1. procs[Merger] \in FreshMerge \cup CheckedMerge
    BY Shapes DEF MergeConfirm, MergeFail, Typed, MergeSteps
  <1>2. procs'[Merger] = Idle /\ UNCHANGED <<origin, outside>>
    BY DEF MergeConfirm, MergeFail, Leave, Typed, ProcsTyped, repo
  <1>3. PICK s \in {"confirmed", "failed"} :
          Conclude(s) /\ (procs[Merger].step \in LandedSteps => s = "confirmed")
    BY DEF MergeConfirm, MergeFail, At, LandedSteps
  <1>4. CASE procs[Merger].attempt = NoAttempt
    BY <1>1, <1>2, <1>3, <1>4 DEF Conclude
  <1>5. CASE procs[Merger].attempt # NoAttempt
    <2>1. procs[Merger].attempt \in Attempts
      BY <1>1, <1>5 DEF FreshMerge, CheckedMerge
    <2>2. ledger[procs[Merger].attempt] = [task |-> procs[Merger].task, stage |-> "intent"]
      BY <1>1, <1>5 DEF Typed, ProcsTyped
    <2>3. ledger' = [ledger EXCEPT ![procs[Merger].attempt].stage = s]
      BY <1>3, <1>5 DEF Conclude
    <2>4. \A a \in Attempts :
            /\ a # procs[Merger].attempt => ledger'[a] = ledger[a]
            /\ a = procs[Merger].attempt => ledger'[a].task = ledger[a].task /\ ledger'[a].stage = s
      BY <2>1, <2>3 DEF Typed, ProcsTyped, Receipt
    <2>5. ledger[procs[Merger].attempt].stage = "intent"
      BY <2>2
    <2>6. QED
      BY <1>1, <1>2, <1>3, <2>1, <2>4, <2>5
  <1>6. QED
    BY <1>4, <1>5

\* An open intent is being worked on.
LEMMA IntentStep ==
    ASSUME Typed, IntentIsWorkedOn, Next, Typed', faults' = 0
    PROVE  IntentIsWorkedOn'
  <1> USE MergerAssumption
  <1>1. CASE OtherRequest
    BY <1>1, RequestLeavesMerge DEF IntentIsWorkedOn
  <1>2. CASE Walk
    BY <1>2, MergeWalks DEF IntentIsWorkedOn
  <1>3. CASE Check
    BY <1>3, MergeChecks DEF IntentIsWorkedOn
  <1>4. CASE Begin
    BY <1>4, MergeBegins, IdleAssumption DEF IntentIsWorkedOn, Process
  <1>5. CASE MergeConfirm \/ MergeFail
    BY <1>5, MergeEnds, NoAttemptAssumption DEF IntentIsWorkedOn
  <1>6. QED
    BY <1>1, <1>2, <1>3, <1>4, <1>5, NextSteps

\* A merge without a receipt is one that GitHub reported.
LEMMA HookStep ==
    ASSUME Typed, HooksFollowGitHub, Next, Typed', faults' = 0
    PROVE  HooksFollowGitHub'
  <1>1. outside \subseteq outside'
    BY NextSteps, RequestLeavesMerge, MergeBegins, MergeChecks, MergeWalks, MergeEnds
  <1>2. \A t : MergedOutside(t) => MergedOutside(t)'
    BY <1>1 DEF MergedOutside
  <1>3. CASE OtherRequest
    BY <1>2, <1>3, RequestLeavesMerge DEF HooksFollowGitHub
  <1>4. CASE Begin
    <2>1. procs'[Merger].attempt = NoAttempt => MergedOutside(procs'[Merger].task)
      BY <1>4, MergeBegins, NoAttemptAssumption
    <2>2. QED
      BY <1>2, <2>1 DEF HooksFollowGitHub
  <1>5. CASE Check
    BY <1>2, <1>5, MergeChecks DEF HooksFollowGitHub
  <1>6. CASE Walk
    BY <1>2, <1>6, MergeWalks DEF HooksFollowGitHub
  <1>7. CASE MergeConfirm \/ MergeFail
    BY <1>7, MergeEnds, IdleAssumption DEF HooksFollowGitHub, Process
  <1>8. QED
    BY <1>3, <1>4, <1>5, <1>6, <1>7, NextSteps

\* What landed has an attempt that is confirmed or about to be, or was merged on GitHub.
LEMMA LandedStep ==
    ASSUME Typed, RepoSafe, HooksFollowGitHub, LandedIsReceipted, Next, Typed', faults' = 0
    PROVE  LandedIsReceipted'
  <1> USE MergerAssumption
  <1>1. faults = 0 /\ Solid = origin /\ Solid' = origin'
    BY NextSteps DEF Solid
  <1>2. \A t : MergedOutside(t) => MergedOutside(t)'
    <2>1. outside \subseteq outside'
      BY NextSteps, RequestLeavesMerge, MergeBegins, MergeChecks, MergeWalks, MergeEnds
    <2>2. QED
      BY <2>1 DEF MergedOutside
  <1>3. ASSUME \A t \in Tasks : Done(t)' => Done(t) \/ MergedOutside(t)',
               \A a \in Attempts :
                 /\ ledger[a].stage = "confirmed" => ledger'[a] = ledger[a]
                 /\ Landing(a) => ledger'[a].task = ledger[a].task
                                  /\ (Landing(a)' \/ ledger'[a].stage = "confirmed")
        PROVE  LandedIsReceipted'
    <2>1. SUFFICES ASSUME NEW t \in Tasks, Done(t), ~MergedOutside(t)'
                   PROVE  \E a \in Attempts :
                            ledger'[a].task = t /\ (ledger'[a].stage = "confirmed" \/ Landing(a)')
      BY <1>3 DEF LandedIsReceipted
    <2>2. PICK a \in Attempts :
            ledger[a].task = t /\ (ledger[a].stage = "confirmed" \/ Landing(a))
      BY <1>2, <2>1 DEF LandedIsReceipted
    <2>3. QED
      BY <1>3, <2>2
  <1>4. CASE OtherRequest
    <2>1. ASSUME NEW t \in Tasks, Done(t)', ~Done(t)
          PROVE  MergedOutside(t)'
      <3>1. PICK c \in 1 .. MaxCommits : <<t, c>> \in origin' \ origin
        BY <1>1, <2>1 DEF Done
      <3>2. <<t, c>> \in Commits
        BY DEF Commits
      <3>3. <<t, c>> \in outside' /\ <<t, c>>[1] = t
        BY <1>4, <3>1, <3>2, RequestLeavesMerge
      <3>4. QED
        BY <3>3 DEF MergedOutside
    <2>2. \A a \in Attempts : ledger'[a] = ledger[a] /\ (Landing(a) => Landing(a)')
      BY <1>4, RequestLeavesMerge DEF Landing
    <2>3. QED
      BY <1>3, <2>1, <2>2
  <1>5. CASE Walk
    <2>1. \A a \in Attempts : ledger'[a] = ledger[a] /\ (Landing(a) => Landing(a)')
      BY <1>5, MergeWalks DEF Landing, LandedSteps, MayGo, GitSteps
    <2>2. CASE UNCHANGED origin
      BY <1>1, <1>3, <2>1, <2>2 DEF Done
    <2>3. CASE GitPush
      <3>1. procs[Merger] \in CheckedMerge /\ procs[Merger].step = "push"
        BY <2>3, Shapes DEF GitPush, At, Typed, MergeSteps, GitSteps
      <3>2. origin' \subseteq origin \cup {procs[Merger].commit}
            /\ procs[Merger].commit[1] = procs[Merger].task
        BY <1>1, <2>3, <3>1 DEF GitPush, RepoSafe, MergeKnows
      <3>3. ASSUME NEW t \in Tasks, Done(t)'
            PROVE  Done(t) \/ t = procs[Merger].task
        BY <1>1, <3>2, <3>3 DEF Done
      <3>4. CASE procs[Merger].attempt = NoAttempt
        <4>1. \A t : t = procs[Merger].task => MergedOutside(t)'
          BY <1>2, <3>1, <3>4 DEF HooksFollowGitHub
        <4>2. QED
          BY <1>3, <2>1, <3>3, <4>1
      <3>5. CASE procs[Merger].attempt # NoAttempt
        <4>1. PICK a \in Attempts : a = procs[Merger].attempt
          BY <3>1, <3>5 DEF CheckedMerge
        <4>2. ledger'[a].task = procs[Merger].task
          <5>1. ledger[a] = [task |-> procs[Merger].task, stage |-> "intent"]
            BY <3>1, <3>5, <4>1 DEF Typed, ProcsTyped
          <5>2. QED
            BY <2>1, <5>1
        <4>3. Landing(a)'
          <5>1. procs'[Merger].step = "record"
            BY <2>3, <3>1 DEF GitPush, GoTo, Typed, ProcsTyped, CheckedMerge
          <5>2. QED
            BY <1>5, <4>1, <5>1, MergeWalks DEF Landing, LandedSteps
        <4>4. ASSUME NEW t \in Tasks, Done(t)', ~MergedOutside(t)'
              PROVE  \E b \in Attempts :
                       ledger'[b].task = t /\ (ledger'[b].stage = "confirmed" \/ Landing(b)')
          <5>1. CASE Done(t)
            <6>1. PICK b \in Attempts :
                    ledger[b].task = t /\ (ledger[b].stage = "confirmed" \/ Landing(b))
              BY <1>2, <4>4, <5>1 DEF LandedIsReceipted
            <6>2. QED
              BY <2>1, <6>1
          <5>2. CASE t = procs[Merger].task
            BY <4>2, <4>3, <5>2
          <5>3. QED
            BY <3>3, <4>4, <5>1, <5>2
        <4>5. QED
          BY <4>4 DEF LandedIsReceipted
      <3>6. QED
        BY <3>4, <3>5
    <2>4. QED
      BY <1>5, <2>2, <2>3, RefusedPush
         DEF Walk, MergeGuard, MergeLock, GitSync, GitMerge, GitMergeFails, MergeBack,
             MergeRecord, MergeSha, MergeComplete, MergeSiblings, repo
  <1>6. CASE Begin \/ Check
    <2>1. UNCHANGED origin /\ \A a \in Attempts : ~Landing(a)
      <3>1. Idle \notin CheckedMerge
        BY IdleAssumption DEF Process
      <3>2. QED
        BY <1>6, <3>1, MergeBegins, MergeChecks DEF Landing, LandedSteps
    <2>2. \A a \in Attempts : ledger[a].stage = "confirmed" => ledger'[a] = ledger[a]
      BY <1>6, MergeBegins, MergeChecks
    <2>3. QED
      BY <1>1, <1>3, <2>1, <2>2 DEF Done
  <1>7. CASE MergeConfirm \/ MergeFail
    <2>1. UNCHANGED origin
      BY <1>7, MergeEnds
    <2>2. \A a \in Attempts :
            /\ ledger[a].stage = "confirmed" => ledger'[a] = ledger[a]
            /\ Landing(a) => ledger'[a].task = ledger[a].task /\ ledger'[a].stage = "confirmed"
      BY <1>7, MergeEnds, NoAttemptAssumption DEF Landing
    <2>3. QED
      BY <1>1, <1>3, <2>1, <2>2 DEF Done
  <1>8. QED
    BY <1>4, <1>5, <1>6, <1>7, NextSteps

LEMMA CleanInit == Init => Clean
  BY MergerAssumption, NoPrAssumption, IdleAssumption
     DEF Init, Clean, MergingIsWorkedOn, IntentIsWorkedOn, HooksFollowGitHub, LandedIsReceipted,
         Process, Done, Solid, Is, At

\* The invariant that all of it rests on.
Sound == Typed /\ RepoSafe /\ WorkDone /\ Clean

LEMMA SoundInvariant == Spec => []Sound
  <1>1. Init => Sound
    BY TypedInit, RepoSafeInit, WorkDoneInit, CleanInit DEF Sound
  <1>2. ASSUME Sound, [Next]_vars PROVE Sound'
    <2>1. Typed' /\ RepoSafe' /\ WorkDone'
      <3>1. Typed'
        BY <1>2, TypedStep
           DEF Sound, vars, repo, Typed, RowsTyped, RepoTyped, ProcsTyped, RestTyped, RowsKnown
      <3>2. QED
        BY <1>2, <3>1, WorkDoneStep DEF Sound
    <2>2. CASE Next
      BY <1>2, <2>1, <2>2, MergingStep, IntentStep, HookStep, LandedStep, NextSteps DEF Sound, Clean
    <2>3. CASE UNCHANGED vars
      <3>1. Solid' = Solid
        BY <2>3 DEF vars, repo, Solid, At
      <3>2. /\ UNCHANGED <<faults, prs, procs, ledger>>
            /\ \A t : (Done(t)' <=> Done(t)) /\ (MergedOutside(t)' <=> MergedOutside(t))
        BY <2>3, <3>1 DEF vars, repo, Done, MergedOutside
      <3>3. Clean'
        BY <1>2, <3>2 DEF Sound, Clean, MergingIsWorkedOn, IntentIsWorkedOn, HooksFollowGitHub,
           LandedIsReceipted, Landing, Is
      <3>4. QED
        BY <2>1, <3>3 DEF Sound
    <2>4. QED
      BY <1>2, <2>2, <2>3
  <1>3. QED
    BY <1>1, <1>2, PTL DEF Spec

LEMMA SoundReceipts ==
    ASSUME Sound
    PROVE  ReceiptsMatchEffects
  <1>1. \A t : Done(t) => Landed(t)
    BY SolidIsOnTarget DEF Sound, Done, Landed
  <1>2. faults = 0 => \A t : Landed(t) => Done(t)
    BY DEF Landed, Target, Done, Solid
  <1>3. ASSUME NEW a \in Attempts, Landing(a)
        PROVE  ledger[a].stage = "intent"
    <2>1. ledger[a] = [task |-> procs[Merger].task, stage |-> "intent"]
      BY <1>3, MergerAssumption, NoAttemptAssumption DEF Landing, Sound, Typed, ProcsTyped
    <2>2. QED
      BY <2>1
  <1>4. Idle \notin FreshMerge \cup CheckedMerge
    BY IdleAssumption DEF Process
  <1>5. QED
    BY <1>1, <1>2, <1>3, <1>4
       DEF ReceiptsMatchEffects, Sound, Clean, WorkDone, ConfirmationsDone, IntentIsWorkedOn,
           LandedIsReceipted, MergedOutside

\* Whatever is committed to a branch meanwhile, a commit that Marvis lands passed its required
\* checks, or they were waived for a diff without their files (ci_service); what is merged on
\* GitHub is not Marvis's.
THEOREM LandedCommitsAreTested == Spec => []LandedCommitsWereTested
  <1>1. Sound => LandedCommitsWereTested
    BY SettledMeansTested DEF Sound
  <1>2. QED
    BY <1>1, SoundInvariant, PTL

\* Merged pull requests have their work on the target, and so have completed tasks, but for
\* those whose completion_mode has been doc or none.
THEOREM CompletedWorkHasLanded == Spec => []CompletedWorkLanded
  <1>1. Sound => CompletedWorkLanded
    BY WorkDoneMeansLanded DEF Sound
  <1>2. QED
    BY <1>1, SoundInvariant, PTL

\* A confirmed attempt landed; without a fault, intents are worked on, and landed work has an
\* attempt that did not fail or was merged on GitHub, whose webhook writes no receipts.
THEOREM ReceiptsTellWhatHappened == Spec => []ReceiptsMatchEffects
  BY SoundInvariant, SoundReceipts, PTL

\* Without a fault (a crash, a busy database, a put-back that update-ref refused, a push accepted
\* though it failed), a failed merge leaves no pull request merging and nothing to push.
THEOREM FailedMergesAreUndone == Spec => []FailedMergesLeaveNothing
  <1>1. Sound => FailedMergesLeaveNothing
    BY IdleAssumption DEF Sound, Clean, RepoSafe, LocalPushed, MergingIsWorkedOn, MergingSteps,
       FailedMergesLeaveNothing, At, Process
  <1>2. QED
    BY <1>1, SoundInvariant, PTL
=============================================================================
