----------------------------- MODULE PullRequests -----------------------------
(***************************************************************************)
(* Tasks, their pull requests and the repository they are merged into      *)
(* (services/pr_service.py, task_transitions.py, git_ops.py, ci_service.py *)
(* and webhook_service.py, use_cases/tasks.py, the receipts of             *)
(* use_cases/pull_requests.py and the handoffs of populate_artifacts.py).  *)
(* The projects are those that take pull requests.                         *)
(*                                                                         *)
(* A process holds its writer connection for a whole request, so it runs   *)
(* one request at a time; requests of two processes interleave wherever    *)
(* the code reads a row and writes it in a later statement.  Merges are    *)
(* served by one process, Merger: _repo_locks orders the merges of a       *)
(* process only, and two processes that merge would overwrite each other's *)
(* update of the target branch.  Pushing after a merge, the default, is on.*)
(*                                                                         *)
(* Developers commit to a task's branch and push to the target on origin   *)
(* at any time, and may merge a pull request on GitHub, which the webhook  *)
(* repeats here.  A branch of the repository is the set of what it holds;  *)
(* of a task's commits it lists those that were merged, not their          *)
(* ancestors.                                                              *)
(***************************************************************************)
EXTENDS Naturals, FiniteSets

CONSTANTS
    Tasks, Prs,
    Mentions,       \* the tasks a pull request's body says it closes, by its task
    InitialStatus,
    Externals,      \* commits others push to the target on origin
    Attempts,       \* correlation ids of merge attempts
    Processes, Merger,
    NoPr, NoTask, NoAttempt, Idle,
    Touches,        \* the diffs, from one commit of a task to a later one,
                    \* that the path filters of its required checks match
    MaxCommits,     \* bound: commits of a task's branch
    MaxRequests,    \* bound: requests other than merges
    MaxFaults       \* bound: crashes, timeouts and failures hidden by a push

ASSUME MentionsAssumption == Mentions \in [Tasks -> SUBSET Tasks]
ASSUME TouchesAssumption ==
    Touches \in [Tasks -> SUBSET ((0 .. MaxCommits) \X (1 .. MaxCommits))]
ASSUME MergerAssumption == Merger \in Processes
ASSUME BoundAssumption == MaxCommits \in Nat /\ MaxRequests \in Nat /\ MaxFaults \in Nat

VARIABLES
    status,     \* tasks.status
    prs,        \* pull_requests
    head,       \* last commit of each task's branch
    tested,     \* commits whose required checks passed
    local,      \* the target branch in the API's repository
    origin,     \* the target branch on the remote
    outside,    \* commits whose pull request was merged on GitHub
    exempt,     \* tasks whose completion_mode has been doc or none
    ledger,     \* receipts of the merge attempts
    procs,      \* the request each process is working on
    stale,      \* processes whose task changed after they read it
    requests, faults

repo == <<head, tested, local, origin, outside>>
vars == <<status, exempt, prs, repo, ledger, procs, stale, requests, faults>>

TaskStatuses ==
    {"pending", "approved", "in_progress", "review", "completed", "rejected", "failed"}
ValidTransitions ==
    [s \in TaskStatuses |->
       CASE s = "pending" -> {"approved", "rejected"}
         [] s = "approved" -> {"in_progress", "rejected"}
         [] s = "in_progress" -> {"completed", "failed", "review", "rejected"}
         [] s = "review" -> {"completed", "in_progress"}
         [] s = "completed" -> {"in_progress"}
         [] s = "rejected" -> {"in_progress"}
         [] s = "failed" -> {"approved"}]

(* No task is completed before these rules watch over it.                   *)
ASSUME InitialAssumption == InitialStatus \in [Tasks -> TaskStatuses \ {"completed"}]

ActiveStatuses == {"draft", "open", "merging"}
PrRow == [task: Tasks, status: ActiveStatuses \cup {"merged", "closed"}, hasSha: BOOLEAN]
Commits == Tasks \X (1 .. MaxCommits)
Contents == SUBSET (Commits \cup Externals)
Receipt == [task: Tasks \cup {NoTask}, stage: {"none", "intent", "failed", "confirmed"}]

GitSteps == {"sync", "merge", "push"}
MergeSteps ==
    {"check", "guard", "lock", "back", "record", "sha", "complete", "siblings", "confirm", "fail"}
        \cup GitSteps

(* The request a process is working on: what it looked up before.            *)
PrRequest == [step: {"submit", "close", "changes"}, pr: Prs, task: Tasks]
TaskRequest == [step: {"transition"}, task: Tasks, to: TaskStatuses]
HandoffRequest == [step: {"handoff"}, task: Tasks]
FreshMerge == [step: {"check", "fail"}, task: Tasks, attempt: Attempts \cup {NoAttempt}]
CheckedMerge == [step: MergeSteps \ {"check"}, task: Tasks,
                 attempt: Attempts \cup {NoAttempt}, pr: Prs, commit: Commits, base: Contents]
Process == PrRequest \cup TaskRequest \cup HandoffRequest \cup FreshMerge \cup CheckedMerge

ASSUME NoPrAssumption == NoPr \notin PrRow
ASSUME NoAttemptAssumption == NoAttempt \notin Attempts
ASSUME IdleAssumption == Idle \notin Process
ASSUME ExternalsAssumption == Externals \cap Commits = {}

PrTypeOK ==
    /\ status \in [Tasks -> TaskStatuses]
    /\ prs \in [Prs -> PrRow \cup {NoPr}]
    /\ head \in [Tasks -> 0 .. MaxCommits]
    /\ tested \subseteq Commits
    /\ local \in Contents /\ origin \in Contents /\ outside \subseteq Commits
    /\ exempt \subseteq Tasks
    /\ ledger \in [Attempts -> Receipt]
    /\ procs \in [Processes -> Process \cup {Idle}]
    \* an attempt that is worked on has its intent receipt
    /\ \A q \in Processes :
        procs[q] \in FreshMerge \cup CheckedMerge =>
            /\ q = Merger
            /\ procs[q].attempt # NoAttempt =>
                ledger[procs[q].attempt] = [task |-> procs[q].task, stage |-> "intent"]
    /\ stale \subseteq {q \in Processes : procs[q] # Idle}
    /\ requests \in 0 .. MaxRequests /\ faults \in 0 .. MaxFaults
    \* idx_pr_one_active_per_task
    /\ \A r, s \in Prs :
        prs[r] # NoPr /\ prs[s] # NoPr /\ prs[r].task = prs[s].task
        /\ {prs[r].status, prs[s].status} \subseteq ActiveStatuses => r = s

Init ==
    /\ status = InitialStatus
    /\ prs = [r \in Prs |-> NoPr]
    /\ head = [t \in Tasks |-> 0]
    /\ tested = {} /\ local = {} /\ origin = {} /\ outside = {}
    /\ exempt = {}
    /\ ledger = [a \in Attempts |-> [task |-> NoTask, stage |-> "none"]]
    /\ procs = [q \in Processes |-> Idle]
    /\ stale = {}
    /\ requests = 0 /\ faults = 0

-----------------------------------------------------------------------------
At(q, step) == procs[q] # Idle /\ procs[q].step = step
GoTo(q, step) == procs' = [procs EXCEPT ![q].step = step]
Leave(q) == procs' = [procs EXCEPT ![q] = Idle]

Is(r, statuses) == prs[r] # NoPr /\ prs[r].status \in statuses
HasActive(t) == \E r \in Prs : Is(r, ActiveStatuses) /\ prs[r].task = t

(* The unique index: at most one active pull request for a task.            *)
NoIndex(r) == TRUE
MayBeActive(r) ==
    \A s \in Prs \ {r} : Is(s, ActiveStatuses) => prs[s].task # prs[r].task
SetPr(r, s) == prs' = [prs EXCEPT ![r].status = s]

(* A write of a task's row: who read it before has a stale version.  The     *)
(* feedback of a reviewer is such a write even where the status stays.       *)
Touched(ts, q) == {p \in Processes \ {q} : procs[p] # Idle /\ procs[p].task \in ts}
WriteTasks(new, annotated, q) ==
    /\ status' = new
    /\ stale' = (stale \cup Touched(annotated \cup {t \in Tasks : new[t] # status[t]}, q)) \ {q}
NoTaskWritten(q) == UNCHANGED status /\ stale' = stale \ {q}

(* Already there is a no-op; otherwise the transition must be a valid one.  *)
MayBecome(t, s) == s = status[t] \/ s \in ValidTransitions[status[t]]

Request == requests < MaxRequests /\ requests' = requests + 1

(* What happens to the repository outside of every process.                 *)
NoRequest == UNCHANGED <<status, exempt, prs, ledger, procs, stale, requests, faults>>

(* A branch holds a commit also as an ancestor of what was merged into it.  *)
Contains(branch, c) == \E m \in c[2] .. MaxCommits : <<c[1], m>> \in branch

-----------------------------------------------------------------------------
(* start_branch_short_write and register_branch.                            *)
StartBranch(t, r) ==
    /\ Request
    /\ status[t] = "in_progress" /\ ~HasActive(t) /\ prs[r] = NoPr
    /\ prs' = [prs EXCEPT ![r] = [task |-> t, status |-> "draft", hasSha |-> FALSE]]
    /\ UNCHANGED <<status, exempt, repo, ledger, procs, stale, faults>>

(* A developer commits to the branch; the required checks of a commit pass. *)
Commit(t) ==
    /\ head[t] < MaxCommits /\ HasActive(t)
    /\ head' = [head EXCEPT ![t] = head[t] + 1]
    /\ UNCHANGED <<tested, local, origin, outside>> /\ NoRequest

ChecksPass(t, n) ==
    /\ n <= head[t] /\ <<t, n>> \notin tested
    /\ tested' = tested \cup {<<t, n>>}
    /\ UNCHANGED <<head, local, origin, outside>> /\ NoRequest

PushByOthers(x) ==
    /\ x \notin origin
    /\ origin' = origin \cup {x}
    /\ UNCHANGED <<head, tested, local, outside>> /\ NoRequest

(* The pull request is merged on GitHub: by a merge commit, or by squashing, *)
(* which leaves the target without the branch's own commit.                  *)
GitHubMerge(t) ==
    /\ Request
    /\ head[t] > 0 /\ <<t, head[t]>> \notin outside
    /\ outside' = outside \cup {<<t, head[t]>>}
    /\ origin' \in {origin, origin \cup {<<t, head[t]>>}}
    /\ UNCHANGED <<status, exempt, prs, head, tested, local, ledger, procs, stale, faults>>

-----------------------------------------------------------------------------
(* submit_pr, close_pr and request_changes_pr look at the active pull        *)
(* request, work outside any transaction, and then change it and the task in *)
(* one transaction that does not look again.                                 *)
MayRead(step) == IF step = "changes" THEN {"open"} ELSE {"draft", "open"}

ReadPr(q, r, step) ==
    /\ procs[q] = Idle
    /\ Request
    /\ Is(r, MayRead(step))
    /\ step = "submit" =>
        LET t == prs[r].task IN head[t] > 0 /\ ~Contains(local, <<t, head[t]>>)
    /\ procs' = [procs EXCEPT ![q] = [step |-> step, pr |-> r, task |-> prs[r].task]]
    /\ UNCHANGED <<status, exempt, prs, repo, ledger, stale, faults>>

PrAfter(r, step) ==
    CASE step = "submit" -> "open" [] step = "close" -> "closed" [] OTHER -> prs[r].status
TaskAfter(step) == IF step = "submit" THEN "review" ELSE "in_progress"

WritePr(q) ==
    /\ \E step \in {"submit", "close", "changes"} : At(q, step)
    /\ LET r == procs[q].pr
           t == procs[q].task
           step == procs[q].step
       IN IF MayBecome(t, TaskAfter(step)) /\ (step = "submit" => MayBeActive(r))
          THEN /\ SetPr(r, PrAfter(r, step))
               /\ WriteTasks([status EXCEPT ![t] = TaskAfter(step)],
                             IF step = "submit" THEN {} ELSE {t}, q)
          ELSE NoTaskWritten(q) /\ UNCHANGED prs
    /\ Leave(q)
    /\ UNCHANGED <<exempt, repo, ledger, requests, faults>>

(* update_task changes a task by hand: completing it takes that no pull       *)
(* request is active and, unless its completion_mode says doc or none, a      *)
(* merged one; a review takes an active one.  The UPDATE repeats the version  *)
(* that was read, not the look at the pull requests.                          *)
NothingActive(t) == ~HasActive(t)
MayComplete(t) ==
    /\ ~HasActive(t)
    /\ t \in exempt \/ \E r \in Prs : Is(r, {"merged"}) /\ prs[r].task = t

ReadTask(q, t, s) ==
    /\ procs[q] = Idle
    /\ Request
    /\ s \in ValidTransitions[status[t]]
    /\ s = "review" => HasActive(t)
    /\ s = "completed" => MayComplete(t)
    /\ procs' = [procs EXCEPT ![q] = [step |-> "transition", task |-> t, to |-> s]]
    /\ UNCHANGED <<status, exempt, prs, repo, ledger, stale, faults>>

WriteTask(q) ==
    /\ At(q, "transition")
    /\ IF q \in stale THEN NoTaskWritten(q)
       ELSE WriteTasks([status EXCEPT ![procs[q].task] = procs[q].to], {}, q)
    /\ Leave(q)
    /\ UNCHANGED <<exempt, prs, repo, ledger, requests, faults>>

(* update_task for another field: nothing guards completion_mode.             *)
PatchMode(q, t) ==
    /\ procs[q] = Idle
    /\ Request
    /\ exempt' = exempt \cup {t}
    /\ WriteTasks(status, {t}, q)
    /\ UNCHANGED <<prs, repo, ledger, procs, faults>>

(* _auto_close_handoff_referenced_tasks completes the doc and none tasks that *)
(* a handoff names; its UPDATE names the task only.                           *)
ReadHandoff(q, t) ==
    /\ procs[q] = Idle
    /\ Request
    /\ t \in exempt /\ status[t] \in {"approved", "in_progress"} /\ ~HasActive(t)
    /\ procs' = [procs EXCEPT ![q] = [step |-> "handoff", task |-> t]]
    /\ UNCHANGED <<status, exempt, prs, repo, ledger, stale, faults>>

WriteHandoff(q) ==
    /\ At(q, "handoff")
    /\ WriteTasks([status EXCEPT ![procs[q].task] = "completed"], {procs[q].task}, q)
    /\ Leave(q)
    /\ UNCHANGED <<exempt, prs, repo, ledger, requests, faults>>

-----------------------------------------------------------------------------
(* merge_pull_request: an intent receipt is committed first.                 *)
MergeIntent(t, a) ==
    /\ procs[Merger] = Idle
    /\ ledger[a].stage = "none"
    /\ ledger' = [ledger EXCEPT ![a] = [task |-> t, stage |-> "intent"]]
    /\ procs' = [procs EXCEPT ![Merger] =
         [step |-> "check", task |-> t, attempt |-> a]]
    /\ UNCHANGED <<status, exempt, prs, repo, stale, requests, faults>>

(* handle_pr_merged: a delivery of GitHub's, maybe repeated, merges without   *)
(* any receipt.                                                               *)
HookMerge(t) ==
    /\ procs[Merger] = Idle
    /\ HasActive(t) /\ \E c \in outside : c[1] = t
    /\ procs' = [procs EXCEPT ![Merger] =
         [step |-> "check", task |-> t, attempt |-> NoAttempt]]
    /\ UNCHANGED <<status, exempt, prs, repo, ledger, stale, requests, faults>>

(* merge_pr reads the pull request and, once, the head of its branch.         *)
MergeRead(r) ==
    /\ At(Merger, "check")
    /\ LET t == procs[Merger].task IN
        /\ Is(r, {"open"}) /\ prs[r].task = t
        /\ head[t] > 0
        /\ procs' = [procs EXCEPT ![Merger] =
             [step |-> "guard", task |-> t, attempt |-> procs[Merger].attempt,
              pr |-> r, commit |-> <<t, head[t]>>, base |-> {}]]
    /\ UNCHANGED <<status, exempt, prs, repo, ledger, stale, requests, faults>>

(* The CI guard asks for the required checks of the head that was read, but   *)
(* only for those whose path filters match the diff of the branch as it is    *)
(* now, from where the local target left it; an empty diff waives nothing.    *)
IsMergeBase(t, b) ==
    /\ b = 0 \/ <<t, b>> \in local
    /\ \A m \in 1 .. MaxCommits : m > b => <<t, m>> \notin local
Applies(t, b, h) == b = h \/ <<b, h>> \in Touches[t]

MergeGuard ==
    /\ At(Merger, "guard")
    /\ LET t == procs[Merger].task IN
        \/ procs[Merger].commit \in tested
        \/ \E b \in 0 .. MaxCommits : IsMergeBase(t, b) /\ ~Applies(t, b, head[t])
    /\ GoTo(Merger, "lock")
    /\ UNCHANGED <<status, exempt, prs, repo, ledger, stale, requests, faults>>

(* No open pull request, a missing branch, the checks or the order of the     *)
(* migrations.                                                                *)
MergeRefused ==
    /\ At(Merger, "check") \/ At(Merger, "guard")
    /\ GoTo(Merger, "fail")
    /\ UNCHANGED <<status, exempt, prs, repo, ledger, stale, requests, faults>>

(* UPDATE status = 'merging', whatever the status has become.                *)
MergeLock ==
    /\ At(Merger, "lock")
    /\ IF MayBeActive(procs[Merger].pr)
       THEN SetPr(procs[Merger].pr, "merging") /\ GoTo(Merger, "sync")
       ELSE GoTo(Merger, "fail") /\ UNCHANGED prs
    /\ UNCHANGED <<status, exempt, repo, ledger, stale, requests, faults>>

(* _merge_branch_sync: fetch, fast-forward the local target or refuse one    *)
(* that has diverged, and remember where it stood.                           *)
GitSync ==
    /\ At(Merger, "sync")
    /\ IF local \subseteq origin \/ origin \subseteq local
       THEN LET synced == local \cup origin IN
            /\ local' = synced
            /\ procs' = [procs EXCEPT
                 ![Merger].base = synced,
                 ![Merger].step = IF Contains(synced, procs[Merger].commit)
                                  THEN "record" ELSE "merge"]
       ELSE GoTo(Merger, "back") /\ UNCHANGED local
    /\ UNCHANGED <<status, exempt, prs, head, tested, origin, outside, ledger, stale, requests, faults>>

CommitMerged == procs[Merger].commit
HeadOfBranch == <<procs[Merger].task, head[procs[Merger].task]>>

Merged == CommitMerged

GitMerge ==
    /\ At(Merger, "merge")
    /\ local' = procs[Merger].base \cup {Merged}
    /\ GoTo(Merger, "push")
    /\ UNCHANGED <<status, exempt, prs, head, tested, origin, outside, ledger, stale, requests, faults>>

(* A conflict, or any other failure before the target moved.                 *)
GitMergeFails ==
    /\ At(Merger, "sync") \/ At(Merger, "merge")
    /\ GoTo(Merger, "back")
    /\ UNCHANGED <<status, exempt, prs, repo, ledger, stale, requests, faults>>

GitPush ==
    /\ At(Merger, "push")
    /\ origin \subseteq local
    /\ origin' = local
    /\ GoTo(Merger, "record")
    /\ UNCHANGED <<status, exempt, prs, head, tested, local, outside, ledger, stale, requests, faults>>

(* A rejected push, or one that does not reach the remote, puts the local    *)
(* target back to where it stood.  Two more failures may hide behind it, which*)
(* count as faults: the remote accepted the push all the same, or update-ref  *)
(* fails to put the target back, which is only logged.                        *)
NoPutBack ==
    /\ At(Merger, "push")
    /\ GoTo(Merger, "back")
    /\ UNCHANGED <<status, exempt, prs, repo, ledger, stale, requests, faults>>
GitPushFails ==
    /\ At(Merger, "push")
    /\ \E accepted, putBack \in BOOLEAN :
        /\ accepted => origin \subseteq local
        /\ origin' = IF accepted THEN local ELSE origin
        /\ local' = IF putBack THEN procs[Merger].base ELSE local
        /\ IF accepted \/ ~putBack
           THEN faults < MaxFaults /\ faults' = faults + 1 ELSE UNCHANGED faults
    /\ GoTo(Merger, "back")
    /\ UNCHANGED <<status, exempt, prs, head, tested, outside, ledger, stale, requests>>

(* UPDATE status = 'open', whatever the status has become; the unique index  *)
(* may refuse it if the pull request was closed and another one started.     *)
ForgetToReopen ==
    /\ At(Merger, "back")
    /\ GoTo(Merger, "fail")
    /\ UNCHANGED <<status, exempt, prs, repo, ledger, stale, requests, faults>>
MergeBack ==
    /\ At(Merger, "back")
    /\ IF MayBeActive(procs[Merger].pr)
       THEN SetPr(procs[Merger].pr, "open") ELSE UNCHANGED prs
    /\ GoTo(Merger, "fail")
    /\ UNCHANGED <<status, exempt, repo, ledger, stale, requests, faults>>

MergeRecord ==
    /\ At(Merger, "record")
    /\ SetPr(procs[Merger].pr, "merged")
    /\ GoTo(Merger, "sha")
    /\ UNCHANGED <<status, exempt, repo, ledger, stale, requests, faults>>

MergeSha ==
    /\ At(Merger, "sha")
    /\ prs' = [prs EXCEPT ![procs[Merger].pr].hasSha = TRUE]
    /\ GoTo(Merger, "complete")
    /\ UNCHANGED <<status, exempt, repo, ledger, stale, requests, faults>>

(* The transition to completed takes no look at the pull requests; one that  *)
(* is invalid, or overtaken by another request on the task, is only logged.  *)
CompleteOrFail ==
    /\ At(Merger, "complete")
    /\ LET t == procs[Merger].task IN
        \/ /\ MayBecome(t, "completed")
           /\ WriteTasks([status EXCEPT ![t] = "completed"], {}, Merger)
           /\ GoTo(Merger, "siblings")
        \/ /\ ~MayBecome(t, "completed") \/ Merger \in stale
           /\ NoTaskWritten(Merger)
           /\ GoTo(Merger, "fail")
    /\ UNCHANGED <<exempt, prs, repo, ledger, requests, faults>>
MergeComplete ==
    /\ At(Merger, "complete")
    /\ LET t == procs[Merger].task IN
        \/ /\ MayBecome(t, "completed")
           /\ WriteTasks([status EXCEPT ![t] = "completed"], {}, Merger)
        \/ /\ ~MayBecome(t, "completed") \/ Merger \in stale
           /\ NoTaskWritten(Merger)
    /\ GoTo(Merger, "siblings")
    /\ UNCHANGED <<exempt, prs, repo, ledger, requests, faults>>

(* _close_siblings_from_body: an approved sibling passes through in_progress *)
(* and stays there if an active pull request of its own forbids completing.  *)
SiblingAfter(s) == IF HasActive(s) THEN "in_progress" ELSE "completed"
Closable(t) == {s \in Mentions[t] \ {t} : status[s] \in {"approved", "in_progress"}}

MergeSiblings ==
    /\ At(Merger, "siblings")
    /\ \E some \in SUBSET Closable(procs[Merger].task) :
        /\ \A s \in Closable(procs[Merger].task) \ some : status[s] = "approved"
        /\ WriteTasks([s \in Tasks |-> IF s \in some THEN SiblingAfter(s) ELSE status[s]],
                      {}, Merger)
    /\ GoTo(Merger, "confirm")
    /\ UNCHANGED <<exempt, prs, repo, ledger, requests, faults>>

Conclude(stage) ==
    IF procs[Merger].attempt = NoAttempt THEN UNCHANGED ledger
    ELSE ledger' = [ledger EXCEPT ![procs[Merger].attempt].stage = stage]

MergeConfirm ==
    /\ At(Merger, "confirm")
    /\ Conclude("confirmed")
    /\ Leave(Merger) /\ NoTaskWritten(Merger)
    /\ UNCHANGED <<exempt, prs, repo, requests, faults>>

MergeFail ==
    /\ At(Merger, "fail")
    /\ Conclude("failed")
    /\ Leave(Merger) /\ NoTaskWritten(Merger)
    /\ UNCHANGED <<exempt, prs, repo, requests, faults>>

-----------------------------------------------------------------------------
(* A process dies; or the database stays busy past its timeout when the      *)
(* merge writes its status, outside of the handler that would take it back.  *)
Crash(q) ==
    /\ faults < MaxFaults /\ faults' = faults + 1
    /\ procs[q] # Idle
    /\ Leave(q) /\ NoTaskWritten(q)
    /\ UNCHANGED <<exempt, prs, repo, ledger, requests>>

Busy ==
    /\ faults < MaxFaults /\ faults' = faults + 1
    /\ \E step \in {"lock", "record", "sha"} : At(Merger, step)
    /\ GoTo(Merger, "fail")
    /\ UNCHANGED <<status, exempt, prs, repo, ledger, stale, requests>>

Next ==
    \/ \E t \in Tasks :
        \/ \E r \in Prs : StartBranch(t, r)
        \/ Commit(t) \/ GitHubMerge(t) \/ HookMerge(t)
        \/ \E n \in 1 .. MaxCommits : ChecksPass(t, n)
        \/ \E q \in Processes :
            \/ \E s \in TaskStatuses : ReadTask(q, t, s)
            \/ PatchMode(q, t) \/ ReadHandoff(q, t)
        \/ \E a \in Attempts : MergeIntent(t, a)
    \/ \E x \in Externals : PushByOthers(x)
    \/ \E q \in Processes :
        \/ \E r \in Prs, step \in {"submit", "close", "changes"} : ReadPr(q, r, step)
        \/ WritePr(q) \/ WriteTask(q) \/ WriteHandoff(q) \/ Crash(q)
    \/ \E r \in Prs : MergeRead(r)
    \/ MergeGuard \/ MergeRefused \/ MergeLock \/ GitSync \/ GitMerge \/ GitMergeFails
    \/ GitPush \/ GitPushFails \/ MergeBack \/ MergeRecord \/ MergeSha
    \/ MergeComplete \/ MergeSiblings \/ MergeConfirm \/ MergeFail \/ Busy

Spec == Init /\ [][Next]_vars

-----------------------------------------------------------------------------
(* After a crash between the update of the local target and its push, or a   *)
(* put-back that failed, the next merge finds the commit in the local target, *)
(* takes it for merged and does not push: it is on origin only with the push  *)
(* of a later merge.                                                          *)
Target == IF faults = 0 THEN origin ELSE local \cup origin
Landed(t) == \E c \in 1 .. MaxCommits : <<t, c>> \in Target

(* No required check watches the diff of the branch from a commit that is on  *)
(* the target to one that is not before this commit.                          *)
Waived(t, n) ==
    \E b \in 0 .. MaxCommits, m \in n .. MaxCommits :
        /\ b < n
        /\ b = 0 \/ <<t, b>> \in local \cup origin
        /\ <<b, m>> \notin Touches[t]

(* Whatever is committed to a branch while its merge is under way, a commit   *)
(* of a task that Marvis brings to the target, here or on origin, passed the  *)
(* required checks, that very commit, or was waived by a diff without their   *)
(* files.  The waiver is the exception: the diff may be that of a branch that *)
(* went on to a later commit after the commit to merge was read.              *)
LandedCommitsWereTested ==
    \A t \in Tasks, n \in 1 .. MaxCommits :
        <<t, n>> \in (local \cup origin) \ outside => <<t, n>> \in tested \/ Waived(t, n)

(* A pull request says merged, and a task is completed, only if the work is   *)
(* on the target: the task's own, or that of a task whose pull request names  *)
(* it.  A task whose completion_mode has been doc or none is exempt: it needs *)
(* no pull request.                                                           *)
CompletedWorkLanded ==
    /\ \A r \in Prs : Is(r, {"merged"}) => Landed(prs[r].task)
    /\ \A t \in Tasks \ exempt :
        status[t] = "completed" => Landed(t) \/ \E u \in Tasks : t \in Mentions[u] /\ Landed(u)

(* The receipts tell what happened: a confirmed attempt landed; unless there  *)
(* was a fault (a crash, a busy database, a push accepted though it failed or *)
(* not put back), an open intent is being worked on and landed work has an    *)
(* attempt that did not end as failed.  Exception: work merged on GitHub,     *)
(* whose delivery is merged without receipts.                                 *)
ReceiptsMatchEffects ==
    /\ \A a \in Attempts : ledger[a].stage = "confirmed" => Landed(ledger[a].task)
    /\ faults = 0 =>
        /\ \A a \in Attempts : ledger[a].stage = "intent" =>
             procs[Merger] # Idle /\ procs[Merger].attempt = a
        /\ \A t \in Tasks : Landed(t) =>
             \/ \E a \in Attempts : ledger[a].task = t /\ ledger[a].stage \in {"intent", "confirmed"}
             \/ \E c \in outside : c[1] = t

(* Unless there was a fault, the put-back that update-ref fails among them, a *)
(* merge that failed leaves nothing behind: a pull request is merging only    *)
(* while its merge runs, and between merges the local target holds nothing    *)
(* that origin does not.                                                      *)
FailedMergesLeaveNothing ==
    faults = 0 =>
        /\ \A r \in Prs : Is(r, {"merging"}) =>
             /\ \E step \in GitSteps \cup {"back", "record"} : At(Merger, step)
             /\ procs[Merger].pr = r
        /\ ~At(Merger, "push") => local \subseteq origin
=============================================================================
