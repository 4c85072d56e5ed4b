------------------------------ MODULE WriterLock ------------------------------
(***************************************************************************)
(* The single-writer database access of core/api/db.py together with the   *)
(* project lock: what units of work of several processes do to each other  *)
(* through one writer connection per process, one SQLite file and one      *)
(* project lock file.                                                      *)
(*                                                                         *)
(* Each process serializes its units with an asyncio lock (first come,     *)
(* first served) around one connection, so a transaction that a unit       *)
(* leaves open is the transaction of whoever comes next.  Between          *)
(* processes SQLite admits one open write transaction and makes the others *)
(* wait, at most for the busy timeout.                                     *)
(***************************************************************************)
EXTENDS Naturals, Sequences, SequencesExt

CONSTANTS
    Units,          \* requests, background jobs, websocket handlers
    Processes,
    Home,           \* the process each unit runs in
    Nobody,         \* a lock is free
    MaxAborts       \* bound: units that fail or are cancelled

ASSUME HomeAssumption == Home \in [Units -> Processes]
ASSUME NobodyAssumption == Nobody \notin Units
ASSUME AbortAssumption == MaxAborts \in Nat

VARIABLES
    kind,           \* how each unit uses the locks
    pc,             \* its next step; 0 before it starts
    outcome,        \* "open", "done", "failed" or "cancelled"
    holder,         \* holder of _write_lock, by process
    queue,          \* units waiting for _write_lock, by process
    projectHolder,  \* holder of .project-create.lock
    tx,             \* writes of the open transaction, by process
    durable,        \* committed writes
    effects,        \* units whose file effect happened
    aborts

vars == <<kind, pc, outcome, holder, queue, projectHolder, tx, durable, effects, aborts>>

(* What the unit does.  plain: write_db, get_write_db or acquire_write_db   *)
(* around two statements.  guarded: a request that enters                   *)
(* guarded_project_file_write and then updates its metadata.  isolated:     *)
(* isolated_project_file_write.                                             *)
Kinds == {"plain", "guarded", "isolated"}

PlainSteps == <<"lockWriter", "write", "write", "commit", "unlockWriter">>
GuardedSteps ==
    <<"lockWriter", "lockProject", "write", "commit", "effect", "unlockProject",
      "write", "commit", "unlockWriter">>
IsolatedSteps ==
    <<"lockWriter", "lockProject", "write", "commit", "unlockWriter", "effect",
      "unlockProject">>

ProjectLockedFirst(k) ==
    CASE k = "plain" -> PlainSteps
      [] k = "guarded" -> GuardedSteps
      [] k = "isolated" -> <<"lockProject", "lockWriter", "write", "commit",
                             "unlockWriter", "effect", "unlockProject">>
EffectBeforeCommit(k) ==
    CASE k = "plain" -> PlainSteps
      [] k = "guarded" -> GuardedSteps
      [] k = "isolated" -> <<"lockWriter", "lockProject", "write", "effect",
                             "commit", "unlockWriter", "unlockProject">>
Steps(k) ==
    CASE k = "plain" -> PlainSteps
      [] k = "guarded" -> GuardedSteps
      [] k = "isolated" -> IsolatedSteps

Write == [unit: Units, at: 1 .. 9]

Types ==
    /\ kind \in [Units -> Kinds]
    /\ outcome \in [Units -> {"open", "done", "failed", "cancelled"}]
    /\ \A u \in Units :
        /\ pc[u] \in 0 .. Len(Steps(kind[u])) + 1
        /\ outcome[u] = "done" <=> pc[u] = Len(Steps(kind[u])) + 1
    /\ holder \in [Processes -> Units \cup {Nobody}]
    /\ queue \in [Processes -> Seq(Units)]
    /\ projectHolder \in Units \cup {Nobody}
    /\ tx \in [Processes -> SUBSET Write]
    /\ durable \subseteq Write
    /\ effects \subseteq Units
    /\ aborts \in Nat

Distinct(q) == \A i, j \in 1 .. Len(q) : q[i] = q[j] => i = j

\* The queue of a process holds units of it that wait for the writer, once
\* each: one that timed out or was cancelled has left it.
QueuesHoldWaiters ==
    \A p \in Processes :
        /\ Distinct(queue[p])
        /\ \A i \in 1 .. Len(queue[p]) :
            /\ Home[queue[p][i]] = p
            /\ outcome[queue[p][i]] = "open"
            /\ pc[queue[p][i]] = 1

\* The types of the state, and that the lock is only ever handed to a unit
\* that still waits for it: wait_for cancels the acquire it gives up on.
TypeOK == Types /\ QueuesHoldWaiters

Init ==
    /\ kind \in [Units -> Kinds]
    /\ pc = [u \in Units |-> 0]
    /\ outcome = [u \in Units |-> "open"]
    /\ holder = [p \in Processes |-> Nobody]
    /\ queue = [p \in Processes |-> <<>>]
    /\ projectHolder = Nobody
    /\ tx = [p \in Processes |-> {}]
    /\ durable = {}
    /\ effects = {}
    /\ aborts = 0

-----------------------------------------------------------------------------
At(u, step) ==
    /\ outcome[u] = "open"
    /\ pc[u] \in 1 .. Len(Steps(kind[u]))
    /\ Steps(kind[u])[pc[u]] = step

Advance(u) ==
    /\ pc' = [pc EXCEPT ![u] = @ + 1]
    /\ outcome' = [outcome EXCEPT ![u] =
            IF pc[u] = Len(Steps(kind[u])) THEN "done" ELSE @]

Queued(u) == \E i \in 1 .. Len(queue[Home[u]]) : queue[Home[u]][i] = u

Start(u) ==
    /\ outcome[u] = "open"
    /\ pc[u] = 0
    /\ pc' = [pc EXCEPT ![u] = 1]
    /\ UNCHANGED <<kind, outcome, holder, queue, projectHolder, tx, durable,
                   effects, aborts>>

\* _write_lock.acquire(): join the queue, and hold the lock when at its head.
WaitForWriter(u) ==
    /\ At(u, "lockWriter")
    /\ ~Queued(u)
    /\ queue' = [queue EXCEPT ![Home[u]] = Append(@, u)]
    /\ UNCHANGED <<kind, pc, outcome, holder, projectHolder, tx, durable,
                   effects, aborts>>

LockWriter(u) ==
    /\ At(u, "lockWriter")
    /\ holder[Home[u]] = Nobody
    /\ queue[Home[u]] # <<>>
    /\ Head(queue[Home[u]]) = u
    /\ queue' = [queue EXCEPT ![Home[u]] = Tail(@)]
    /\ holder' = [holder EXCEPT ![Home[u]] = u]
    /\ Advance(u)
    /\ UNCHANGED <<kind, projectHolder, tx, durable, effects, aborts>>

UnlockWriter(u) ==
    /\ At(u, "unlockWriter")
    /\ holder' = [holder EXCEPT ![Home[u]] = Nobody]
    /\ Advance(u)
    /\ UNCHANGED <<kind, queue, projectHolder, tx, durable, effects, aborts>>

\* async_project_mutation_guard, an asyncio lock and then a file lock.
LockProject(u) ==
    /\ At(u, "lockProject")
    /\ projectHolder = Nobody
    /\ projectHolder' = u
    /\ Advance(u)
    /\ UNCHANGED <<kind, holder, queue, tx, durable, effects, aborts>>

UnlockProject(u) ==
    /\ At(u, "unlockProject")
    /\ projectHolder' = Nobody
    /\ Advance(u)
    /\ UNCHANGED <<kind, holder, queue, tx, durable, effects, aborts>>

OtherProcessWrites(u) == \E p \in Processes : p # Home[u] /\ tx[p] # {}

\* The first statement opens the transaction and takes SQLite's write lock.
WriteRow(u) ==
    /\ At(u, "write")
    /\ ~OtherProcessWrites(u)
    /\ tx' = [tx EXCEPT ![Home[u]] = @ \cup {[unit |-> u, at |-> pc[u]]}]
    /\ Advance(u)
    /\ UNCHANGED <<kind, holder, queue, projectHolder, durable, effects, aborts>>

\* The connection commits whatever its transaction holds.
Commit(u) ==
    /\ At(u, "commit")
    /\ durable' = durable \cup tx[Home[u]]
    /\ tx' = [tx EXCEPT ![Home[u]] = {}]
    /\ Advance(u)
    /\ UNCHANGED <<kind, holder, queue, projectHolder, effects, aborts>>

FileEffect(u) ==
    /\ At(u, "effect")
    /\ effects' = effects \cup {u}
    /\ Advance(u)
    /\ UNCHANGED <<kind, holder, queue, projectHolder, tx, durable, aborts>>

-----------------------------------------------------------------------------
(* Leaving the context managers early.                                     *)

\* A unit that gives up waiting must not release what another one holds.
ReleaseUnheldToo(u) ==
    /\ holder' = [holder EXCEPT ![Home[u]] = Nobody]
    /\ queue' = [queue EXCEPT ![Home[u]] = RemoveFirst(@, u)]
    /\ projectHolder' = IF projectHolder = u THEN Nobody ELSE projectHolder

\* An acquire that is shielded from its timeout stays in the queue.
StayQueued(u) ==
    /\ holder' = [holder EXCEPT ![Home[u]] = IF @ = u THEN Nobody ELSE @]
    /\ projectHolder' = IF projectHolder = u THEN Nobody ELSE projectHolder
    /\ UNCHANGED queue

\* The finally clauses: the locks the unit holds are released, and a unit in
\* the queue leaves it.
ReleaseAll(u) ==
    /\ holder' = [holder EXCEPT ![Home[u]] = IF @ = u THEN Nobody ELSE @]
    /\ queue' = [queue EXCEPT ![Home[u]] = RemoveFirst(@, u)]
    /\ projectHolder' = IF projectHolder = u THEN Nobody ELSE projectHolder

\* The except clauses of _acquire_writer.
ForgetRollback(u) == UNCHANGED tx
RollbackIfHolder(u) ==
    tx' = [tx EXCEPT ![Home[u]] = IF holder[Home[u]] = u THEN {} ELSE @]

Abort(u, how) ==
    /\ outcome[u] = "open"
    /\ pc[u] > 0
    /\ ReleaseAll(u)
    /\ outcome' = [outcome EXCEPT ![u] = how]
    /\ UNCHANGED <<kind, pc, durable, effects>>

\* An exception of the body: IntegrityError or any other Exception.
Fail(u) ==
    /\ aborts < MaxAborts
    /\ aborts' = aborts + 1
    /\ Abort(u, "failed")
    /\ RollbackIfHolder(u)

\* "database is locked", when another process keeps its transaction open.
BusyTimeout(u) ==
    /\ At(u, "write")
    /\ OtherProcessWrites(u)
    /\ Abort(u, "failed")
    /\ RollbackIfHolder(u)
    /\ UNCHANGED aborts

\* WriterLockTimeout of acquire_write_db(timeout): only the wait is bounded.
QueueTimeout(u) ==
    /\ kind[u] = "plain"
    /\ Queued(u)
    /\ Abort(u, "failed")
    /\ UNCHANGED <<tx, aborts>>

\* CancelledError derives from BaseException: no except clause sees it, and
\* only the finally clauses run.
Cancel(u) ==
    /\ aborts < MaxAborts
    /\ aborts' = aborts + 1
    /\ Abort(u, "cancelled")
    /\ UNCHANGED tx

Proceed(u) ==
    \/ WaitForWriter(u)
    \/ LockWriter(u)
    \/ UnlockWriter(u)
    \/ LockProject(u)
    \/ UnlockProject(u)
    \/ WriteRow(u)
    \/ Commit(u)
    \/ FileEffect(u)
    \/ BusyTimeout(u)

UnitStep(u) == Start(u) \/ Proceed(u) \/ Fail(u) \/ QueueTimeout(u) \/ Cancel(u)

Next == \E u \in Units : UnitStep(u)

\* A unit that has begun is scheduled until it ends: the event loop runs
\* every ready task, SQLite and the lock files serve their waiters.
Fairness == \A u \in Units : WF_vars(Proceed(u))

Spec == Init /\ [][Next]_vars /\ Fairness

-----------------------------------------------------------------------------
(* Properties.                                                             *)

\* Both locks are held exactly by the units between their acquire and their
\* release, so a timeout, a cancellation or a failure never frees the lock of
\* a unit that is still at work, and never keeps one for a unit that is gone.
Within(u, first, last) ==
    /\ outcome[u] = "open"
    /\ \E i \in 1 .. pc[u] - 1 : Steps(kind[u])[i] = first
    /\ \A i \in 1 .. pc[u] - 1 : Steps(kind[u])[i] # last

LocksMatchProgress ==
    \A u \in Units :
        /\ holder[Home[u]] = u <=> Within(u, "lockWriter", "unlockWriter")
        /\ projectHolder = u <=> Within(u, "lockProject", "unlockProject")

\* The unit ended before it committed this write of its own.
Uncommitted(w) ==
    ~\E i \in w.at .. pc[w.unit] - 1 : Steps(kind[w.unit])[i] = "commit"

\* "Auto-rollback on error": a unit that raised leaves none of the writes it
\* had not committed, although others use the same connection before and
\* after it and cancelled units leave their transactions open there.
FailedUnitsLeaveNothing ==
    \A w \in durable : outcome[w.unit] = "failed" => ~Uncommitted(w)

\* The same for a unit that was cancelled, which _acquire_writer announces as
\* "rollback on error" (db.py:1915) without an exception for cancellation.
CancelledUnitsLeaveNothing ==
    \A w \in durable : outcome[w.unit] = "cancelled" => ~Uncommitted(w)

\* A file effect is only ever exposed after its journal row is durable
\* (guarded_project_file_write: "Journal one filesystem mutation before
\* exposing its side effect").
EffectsAreJournaled ==
    \A u \in effects : \E w \in durable : w.unit = u

\* Nobody waits for ever: the writer lock is always taken before the project
\* lock, so units of any kinds and processes, with failures and cancellations
\* in between, all end.
EveryUnitEnds == \A u \in Units : pc[u] = 1 ~> outcome[u] # "open"
=============================================================================
