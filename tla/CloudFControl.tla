---------------------------- MODULE CloudFControl ----------------------------
(***************************************************************************)
(* The Cloud/F control of one workspace: a change epoch, an exclusive      *)
(* lease with a generation, the registry of active operations and the      *)
(* durable journal of changes                                              *)
(* (core/api/services/project_lifecycle.py, tables of migration 187).      *)
(*                                                                         *)
(* A caller is one process (API server, MCP server, CLI).  Inside a        *)
(* process the writer lock runs one call at a time.  Across processes only *)
(* SQLite serializes: a call first reads in autocommit mode, decides, and  *)
(* then opens a write transaction whose first UPDATE re-checks part of     *)
(* what was read.  Every call is therefore a read step that stores what it *)
(* will use later, and a commit step, with anything in between.            *)
(***************************************************************************)
EXTENDS Naturals

CONSTANTS
    Callers,        \* processes that share the database
    Ops,            \* operation identifiers chosen by clients
    Kinds,          \* operation kinds
    Actors,         \* users and agents on whose behalf calls are made
    NoOp,           \* NULL in lease_operation_id
    NoActor,        \* NULL in lease_owner
    NoRow,          \* no row for that key
    MaxEpoch,       \* bound: change epochs explored
    MaxGeneration,  \* bound: lease generations explored
    MaxTime         \* bound: instants of the clock explored

ASSUME NullAssumption == NoOp \notin Ops /\ NoActor \notin Actors
ASSUME BoundAssumption == MaxEpoch \in Nat /\ MaxGeneration \in Nat /\ MaxTime \in Nat

VARIABLES
    ready,          \* readiness_state = 'ready'
    epoch,          \* change_epoch
    generation,     \* lease_generation
    leaseOp,        \* lease_operation_id
    leaseOwner,     \* lease_owner
    leaseExpires,   \* lease_expires_at (0 stands for NULL)
    active,         \* cloud_f_active_operations, by operation
    journal,        \* cloud_f_change_operations, by operation
    now,            \* the clock
    call            \* the call each process is serving

controlVars == <<ready, epoch, generation, leaseOp, leaseOwner, leaseExpires>>
cloudVars == <<controlVars, active, journal>>
vars == <<cloudVars, now, call>>

-----------------------------------------------------------------------------
(* Rows and calls.                                                         *)

Row == [kind: Kinds, actor: Actors, base: Nat, generation: Nat]

JournalRow ==
    [state: {"active", "completed"}, kind: Kinds, actor: Actors, base: Nat,
     generation: Nat, advance: BOOLEAN, result: Nat]

ASSUME NoRowAssumption == NoRow \notin Row /\ NoRow \notin JournalRow

Idle == [type |-> "idle"]

AcquireCall ==
    [type: {"acquire"}, op: Ops, kind: Kinds, actor: Actors, epoch: Nat,
     generation: Nat, same: BOOLEAN, renew: BOOLEAN, now: Nat, expires: Nat]

CompleteCall ==
    [type: {"complete"}, op: Ops, actor: Actors, epoch: Nat, generation: Nat,
     advance: BOOLEAN, now: Nat]

TypeOK ==
    /\ ready \in BOOLEAN
    /\ epoch \in Nat
    /\ generation \in Nat
    /\ leaseOp \in Ops \cup {NoOp}
    /\ leaseOwner \in Actors \cup {NoActor}
    /\ leaseExpires \in Nat
    /\ active \in [Ops -> Row \cup {NoRow}]
    /\ journal \in [Ops -> JournalRow \cup {NoRow}]
    /\ now \in Nat
    /\ call \in [Callers -> {Idle} \cup AcquireCall \cup CompleteCall]

\* A new workspace, or one that was activated without an advance.
Init ==
    /\ ready \in BOOLEAN
    /\ epoch = 0
    /\ generation = 0
    /\ leaseOp = NoOp
    /\ leaseOwner = NoActor
    /\ leaseExpires = 0
    /\ active = [o \in Ops |-> NoRow]
    /\ journal = [o \in Ops |-> NoRow]
    /\ now = 0
    /\ call = [p \in Callers |-> Idle]

-----------------------------------------------------------------------------
(* Activation.  ensure_cloud_f_control opens the write transaction before  *)
(* anything is read, so the call is one step.  bootstrap_activation        *)
(* advances the epoch, existing_live_adoption keeps it.                    *)

IsActive(o) == active[o] # NoRow

Activate(p, bootstrap) ==
    /\ call[p] = Idle
    /\ ~ready
    /\ epoch < MaxEpoch
    /\ leaseOp = NoOp
    /\ \A o \in Ops : ~IsActive(o)
    /\ ready' = TRUE
    /\ epoch' = IF bootstrap THEN epoch + 1 ELSE epoch
    /\ UNCHANGED <<generation, leaseOp, leaseOwner, leaseExpires,
                   active, journal, now, call>>

-----------------------------------------------------------------------------
(* Acquire: the reads and the checks made on them.                         *)

RowMatches(row, k, a, e) == row.kind = k /\ row.actor = a /\ row.base = e

\* The active row, when there is one, must be this operation's, with the
\* same coordinates, and the journal must agree with the registry.
RegistryAllows(o, k, a) ==
    IF IsActive(o)
    THEN /\ RowMatches(active[o], k, a, epoch)
         /\ journal[o] # NoRow
         /\ journal[o].state = "active"
         /\ RowMatches(journal[o], k, a, epoch)
    ELSE journal[o] = NoRow

NoOtherActiveIgnored(o) == TRUE
NoOtherActive(o) == \A other \in Ops : IsActive(other) => other = o

AcquireRead(p, o, k, a, x) ==
    /\ call[p] = Idle
    /\ ready
    /\ x > now
    /\ leaseOp \in {NoOp, o} \/ leaseExpires <= now
    /\ NoOtherActive(o)
    /\ leaseOp = o => IsActive(o) /\ leaseOwner = a
    /\ RegistryAllows(o, k, a)
    /\ generation < MaxGeneration
    /\ call' = [call EXCEPT ![p] =
            [type |-> "acquire", op |-> o, kind |-> k, actor |-> a,
             epoch |-> epoch, generation |-> generation,
             same |-> leaseOp = o, renew |-> IsActive(o),
             now |-> now, expires |-> x]]
    /\ UNCHANGED <<cloudVars, now>>

(* Acquire: the compare-and-set on the control row, then the two rows of   *)
(* the operation, in one transaction.                                      *)

AcquireCasIgnoringGeneration(c) ==
    /\ epoch = c.epoch
    /\ IF c.same THEN leaseOp = c.op
       ELSE leaseOp = NoOp \/ leaseExpires <= c.now
AcquireCas(c) ==
    /\ epoch = c.epoch
    /\ generation = c.generation
    /\ IF c.same THEN leaseOp = c.op
       ELSE leaseOp = NoOp \/ leaseExpires <= c.now

\* A renewal of the lease an operation still holds keeps its generation.
GrantedGenerationUnchanged(c) == c.generation
GrantedGeneration(c) == IF c.same THEN c.generation ELSE c.generation + 1

RegistryRowWithoutBase(c) ==
    [kind |-> c.kind, actor |-> c.actor, generation |-> GrantedGeneration(c)]
RegistryRow(c) ==
    [kind |-> c.kind, actor |-> c.actor, base |-> c.epoch,
     generation |-> GrantedGeneration(c)]

RowsForAcquire(c) ==
    IF c.renew
    THEN /\ IsActive(c.op)
         /\ RowMatches(active[c.op], c.kind, c.actor, c.epoch)
         /\ journal[c.op] # NoRow
         /\ journal[c.op].state = "active"
         /\ RowMatches(journal[c.op], c.kind, c.actor, c.epoch)
    ELSE journal[c.op] = NoRow /\ ~IsActive(c.op)

AcquireCommit(p) ==
    LET c == call[p] IN
    /\ c.type = "acquire"
    /\ AcquireCas(c)
    /\ RowsForAcquire(c)
    /\ generation' = GrantedGeneration(c)
    /\ leaseOp' = c.op
    /\ leaseOwner' = c.actor
    /\ leaseExpires' = c.expires
    /\ active' = [active EXCEPT ![c.op] = RegistryRow(c)]
    /\ journal' = [journal EXCEPT ![c.op] =
            [state |-> "active", kind |-> c.kind, actor |-> c.actor,
             base |-> c.epoch, generation |-> GrantedGeneration(c),
             advance |-> FALSE, result |-> 0]]
    /\ call' = [call EXCEPT ![p] = Idle]
    /\ UNCHANGED <<ready, epoch, now>>

-----------------------------------------------------------------------------
(* Complete: the reads.  A completed operation replays its stored result   *)
(* and changes nothing, so only active ones go on.                         *)

CompleteRead(p, o, a, adv) ==
    /\ call[p] = Idle
    /\ journal[o] # NoRow
    /\ journal[o].state = "active"
    /\ journal[o].actor = a
    /\ journal[o].base = epoch
    /\ leaseOp = o
    /\ leaseOwner = a
    /\ leaseExpires > now
    /\ IsActive(o)
    /\ NoOtherActive(o)
    /\ active[o].actor = a
    /\ active[o].base = epoch
    /\ epoch < MaxEpoch
    /\ call' = [call EXCEPT ![p] =
            [type |-> "complete", op |-> o, actor |-> a, epoch |-> epoch,
             generation |-> generation, advance |-> adv, now |-> now]]
    /\ UNCHANGED <<cloudVars, now>>

CompleteCas(c) ==
    /\ leaseOp = c.op
    /\ leaseOwner = c.actor
    /\ epoch = c.epoch
    /\ generation = c.generation
    /\ leaseExpires > c.now

RowsForComplete(c) ==
    /\ IsActive(c.op)
    /\ active[c.op].actor = c.actor
    /\ active[c.op].base = c.epoch
    /\ active[c.op].generation = c.generation
    /\ journal[c.op] # NoRow
    /\ journal[c.op].state = "active"
    /\ journal[c.op].actor = c.actor
    /\ journal[c.op].base = c.epoch
    /\ journal[c.op].generation = c.generation

CompletedEpochSwapped(c) == IF c.advance THEN c.epoch ELSE c.epoch + 1
CompletedEpoch(c) == IF c.advance THEN c.epoch + 1 ELSE c.epoch

CompleteCommit(p) ==
    LET c == call[p] IN
    /\ c.type = "complete"
    /\ CompleteCas(c)
    /\ RowsForComplete(c)
    /\ epoch' = CompletedEpoch(c)
    /\ leaseOp' = NoOp
    /\ leaseOwner' = NoActor
    /\ leaseExpires' = 0
    /\ active' = [active EXCEPT ![c.op] = NoRow]
    /\ journal' = [journal EXCEPT
            ![c.op] = [@ EXCEPT !.state = "completed", !.advance = c.advance,
                                !.result = CompletedEpoch(c)]]
    /\ call' = [call EXCEPT ![p] = Idle]
    /\ UNCHANGED <<ready, generation, now>>

-----------------------------------------------------------------------------
\* A compare-and-set that matches no row, an IntegrityError, a cancelled
\* request or a dead process: the transaction rolls back and nothing stays.
Rollback(p) ==
    /\ call[p] # Idle
    /\ call' = [call EXCEPT ![p] = Idle]
    /\ UNCHANGED <<cloudVars, now>>

Tick ==
    /\ now < MaxTime
    /\ now' = now + 1
    /\ UNCHANGED <<cloudVars, call>>

\* The read step of a call of process p; MaxTime + 1 is a lease that outlives
\* the clock.
CallStart(p) ==
    \/ \E o \in Ops, k \in Kinds, a \in Actors, x \in 1 .. MaxTime + 1 :
            AcquireRead(p, o, k, a, x)
    \/ \E o \in Ops, a \in Actors, adv \in BOOLEAN : CompleteRead(p, o, a, adv)
    \/ \E bootstrap \in BOOLEAN : Activate(p, bootstrap)

CallEnd(p) == AcquireCommit(p) \/ CompleteCommit(p) \/ Rollback(p)

Next == Tick \/ \E p \in Callers : CallStart(p) \/ CallEnd(p)

Spec == Init /\ [][Next]_vars

-----------------------------------------------------------------------------
(* Properties.                                                             *)

\* The lease and the registry never drift apart: an operation is active
\* exactly while it holds the lease, so at most one is, and its registry and
\* journal rows carry the owner, the epoch and the generation of the lease.
\* complete_cloud_f_change and acquire_cloud_f_change answer
\* cloud_f_operation_registry_mismatch, and nobody can go on, when this fails.
LeaseMatchesRegistry ==
    \A o \in Ops :
        /\ IsActive(o) <=> leaseOp = o
        /\ IsActive(o) =>
            /\ ready
            /\ active[o].actor = leaseOwner
            /\ active[o].base = epoch
            /\ active[o].generation = generation
            /\ journal[o] # NoRow
            /\ journal[o].state = "active"
            /\ RowMatches(journal[o], active[o].kind, leaseOwner, epoch)
            /\ journal[o].generation = generation
        /\ ~IsActive(o) => journal[o] = NoRow \/ journal[o].state = "completed"

\* What an acquire that has read and not yet committed may rely on: while the
\* generation is still the one it read, a lease it saw free is still free, and
\* it renews a registry row exactly when it saw its own lease.
PendingAcquiresFenced ==
    \A p \in Callers : call[p].type = "acquire" =>
        LET c == call[p] IN
        /\ ready
        /\ c.generation <= generation
        /\ c.renew = c.same
        /\ c.generation = generation /\ ~c.same => leaseOp = NoOp

\* Each change epoch is consumed by at most one completed change, and the
\* journal's result of a change is the epoch it left behind: two processes
\* that complete, or one that retries, cannot advance the same epoch twice.
Advanced(o) ==
    journal[o] # NoRow /\ journal[o].state = "completed" /\ journal[o].advance

OneChangePerEpoch ==
    \A o \in Ops : Advanced(o) =>
        /\ journal[o].result = journal[o].base + 1
        /\ journal[o].result <= epoch
        /\ \A other \in Ops :
            Advanced(other) /\ journal[other].base = journal[o].base => other = o

\* Whoever newly gets the lease gets a generation no earlier holder had, so
\* every write of an earlier holder that names its generation is refused.
GenerationFencesHolders ==
    [][/\ generation' >= generation
       /\ leaseOp' # leaseOp /\ leaseOp' # NoOp => generation' > generation]_vars

\* The control implements the abstract exclusive change: in particular a
\* lease that expired is only ever renewed by the operation that holds it.
Exclusive == INSTANCE ExclusiveChange WITH holder <- leaseOp
ImplementsExclusiveChange == Exclusive!Spec
=============================================================================
