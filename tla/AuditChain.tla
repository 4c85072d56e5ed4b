------------------------------ MODULE AuditChain ------------------------------
(***************************************************************************)
(* The audit log of a workspace (services/audit_chain.py) in the database  *)
(* file that holds it: rows inserted without a chain by images older than  *)
(* migration 176, the chain that migration activates, and the verification *)
(* against a checkpoint kept outside of the database.                      *)
(*                                                                         *)
(* SQLite admits one write transaction at a time; an append begins it, or  *)
(* joins its caller's, before it reads the head.  A hash is what it commits*)
(* to: the workspace, the legacy rows and the entries up to its own.       *)
(***************************************************************************)
EXTENDS Naturals, Sequences, FiniteSets, SequencesExt

CONSTANTS
    Workspaces,
    NoTx, NoRoot, NoHead, NoCheckpoint,
    MaxEntries      \* bound: audit rows ever written, chained or not

ASSUME EntriesAssumption == MaxEntries \in Nat

VARIABLES
    db,             \* the committed database
    tx,             \* the open write transaction, if it appends
    checkpoint,     \* the trusted checkpoint of each workspace
    written,        \* audit rows ever written: an entry id is never used again
    fleet           \* the last migration of the image whose processes run, or 0

auditVars == <<db, tx, checkpoint, written, fleet>>

Ids == 1 .. MaxEntries
Images == {174, 175, 176, 177}
Unreadable == 1
Versions == {0, Unreadable} \cup Images     \* 0: no file, or no object in it
Chained == {176, 177}           \* images that append to the chain

Hash == [workspace: Workspaces, root: SUBSET Ids, ids: Seq(Ids)]
ChainHead == [sequence: 0 .. MaxEntries, hash: Hash]
Entry == [id: Ids, sequence: Ids, previous: Hash, hash: Hash]

Database ==
    [version: Versions,
     legacy: SUBSET Ids,                  \* audit_log rows without a chain
     root: (SUBSET Ids) \cup {NoRoot},    \* audit_chain_state.legacy_root_hash
     active: BOOLEAN,                     \* audit_chain_state.enforcement_enabled
     log: [Workspaces -> Seq(Entry)],     \* audit_log rows in a chain
     head: [Workspaces -> ChainHead \cup {NoHead}]]

FreshDb ==
    [version |-> 0, legacy |-> {}, root |-> NoRoot, active |-> FALSE,
     log |-> [w \in Workspaces |-> <<>>], head |-> [w \in Workspaces |-> NoHead]]

Fresh(d) == d.version = 0

\* The transaction of an append: what it read or has written so far.  One that
\* was left is open on the connection without an owner.
Transaction ==
    [step: {"insert", "advance", "commit", "left"}, workspace: Workspaces, id: Ids,
     log: Seq(Entry), head: ChainHead]

ASSUME NullAssumption ==
    /\ NoTx \notin Transaction
    /\ \A ids \in SUBSET Ids : NoRoot # ids
    /\ NoHead \notin ChainHead
    /\ NoCheckpoint \notin ChainHead

GenesisHash(w, root) == [workspace |-> w, root |-> root, ids |-> <<>>]
EntryHash(previous, id) ==
    [workspace |-> previous.workspace, root |-> previous.root, ids |-> Append(previous.ids, id)]

-----------------------------------------------------------------------------
(* An image that has not heard of the activation inserts a bare row; the    *)
(* trigger of migration 175 refuses it once the chain is active.            *)
LegacyInsert ==
    /\ fleet \in Images \ Chained /\ ~db.active
    /\ written < MaxEntries
    /\ written' = written + 1
    /\ db' = [db EXCEPT !.legacy = @ \cup {written'}]
    /\ UNCHANGED <<tx, checkpoint, fleet>>

(* append_audit_entry refuses an inactive chain, creates the head of a new  *)
(* workspace and reads it ...                                               *)
AppendBegin(w) ==
    /\ fleet \in Chained /\ db.active
    /\ tx = NoTx
    /\ written < MaxEntries
    /\ written' = written + 1
    /\ tx' = [step |-> "insert", workspace |-> w, id |-> written', log |-> db.log[w],
              head |-> IF db.head[w] # NoHead THEN db.head[w]
                       ELSE [sequence |-> 0, hash |-> GenesisHash(w, db.root)]]
    /\ UNCHANGED <<db, checkpoint, fleet>>

(* ... inserts the row after it, unless the unique index has that sequence  *)
(* number already ...                                                       *)
AppendInsert ==
    /\ tx # NoTx /\ tx.step = "insert"
    /\ \A i \in DOMAIN tx.log : tx.log[i].sequence # tx.head.sequence + 1
    /\ LET row == [id |-> tx.id, sequence |-> tx.head.sequence + 1,
                   previous |-> tx.head.hash, hash |-> EntryHash(tx.head.hash, tx.id)]
       IN tx' = [tx EXCEPT !.log = Append(@, row), !.step = "advance"]
    /\ UNCHANGED <<db, checkpoint, written, fleet>>

(* ... and moves the head on to it.                                         *)
AppendAdvance ==
    /\ tx # NoTx /\ tx.step = "advance"
    /\ tx' = [tx EXCEPT !.step = "commit",
                        !.head = [sequence |-> Last(tx.log).sequence, hash |-> Last(tx.log).hash]]
    /\ UNCHANGED <<db, checkpoint, written, fleet>>

Store ==
    db' = [db EXCEPT !.log[tx.workspace] = tx.log, !.head[tx.workspace] = tx.head]

Commit ==
    /\ tx # NoTx /\ tx.step = "commit"
    /\ Store
    /\ tx' = NoTx
    /\ UNCHANGED <<checkpoint, written, fleet>>

(* Whatever fails, in the append or in the operation it is part of, the     *)
(* owner of the transaction rolls the whole of it back.                     *)
Rollback ==
    /\ tx # NoTx
    /\ tx' = NoTx
    /\ UNCHANGED <<db, checkpoint, written, fleet>>

(* A cancellation passes every rollback (db.py _acquire_writer) and leaves  *)
(* the transaction, at whatever step, to the next unit on the connection.   *)
(* That one commits it or, when it fails, rolls it back; what the unit      *)
(* appends itself is an append that begins after CommitLeft.                *)
AppendCancelled ==
    /\ tx # NoTx /\ tx.step # "left"
    /\ tx' = [tx EXCEPT !.step = "left"]
    /\ UNCHANGED <<db, checkpoint, written, fleet>>

CommitLeft ==
    /\ tx # NoTx /\ tx.step = "left"
    /\ Store
    /\ tx' = NoTx
    /\ UNCHANGED <<checkpoint, written, fleet>>

-----------------------------------------------------------------------------
(* verify_audit_chain reads one snapshot.                                   *)
LinksHold(d, w) ==
    \A i \in DOMAIN d.log[w] :
        LET e == d.log[w][i]
            previous == IF i = 1 THEN GenesisHash(w, d.root) ELSE d.log[w][i - 1].hash
        IN e.sequence = i /\ e.previous = previous /\ e.hash = EntryHash(e.previous, e.id)

HeadHolds(d, w) ==
    IF d.head[w] = NoHead THEN d.log[w] = <<>>
    ELSE d.head[w] =
           IF d.log[w] = <<>> THEN [sequence |-> 0, hash |-> GenesisHash(w, d.root)]
           ELSE [sequence |-> Last(d.log[w]).sequence, hash |-> Last(d.log[w]).hash]

ChainConsistent(d, w) == d.root = d.legacy /\ LinksHold(d, w) /\ HeadHolds(d, w)

ReachedSequence(d, w, c) == c.sequence \in DOMAIN d.log[w]
CheckpointConsistent(d, w, c) ==
    ReachedSequence(d, w, c) /\ d.log[w][c.sequence].hash = c.hash

Verdict(d, w) ==
    IF ~ChainConsistent(d, w) THEN "inconsistent"
    ELSE IF checkpoint[w] = NoCheckpoint THEN "unanchored"
    ELSE IF CheckpointConsistent(d, w, checkpoint[w]) THEN "anchored" ELSE "inconsistent"

(* The provider outside takes the last entry of a chain that verifies.      *)
TakeCheckpoint(w) ==
    /\ fleet \in Chained /\ db.log[w] # <<>>
    /\ Verdict(db, w) # "inconsistent"
    /\ LET e == Last(db.log[w]) IN
       checkpoint' = [checkpoint EXCEPT ![w] = [sequence |-> e.sequence, hash |-> e.hash]]
    /\ UNCHANGED <<db, tx, written, fleet>>

AuditNext ==
    \/ LegacyInsert \/ AppendInsert \/ AppendAdvance \/ Commit \/ Rollback
    \/ AppendCancelled \/ CommitLeft
    \/ \E w \in Workspaces : AppendBegin(w) \/ TakeCheckpoint(w)

-----------------------------------------------------------------------------
AuditTypeOK ==
    /\ db \in Database
    /\ tx \in Transaction \cup {NoTx}
    /\ tx # NoTx => fleet \in Chained
    /\ checkpoint \in [Workspaces -> ChainHead \cup {NoCheckpoint}]
    /\ written \in 0 .. MaxEntries
    /\ fleet \in Versions

\* An append was cancelled between its row and its head, and committed: the
\* last row is beyond a head that holds without it.
CutOff(d, w) ==
    d.log[w] # <<>> /\ ChainConsistent([d EXCEPT !.log[w] = Front(@)], w)

(* Once the chain is active, the committed rows of every workspace verify:  *)
(* no failed append, no interrupted migration, no restore and no image that *)
(* wrote before leaves a gap, a broken link, a head that is not the last    *)
(* row's or legacy rows other than the frozen ones.  The one exception is a *)
(* cancelled append, which may leave its row, and only that, without a head.*)
ActiveChainVerifies ==
    db.active => \A w \in Workspaces : ChainConsistent(db, w) \/ CutOff(db, w)

(* A chain that verifies as anchored begins with the very entries that were *)
(* there when the checkpoint was taken, and one that does not has lost some *)
(* of them, or its head to a cancelled append: a restored database cannot   *)
(* grow back into the checkpoint.                                           *)
CheckpointsTellRollbacks ==
    db.active => \A w \in Workspaces : checkpoint[w] # NoCheckpoint =>
        LET ids == [i \in DOMAIN db.log[w] |-> db.log[w][i].id]
        IN Verdict(db, w) = "anchored" <=>
              /\ ~CutOff(db, w)
              /\ IsPrefix(checkpoint[w].hash.ids, ids)
              /\ checkpoint[w].hash.root = db.legacy
=============================================================================
