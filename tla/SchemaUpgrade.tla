---------------------------- MODULE SchemaUpgrade ----------------------------
(***************************************************************************)
(* Offline schema upgrades and restores with a receipt and a backup        *)
(* (services/schema_upgrade.py, run_migrations in db.py), over the         *)
(* database of AuditChain.                                                 *)
(*                                                                         *)
(* An upgrade or a restore holds the migration lock from end to end and    *)
(* its caller has stopped every writer, so one runs at a time; it may be   *)
(* killed between any two steps, and later ones find what it left.  Each   *)
(* release has a receipt of its own.  A receipt also carries what the      *)
(* database held when its attempt began (before: for the properties only). *)
(*                                                                         *)
(* What the database holds lies in its file and, until a checkpoint, in    *)
(* the sidecars of the file (its write-ahead log); file is what the file   *)
(* would hold without them.                                                *)
(***************************************************************************)
EXTENDS AuditChain

CONSTANTS
    Releases,
    LastVersion,        \* the last migration each release carries
    InitialVersions,    \* versions the database may be at to begin with
    Nothing,            \* no backup file, no digest, no runner, no receipt
    MaxAttempts,        \* bound: attempts of a release
    MaxFaults           \* bound: kills and failing steps of the runner

ASSUME ReleaseAssumption == LastVersion \in [Releases -> Chained]
ASSUME InitialAssumption == InitialVersions \subseteq {0, 174, 175}
ASSUME BoundsAssumption == MaxAttempts \in Nat /\ MaxFaults \in Nat

VARIABLES
    file,       \* the database file without its sidecars
    receipt,    \* the receipt file of each release
    backups,    \* the backup file of each release and attempt
    runner,     \* the upgrade or restore that holds the migration lock
    faults

upgradeVars == <<file, receipt, backups, runner, faults>>
vars == <<auditVars, upgradeVars>>

\* A file SQLite cannot read: of a database or of a backup.
Torn == [FreshDb EXCEPT !.version = Unreadable]

Attempts == 1 .. MaxAttempts
Statuses == {"running", "failed", "succeeded", "rolled_back"}
Receipt ==
    [status: Statuses, attempt: Attempts, planned: BOOLEAN,
     digest: Database \cup {Nothing}, before: Database]
UpgradeSteps == {"copy", "digest", "migrate", "fail"}
RestoreSteps == {"unlink", "replace", "record"}

Runner == [release: Releases, step: UpgradeSteps \cup RestoreSteps]

ASSUME NothingAssumption == Nothing \notin Database \cup Receipt \cup Runner

Init ==
    /\ \E v \in InitialVersions :
         db = [FreshDb EXCEPT !.version = v, !.root = IF v = 175 THEN {} ELSE NoRoot]
    /\ tx = NoTx
    /\ checkpoint = [w \in Workspaces |-> NoCheckpoint]
    /\ written = 0
    /\ fleet = 0
    /\ file = db
    /\ receipt = [r \in Releases |-> Nothing]
    /\ backups = [r \in Releases |-> [n \in Attempts |-> Nothing]]
    /\ runner = Nothing
    /\ faults = 0

-----------------------------------------------------------------------------
(* _claimed_security_repairs_needed: a hook that did not follow its version.*)
(* An older image never infers repairs.                                     *)
RepairsNeeded(d, last) ==
    /\ d.version <= last
    /\ \/ d.version >= 175 /\ d.root = NoRoot
       \/ d.version >= 176 /\ ~d.active
Mutates(d, last) == d.version < last \/ RepairsNeeded(d, last)

(* An image refuses to boot on a database that is ahead of it, or that only *)
(* an offline upgrade may bring up to it (as migration 175 may be applied   *)
(* by a booting image too, databases begin with or without it).             *)
Boots(image) == db.version = image /\ ~RepairsNeeded(db, image)

FleetStart(image) ==
    /\ fleet = 0 /\ runner = Nothing
    /\ Boots(image)
    /\ fleet' = image
    /\ UNCHANGED <<db, tx, checkpoint, written, upgradeVars>>

(* SQLite checkpoints now and then while it writes (Checkpoint, below), and *)
(* when the last connection to a database closes.  A process that is killed *)
(* does not, or is killed in the middle of it.                              *)
LeavesFile == file' = file \/ (file # db /\ file' = Torn)

FleetStop ==
    /\ fleet # 0
    /\ fleet' = 0
    /\ tx' = NoTx
    /\ LeavesFile
    /\ UNCHANGED <<db, checkpoint, written, receipt, backups, runner, faults>>

-----------------------------------------------------------------------------
At(step) == runner # Nothing /\ runner.step = step
GoTo(step) == runner' = [runner EXCEPT !.step = step]
StatusOf(r) == IF receipt[r] = Nothing THEN "none" ELSE receipt[r].status
Mine == receipt[runner.release]
MyLast == LastVersion[runner.release]
BackupOf(r) == backups[r][receipt[r].attempt]
MyBackup == BackupOf(runner.release)
SetBackup(content) == backups' = [backups EXCEPT ![runner.release][Mine.attempt] = content]
Record(status, digest) ==
    receipt' = [receipt EXCEPT ![runner.release].status = status,
                               ![runner.release].digest = digest]

Offline == fleet = 0 /\ runner = Nothing

Checkpoint ==
    /\ fleet # 0 \/ At("migrate")
    /\ file' = db
    /\ UNCHANGED <<auditVars, receipt, backups, runner, faults>>

(* _run_controlled_upgrade_locked: a first attempt, or one after a rollback.*)
UpgradeStart(r) ==
    /\ Offline
    /\ StatusOf(r) \in {"none", "rolled_back"}
    /\ db.version # Unreadable
    /\ LET n == IF receipt[r] = Nothing THEN 1 ELSE receipt[r].attempt + 1
           planned == Mutates(db, LastVersion[r]) /\ ~Fresh(db)
       IN /\ n \in Attempts
          /\ receipt' = [receipt EXCEPT ![r] =
               [status |-> "running", attempt |-> n, planned |-> planned,
                digest |-> Nothing, before |-> db]]
          /\ runner' = [release |-> r, step |-> IF planned THEN "copy" ELSE "migrate"]
    /\ file' = db
    /\ UNCHANGED <<auditVars, backups, faults>>

(* _backup_database_before_migration, at a path of the attempt's own.       *)
CopyUnlessThere ==
    /\ At("copy")
    /\ LET others == {n \in Attempts : backups[runner.release][n] # Nothing}
       IN SetBackup(IF others = {} THEN db ELSE backups[runner.release][Max(others)])
    /\ GoTo("digest")
    /\ UNCHANGED <<auditVars, file, receipt, faults>>
Copy ==
    /\ At("copy")
    /\ SetBackup(db)
    /\ GoTo("digest")
    /\ UNCHANGED <<auditVars, file, receipt, faults>>

(* persist_backup_ready, before the first schema write.                     *)
DigestLater ==
    /\ At("digest")
    /\ GoTo("migrate")
    /\ UNCHANGED <<auditVars, file, receipt, backups, faults>>
PersistDigest ==
    /\ At("digest")
    /\ Record("running", MyBackup)
    /\ GoTo("migrate")
    /\ UNCHANGED <<auditVars, file, backups, faults>>

(* The migrations before 175 (of a fresh database); a migration's SQL       *)
(* commits its version, its hook runs after it, or in a later attempt.      *)
MigrateUpTo174(d) == [d EXCEPT !.version = 174]
Migrate175(d) == [d EXCEPT !.version = 175]
Hook175(d) == [d EXCEPT !.root = d.legacy]
Migrate176(d) == [d EXCEPT !.version = 176]
ActivateWithRootFound(d) == [d EXCEPT !.active = TRUE]
ActivateAuditChain(d) == [d EXCEPT !.root = d.legacy, !.active = TRUE]
Migrate177(d) == [d EXCEPT !.version = 177]

Migrate ==
    /\ At("migrate") /\ Mutates(db, MyLast)
    /\ db' = CASE db.version = 0 -> MigrateUpTo174(db)
               [] db.version = 174 -> Migrate175(db)
               [] db.version >= 175 /\ db.root = NoRoot -> Hook175(db)
               [] db.version = 175 /\ db.root # NoRoot -> Migrate176(db)
               [] db.version >= 176 /\ db.root # NoRoot /\ ~db.active -> ActivateAuditChain(db)
               [] OTHER -> Migrate177(db)
    /\ UNCHANGED <<tx, checkpoint, written, fleet, upgradeVars>>

UpgradeDone ==
    /\ At("migrate") /\ db.version = MyLast /\ ~Mutates(db, MyLast)
    /\ Record("succeeded", Mine.digest)
    /\ runner' = Nothing
    /\ file' = db
    /\ UNCHANGED <<auditVars, backups, faults>>

OlderImage ==
    /\ At("migrate") /\ db.version > MyLast
    /\ GoTo("fail")
    /\ UNCHANGED <<auditVars, file, receipt, backups, faults>>

Fault == faults < MaxFaults /\ faults' = faults + 1

(* A step raises; a failed copy takes its file away.                        *)
StepFails ==
    /\ At("copy") \/ At("digest") \/ At("migrate")
    /\ Fault
    /\ GoTo("fail")
    /\ UNCHANGED <<auditVars, file, receipt, backups>>

UpgradeFailed ==
    /\ At("fail")
    /\ Record("failed", IF Mine.planned THEN MyBackup ELSE Nothing)
    /\ runner' = Nothing
    /\ file' = db
    /\ UNCHANGED <<auditVars, backups, faults>>

-----------------------------------------------------------------------------
(* restore_controlled_upgrade.  An upgrade that had nothing to do is rolled *)
(* back by its receipt alone.                                               *)
HadNothingToDo(r) ==
    StatusOf(r) = "succeeded" /\ ~receipt[r].planned /\ ~Fresh(receipt[r].before)

RestoreNothing(r) ==
    /\ Offline
    /\ HadNothingToDo(r)
    /\ db.version = receipt[r].before.version
    /\ receipt' = [receipt EXCEPT ![r].status = "rolled_back"]
    /\ UNCHANGED <<auditVars, file, backups, runner, faults>>

(* The backup must be there; its digest must be the receipt's, or, if the   *)
(* attempt is still running and has none, becomes it.                       *)
RestoreStart(r) ==
    /\ Offline
    /\ StatusOf(r) \in {"running", "failed", "succeeded"} /\ ~HadNothingToDo(r)
    /\ \/ Fresh(receipt[r].before) /\ UNCHANGED receipt
       \/ /\ receipt[r].planned /\ BackupOf(r) # Nothing
          /\ receipt[r].digest = Nothing => receipt[r].status = "running"
          /\ receipt[r].digest \in {Nothing, BackupOf(r)}
          /\ receipt' = [receipt EXCEPT ![r].digest = BackupOf(r)]
    /\ runner' = [release |-> r, step |-> "unlink"]
    /\ UNCHANGED <<auditVars, file, backups, faults>>

(* _restore_backup reads the backup (an empty file passes SQLite's          *)
(* integrity check) and takes the sidecars of the database away ...         *)
RestoreUnlink ==
    /\ At("unlink")
    /\ IF ~Fresh(Mine.before) /\ MyBackup = Torn
       THEN runner' = Nothing /\ UNCHANGED db
       ELSE GoTo("replace") /\ db' = file
    /\ UNCHANGED <<tx, checkpoint, written, fleet, file, receipt, backups, faults>>

(* ... before it replaces, or removes, the file.                            *)
RestoreReplace ==
    /\ At("replace")
    /\ db' = IF Fresh(Mine.before) THEN FreshDb ELSE MyBackup
    /\ file' = db'
    /\ GoTo("record")
    /\ UNCHANGED <<tx, checkpoint, written, fleet, receipt, backups, faults>>

RestoreRecord ==
    /\ At("record")
    /\ IF db.version = Mine.before.version
       THEN Record("rolled_back", Mine.digest) ELSE UNCHANGED receipt
    /\ runner' = Nothing
    /\ UNCHANGED <<auditVars, file, backups, faults>>

(* A kill while the backup is copied leaves no file, an empty one, or one   *)
(* with a journal that a read-only connection cannot roll back.             *)
Kill ==
    /\ runner # Nothing
    /\ Fault
    /\ IF At("copy") THEN \E left \in {Nothing, FreshDb, Torn} : SetBackup(left)
       ELSE UNCHANGED backups
    /\ IF At("migrate") THEN LeavesFile ELSE UNCHANGED file
    /\ runner' = Nothing
    /\ UNCHANGED <<auditVars, receipt>>

Next ==
    \/ AuditNext /\ UNCHANGED upgradeVars
    \/ \E image \in Images : FleetStart(image)
    \/ FleetStop \/ Checkpoint
    \/ \E r \in Releases : UpgradeStart(r) \/ RestoreNothing(r) \/ RestoreStart(r)
    \/ Copy \/ PersistDigest \/ Migrate \/ UpgradeDone \/ OlderImage \/ StepFails \/ UpgradeFailed
    \/ RestoreUnlink \/ RestoreReplace \/ RestoreRecord \/ Kill

Spec == Init /\ [][Next]_vars

-----------------------------------------------------------------------------
(* Types; and no writer runs during an upgrade or a restore, and a database *)
(* that was there is migrated only with its exact copy anchored.            *)
UpgradeTypeOK ==
    /\ AuditTypeOK
    /\ file \in Database
    /\ \A r \in Releases : receipt[r] # Nothing => receipt[r] \in Receipt
    /\ backups \in [Releases -> [Attempts -> Database \cup {Nothing}]]
    /\ runner # Nothing =>
        /\ runner \in Runner
        /\ fleet = 0
        /\ At("migrate") /\ Mine.planned => Mine.digest = MyBackup /\ MyBackup = Mine.before
    /\ faults \in 0 .. MaxFaults

(* A restore puts back the exact database its attempt began with, and a     *)
(* receipt says rolled back only when it is there; whichever release, after *)
(* whatever kills, and whatever other attempts did in between.  When it     *)
(* takes the sidecars away, and with them what was not checkpointed, the    *)
(* restore can be repeated until it is through.  There are two exceptions:  *)
(* an attempt that was killed while it copied the backup may put back an    *)
(* empty file, and one that had nothing to do is rolled back by its receipt *)
(* alone, which compares no more than the version.                          *)
RestoresAreExact ==
    [][/\ At("unlink") /\ db' # db =>
            /\ Mine.status # "rolled_back"
            /\ Fresh(Mine.before) \/ (Mine.digest = MyBackup /\ MyBackup \notin {Nothing, Torn})
       /\ At("replace") /\ db' # db =>
            db' = Mine.before \/ (MyBackup = FreshDb /\ ~Fresh(Mine.before))
       /\ \A r \in Releases :
            receipt[r] # Nothing /\ receipt'[r].status = "rolled_back" =>
              \/ receipt[r].status = "rolled_back"
              \/ db = receipt[r].before
              \/ HadNothingToDo(r) /\ db.version = receipt[r].before.version]_vars
=============================================================================
