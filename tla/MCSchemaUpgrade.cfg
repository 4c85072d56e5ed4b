SPECIFICATION Spec
CONSTANTS
    r1 = r1
    r2 = r2
    Workspaces = {w1}
    NoTx = NoTx
    NoRoot = NoRoot
    NoHead = NoHead
    NoCheckpoint = NoCheckpoint
    MaxEntries = 2
    Releases = {r1, r2}
    LastVersion <- MCLast
    InitialVersions = {0, 174, 175}
    Nothing = Nothing
    MaxAttempts = 2
    MaxFaults = 1
INVARIANTS
    UpgradeTypeOK
    ActiveChainVerifies
    CheckpointsTellRollbacks
PROPERTIES
    RestoresAreExact
CHECK_DEADLOCK FALSE
