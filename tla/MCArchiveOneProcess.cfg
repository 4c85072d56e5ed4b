SPECIFICATION LifecycleSpec
CONSTANTS
    Callers = {p1}
    Ops = {o1, o2}
    Kinds = {archive}
    Actors = {alice, bob}
    NoOp = NoOp
    NoActor = NoActor
    NoRow = NoRow
    MaxEpoch = 2
    MaxGeneration = 3
    MaxTime = 1
    Projects = {s1}
    Writers = {}
    Approvals = {a1, a2}
    Bodies = {b1, b2}
    Selectors = {v1}
    ArchiveKind = archive
    NoProject = NoProject
    Free = Free
    MaxWrites = 1
    MaxFaults = 1
SYMMETRY Symmetry
INVARIANTS
    LifecycleTypeOK
    ArchivedContentWasApproved
    RecoveryPossible
PROPERTIES
    ImplementsExclusiveChangeWithArchives
CHECK_DEADLOCK FALSE
