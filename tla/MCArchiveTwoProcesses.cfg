SPECIFICATION LifecycleSpec
CONSTANTS
    Callers = {p1, p2}
    Ops = {o1, o2}
    Kinds = {archive}
    Actors = {alice}
    NoOp = NoOp
    NoActor = NoActor
    NoRow = NoRow
    MaxEpoch = 1
    MaxGeneration = 2
    MaxTime = 1
    Projects = {s1}
    Writers = {w1}
    Approvals = {a1, a2}
    Bodies = {b1}
    Selectors = {v1, v2}
    ArchiveKind = archive
    NoProject = NoProject
    Free = Free
    MaxWrites = 1
    MaxFaults = 1
SYMMETRY Symmetry
INVARIANTS
    FenceMatchesOperation
    ArchivedAtApprovedCoordinates
PROPERTIES
    FilesFrozen
CHECK_DEADLOCK FALSE
