SPECIFICATION RetryingSpec
CONSTANTS
    Callers = {p1}
    Ops = {o1, o2}
    Kinds = {archive}
    Actors = {alice}
    NoOp = NoOp
    NoActor = NoActor
    NoRow = NoRow
    MaxEpoch = 2
    MaxGeneration = 3
    MaxTime = 1
    Projects = {s1}
    Writers = {w1}
    Approvals = {a1}
    Bodies = {b1}
    Selectors = {v1}
    ArchiveKind = archive
    NoProject = NoProject
    Free = Free
    MaxWrites = 1
    MaxFaults = 1
PROPERTIES
    RetriesFinishArchive
CHECK_DEADLOCK FALSE
