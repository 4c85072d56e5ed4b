SPECIFICATION LifecycleSpec
CONSTANTS
    Callers = {p1, p2}
    Ops = {o1, o2, o3}
    Kinds = {archive}
    Actors = {alice}
    NoOp = NoOp
    NoActor = NoActor
    NoRow = NoRow
    MaxEpoch = 1
    MaxGeneration = 3
    MaxTime = 2
    Projects = {s1}
    Writers = {}
    Approvals = {a1}
    Bodies = {b1}
    Selectors = {v1}
    ArchiveKind = archive
    NoProject = NoProject
    Free = Free
    MaxWrites = 0
    MaxFaults = 0
SYMMETRY Symmetry
INVARIANT
    AtMostOneActive
CHECK_DEADLOCK FALSE
