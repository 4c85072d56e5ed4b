SPECIFICATION DecisionSpec
CONSTANTS
    Callers = {p1}
    Ops = {o1, o2}
    Kinds = {archive, decide}
    Actors = {alice}
    NoOp = NoOp
    NoActor = NoActor
    NoRow = NoRow
    MaxEpoch = 2
    MaxGeneration = 2
    MaxTime = 1
    Projects = {s1}
    Writers = {}
    Approvals = {a1}
    Bodies = {b1}
    Selectors = {v1}
    ArchiveKind = archive
    NoProject = NoProject
    Free = Free
    MaxWrites = 0
    MaxFaults = 1
    s1 = s1
    Paths = {d1, d2}
    ProjectOf <- MCProjectOf
    Ids = {i1, i2}
    Texts = {t1, t2}
    NoId = NoId
    NoDocument = NoDocument
    DecisionKind = decide
SYMMETRY Symmetry
INVARIANTS
    DecisionTypeOK
    FenceMatchesEitherOperation
    FrontmatterMatchesRecord
    InterruptedDecisionsResume
    SupersessionEnds
PROPERTIES
    FilesChangeUnderFence
    ImplementsExclusiveChangeWithDecisions
CHECK_DEADLOCK FALSE
