SPECIFICATION DecisionSpec
CONSTANTS
    Callers = {p1}
    Ops = {o1, o2}
    Kinds = {archive, decide}
    Actors = {alice}
    NoOp = NoOp
    NoActor = NoActor
    NoRow = NoRow
    MaxEpoch = 2
    MaxGeneration = 2
    MaxTime = 1
    Projects = {s1}
    Writers = {}
    Approvals = {}
    Bodies = {b1}
    Selectors = {v1}
    ArchiveKind = archive
    NoProject = NoProject
    Free = Free
    MaxWrites = 0
    MaxFaults = 1
    s1 = s1
    Paths = {d1}
    ProjectOf <- MCProjectOf
    Ids = {}
    Texts = {t1}
    NoId = NoId
    NoDocument = NoDocument
    DecisionKind = decide
SYMMETRY Symmetry
INVARIANT
    EveryDecisionResumes
CHECK_DEADLOCK FALSE
