SPECIFICATION Spec
CONSTANTS
    f1 = f1
    f2 = f2
    p1 = p1
    p2 = p2
    Files = {f1, f2}
    Projects = {p1, p2}
    Dropped <- MCDropped
    Kinds <- MCKinds
    Bases = {b1}
    Ids = {i1, i2}
    Tasks = {t1, t2}
    NoRow = NoRow
    Gone = Gone
    NoFile = NoFile
    NoName = NoName
    NoPath = NoPath
    Idle = Idle
    Free = Free
    MaxRequests = 4
    MaxFaults = 1
SYMMETRY Symmetry
INVARIANTS
    PipelineTypeOK
    ActiveRowsHaveWorkers
    ArtifactsBehindInsertedRows
PROPERTIES
    UploadsSurvive
    ArtifactsNotReplaced
CHECK_DEADLOCK FALSE
