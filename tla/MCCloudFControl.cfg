SPECIFICATION Spec
CONSTANTS
    Callers = {p1, p2}
    Ops = {o1, o2}
    Kinds = {change}
    Actors = {alice, bob}
    NoOp = NoOp
    NoActor = NoActor
    NoRow = NoRow
    MaxEpoch = 2
    MaxGeneration = 3
    MaxTime = 2
SYMMETRY Symmetry
INVARIANTS
    TypeOK
    LeaseMatchesRegistry
    PendingAcquiresFenced
    OneChangePerEpoch
PROPERTIES
    GenerationFencesHolders
    ImplementsExclusiveChange
CHECK_DEADLOCK FALSE
