SPECIFICATION Spec
CONSTANTS
    u1 = u1
    u2 = u2
    u3 = u3
    p1 = p1
    p2 = p2
    Units = {u1, u2, u3}
    Processes = {p1, p2}
    Home <- MCHome
    Nobody = Nobody
    MaxAborts = 1
INVARIANTS
    TypeOK
    LocksMatchProgress
    FailedUnitsLeaveNothing
    EffectsAreJournaled
PROPERTIES
    EveryUnitEnds
CHECK_DEADLOCK FALSE
