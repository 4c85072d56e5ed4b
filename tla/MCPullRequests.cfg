SPECIFICATION Spec
CONSTANTS
    t1 = t1
    t2 = t2
    Tasks = {t1, t2}
    Prs = {r1, r2}
    Mentions <- MCMentions
    InitialStatus <- MCInitial
    Externals = {x1}
    Attempts = {a1}
    Processes = {p1, p2}
    Merger = p1
    NoPr = NoPr
    NoTask = NoTask
    NoAttempt = NoAttempt
    Touches <- MCTouches
    Idle = Idle
    MaxCommits = 2
    MaxRequests = 4
    MaxFaults = 1
SYMMETRY Symmetry
INVARIANTS
    PrTypeOK
    LandedCommitsWereTested
    CompletedWorkLanded
    ReceiptsMatchEffects
    FailedMergesLeaveNothing
CHECK_DEADLOCK FALSE
