CONSTANTS
    Task = {t1, t2, t3}
    Timer = {}
    Link = {}
    NoLink = NoLink
    Stale = Stale
    N = 1
    M = 1
    W = 2
    C = 2
    MaxLeak = 0
    Interrupts = FALSE
    EnterFails = FALSE
    Rejects = TRUE
    Split = FALSE
    Bursty = FALSE
SPECIFICATION FairSpec
PROPERTIES SoonRuns NextRuns DispatchedWhenQuiet
CHECK_DEADLOCK FALSE
