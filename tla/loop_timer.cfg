CONSTANTS
    Task = {t1, t2}
    Timer = {t1}
    Link = {}
    NoLink = NoLink
    Stale = Stale
    N = 1
    M = 1
    W = 2
    C = 2
    MaxLeak = 0
    Interrupts = FALSE
    EnterFails = FALSE
    Rejects = FALSE
    Split = FALSE
    Bursty = FALSE
SPECIFICATION FairSpec
PROPERTY TimerFires
CHECK_DEADLOCK FALSE
