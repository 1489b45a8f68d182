CONSTANTS
    Task = {t1, t2, t3}
    Timer = {}
    Link = {l1}
    NoLink = NoLink
    Stale = Stale
    N = 2
    M = 2
    W = 4
    C = 4
    MaxLeak = 0
    Interrupts = TRUE
    EnterFails = FALSE
    Rejects = FALSE
    Split = FALSE
    Bursty = FALSE
SPECIFICATION Spec
SYMMETRY Symmetry
INVARIANT CqNonEmpty
CHECK_DEADLOCK FALSE
