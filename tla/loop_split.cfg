CONSTANTS
    Task = {t1, t2, t3}
    Timer = {}
    Link = {l1}
    NoLink = NoLink
    Stale = Stale
    N = 2
    M = 2
    W = 4
    C = 4
    MaxLeak = 0
    Interrupts = FALSE
    EnterFails = FALSE
    Rejects = FALSE
    Split = TRUE
    Bursty = FALSE
SPECIFICATION Spec
SYMMETRY Symmetry
INVARIANT LinkedAfter
CHECK_DEADLOCK FALSE
