CONSTANTS
    Task = {t1, t2, t3}
    Timer = {t1}
    Link = {l1}
    NoLink = NoLink
    Stale = Stale
    N = 2
    M = 2
    W = 4
    C = 2
    MaxLeak = 1
    Interrupts = FALSE
    EnterFails = TRUE
    Rejects = TRUE
    Split = FALSE
    Bursty = FALSE
SPECIFICATION Spec
SYMMETRY Symmetry
INVARIANTS TypeOK ExactlyOnce RingsSound CqNonEmpty NeverSleepsOnWork LinkedAfter WrappersOwned
PROPERTY ImplementsCallbacks
CHECK_DEADLOCK FALSE
