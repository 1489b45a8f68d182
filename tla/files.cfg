SPECIFICATION LifeSpec
CONSTANTS
    Fd = {f1, f2}
    NoFd = NoFd
    Inval = Inval
    Unset = Unset
    MaxFiles = 4
    Bits = 2
    MaxArgs = 3
SYMMETRY FdSymmetry
INVARIANTS LifeTypeOK SlotsOwned KernelAgrees PickedIsTheLoop AllReleased SurvivesFilter
PROPERTIES ReleasedOnce PastTheEndLast
CHECK_DEADLOCK FALSE
