SPECIFICATION LifeSpec
CONSTANTS
    Fd = {f1, f2}
    NoFd = NoFd
    Inval = Inval
    Unset = Unset
    MaxFiles = 2
    Bits = 2
    MaxArgs = 2
SYMMETRY FdSymmetry
INVARIANT AllSucceeded
CHECK_DEADLOCK FALSE
