SPECIFICATION Spec
CONSTANTS
    Key = {1, 2, 3}
    Val = {v1, v2}
    InitLen = 3
    MaxLen = 6
    NoNode = NoNode
SYMMETRY ValSymmetry
INVARIANTS TypeOK NodesKept
PROPERTY OrderKept
