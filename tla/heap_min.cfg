SPECIFICATION Spec
CONSTANTS
    Key = {1, 2, 3, 4}
    Val = {v1}
    InitLen = 4
    MaxLen = 8
    NoNode = NoNode
INVARIANT MinAtRoot
