CONSTANTS
    Elem = {e1, e2}
    C = 2
    MinChunks = 1
    MaxMap = 2
    MaxBlk = 5
    NoElem = NoElem
    Linked = {e2}
    SqLen = 3
SPECIFICATION ExeqSpec
PROPERTIES BlockPopKeepsRest
