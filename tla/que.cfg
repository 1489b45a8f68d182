CONSTANTS
    Elem = {e1, e2}
    C = 2
    MinChunks = 1
    MaxMap = 4
    MaxBlk = 5
    NoElem = NoElem
    Linked = {e2}
    SqLen = 3
SPECIFICATION ExeqSpec
INVARIANTS TypeOK ExeqTypeOK ChunksOwned InBounds TasksKept WalkIsUnlinkedPrefix
PROPERTIES PopToIsTheLoop ImplementsChunkFifo BatchIsExact
