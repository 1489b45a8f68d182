SPECIFICATION ClientSpec
CONSTANTS
    W = 7
    LA48_TAGH = 3
    LA57_TAGH = 2
    Aligns = {0, 1, 2}
    Thread = {"main", "other"}
    Main = "main"
    Al = 1
    Addr = {{1}, {2}, {1, 2}}
    NSoon = 5
    AgainTag = 3
    FreeTag = 6
INVARIANTS ClientTypeOK RoundTrip TagsDelivered MemoryHeld NoOrphans SocketsOwned
