SPECIFICATION ProteusSpec
CONSTANTS
    Platform = "wasm"
    Tasks = {t1, t2}
    Ids = {s1, s2}
    Limit = 1
    Absent = Absent
    LastResort = 3
    BoxSessions = {s1, s2}
    BoxPrekeys = {1}
    Backend = "wasm"
    MaxKeys = 6
    MaxSent = 1
    MaxMessages = 1
    MaxPeers = 1
    MaxHandled = 2
    MaxFaults = 1
    MaxCrashes = 1
INVARIANTS
    BundlesUsable
CHECK_DEADLOCK FALSE
