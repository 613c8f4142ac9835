SPECIFICATION ProteusSpec
CONSTANTS
    Platform = "generic"
    Tasks = {t1}
    Ids = {s1, s2}
    Limit = 1
    Absent = Absent
    LastResort = 2
    BoxSessions = {s1, s2}
    BoxPrekeys = {1}
    Backend = "sql"
    MaxKeys = 5
    MaxSent = 1
    MaxMessages = 2
    MaxPeers = 1
    MaxHandled = 2
    MaxFaults = 1
    MaxCrashes = 1
INVARIANTS
    ProteusTypeOK
    BundlesUsable
    OneIdentity
PROPERTIES
    SessionsKeepContract
SYMMETRY Symmetry
CHECK_DEADLOCK FALSE
