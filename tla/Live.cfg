SPECIFICATION LiveSpec
CONSTANTS
    m1 = m1
    m2 = m2
    m3 = m3
    m4 = m4
    k1 = k1
    k2 = k2
    Msg = {m1}
    NoMsg = NoMsg
    Worker = {w1, w2}
    SyncFallback = {TRUE, FALSE}
    Faults = {"publish", "confirm", "shard", "ddl", "mark_commit", "clear", "connection", "shutdown"}
    MaxFaults = 3
    Message = {m1, m2, m3, m4}
    NoBucket = NoBucket
    Key = {k1, k2}
    KeyOf <- KeyOfDef
    Direct = {}
    Cooldown = 2
    MaxLag = 1
    Concurrent = 1
    Person = {pa, pb}
    Lives = 2
    Limit = 1
    MaxSubmits = 2
    MaxLogins = 1
    MaxFailures = 2
INVARIANTS
    NothingForgotten
    BodyAccounted
    DeactTypeOK
    PendingMeansPurged
    CasdoorLast
    PurgeRemembered
PROPERTIES
    AcceptedBecomesReady
    KeepsPromise
    BufferedIsAttempted
    NamedDeactivationEnds
CHECK_DEADLOCK FALSE
