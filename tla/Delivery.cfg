SPECIFICATION DeliverySpec
CONSTANTS
    m1 = m1
    m2 = m2
    m3 = m3
    m4 = m4
    m5 = m5
    k1 = k1
    k2 = k2
    Msg = {m1, m2}
    NoMsg = NoMsg
    Worker = {w1, w2}
    SyncFallback = {TRUE, FALSE}
    Faults = {"touch", "publish", "confirm", "shard", "ddl", "ddl_in_send", "mark_commit", "dlq_commit", "clear", "connection", "shutdown", "kill"}
    MaxFaults = 2
    Message = {m1, m2, m3, m4, m5}
    NoBucket = NoBucket
    Key = {k1, k2}
    KeyOf <- KeyOfDef
    Direct = {m5}
    Cooldown = 2
    MaxLag = 1
    Concurrent = 3
    Offer <- OfferDef
    MaxPeers = 2
SYMMETRY Symmetry
INVARIANTS
    DeliveryTypeOK
    WriteBeforeMark
    WaitsInOneBuffer
    ChannelsHold
PROPERTY OnlyPromisedSteps
CHECK_DEADLOCK FALSE
