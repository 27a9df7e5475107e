SPECIFICATION Spec
CONSTANTS
    Msg = {m1}
    NoMsg = NoMsg
    Worker = {w1, w2}
    SyncFallback = {TRUE, FALSE}
    Faults = {"shard", "dlq_commit"}
    MaxFaults = 2
INVARIANT BodyAccounted
CHECK_DEADLOCK FALSE
