SPECIFICATION PushSpec
CONSTANTS
    m4 = m4
    m5 = m5
    k1 = k1
    k2 = k2
    Message = {m1, m2, m3, m4}
    NoBucket = NoBucket
    Key = {k1, k2}
    KeyOf <- KeyOfDef
    Direct = {}
    Cooldown = 2
    MaxLag = 1
    Concurrent = 2
INVARIANT NothingForgotten
CHECK_DEADLOCK FALSE
