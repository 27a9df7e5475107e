SPECIFICATION InboxSpec
CONSTANTS
    w1 = w1
    w2 = w2
    ua = ua
    ub = ub
    User = {ua, ub}
    Keys = 3
    Concurrent = 1
    DailyLimit = 3
    GateLimit = 1
    PreAudit = FALSE
    Budgets <- BudgetsDef
    LastNotice = 2
    NoticeLimit = 1
    NoticeKey = {nk}
    NoKey = NoKey
    NoticeWorker = {w1, w2}
    NoticeRequests = 3
SYMMETRY Symmetry
INVARIANTS
    InboxTypeOK
    StrangersHold
    PreviewOfLast
PROPERTIES
    NoticesHold
CHECK_DEADLOCK FALSE
