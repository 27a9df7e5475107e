SPECIFICATION Spec
CONSTANTS
    User = {ua, ub}
    Keys = 3
    Concurrent = 1
    DailyLimit = 3
    GateLimit = 2
    PreAudit = FALSE
    Acks = 0
    Deletes = 0
    Recalls = 0
    Closes = 0
    Admins = 0
    Follows = 0
    Budgets <- BudgetsDef
SYMMETRY Symmetry
INVARIANTS
    AckedWasSeen
CHECK_DEADLOCK FALSE
