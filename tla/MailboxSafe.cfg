SPECIFICATION Spec
CONSTANTS
    User = {ua, ub}
    Keys = 2
    Concurrent = 2
    DailyLimit = 3
    GateLimit = 2
    PreAudit = FALSE
    Acks = 1
    Deletes = 1
    Recalls = 1
    Closes = 1
    Admins = 1
    Follows = 1
    Budgets <- BudgetsDef
SYMMETRY Symmetry
INVARIANTS
    RecallIsMutual
    RecalledTextGone
    CountedOnce
PROPERTIES
    KnownStaysKnown
CHECK_DEADLOCK FALSE
