SPECIFICATION DeskSpec
CONSTANTS
    w1 = w1
    w2 = w2
    x1 = x1
    x2 = x2
    LastTicket = 3
    TopicLimit = 1
    AuditWorker = {w1, w2}
    AuditRequests = 5
    Reporter = {x1, x2}
    Thing = {x1, x2}
    Threshold = 2
    ReportWorker = {w1, w2}
    ReportRequests = 3
    MaxLevel = 2
    LevelNeeds <- LevelNeedsDef
    DailyExp = 1
    GrantExp = 2
    GivenExp = {2}
    LastLoginDay = 1
    GrowthWorker = {w1, w2}
    GrowthRequests = 3
    GrowthStops = 1
    Person = {1, 2}
    Mailed = {1}
    CasName <- CasNameDef
    Browser = {w1, w2}
    LastUid = 3
    SignInRequests = 4
    LastSignDay = 1
    LastPiece = 2
    Sort = {x1, x2}
    Asked <- AskedDef
    PiecesPerPage = 1
    OfficePages = 2
    OfficeTurns = 1
SYMMETRY Symmetry
INVARIANTS
    DeskTypeOK
    ReviewsHold
PROPERTIES
    AccountsHold
CHECK_DEADLOCK FALSE
