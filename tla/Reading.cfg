SPECIFICATION ReadingSpec
CONSTANTS
    w1 = w1
    w2 = w2
    x1 = x1
    x2 = x2
    y1 = y1
    Client = {w1, w2}
    LastPost = 3
    PageSize = 1
    MinCandidates = 2
    FeedPages = 3
    FeedTurns = 1
    LastRow = 3
    OwnRows = {1}
    RowsPerPage = 1
    PageLimit = 2
    ScanRows = 2
    ListPages = 4
    ListTurns = 3
    Deed = {x1, x2, y1}
    CardOf <- CardOfDef
    TypeOf <- TypeOfDef
    Silent = {"reply"}
    LastEvent = 3
    CardLimit = 1
    ScanLimit = 2
    EventWorker = {w1, w2}
    EventRequests = 5
    Texts <- TextsDef
    Sites <- SitesDef
    Libraries <- LibrariesDef
    SiteLists <- SiteListsDef
    PreAudit = FALSE
    LibraryEdits = 1
    LastAct = 3
    LastSecond = 2
    Thing = {x1, x2}
    Folder = {w1, w2}
    Peer = {w1, w2}
    Saver = {w1, w2}
    Settings = {{}, {"timeline", "follow", "personal"}}
    PerPage = 2
    FavBuffer = 1
    SpacePages = 2
    SpaceSaves = 2
    SpaceTurns = 1
SYMMETRY Symmetry
INVARIANTS
    ReadingTypeOK
    PagesHold
    WordsHold
PROPERTIES
    RemindersHold
CHECK_DEADLOCK FALSE
