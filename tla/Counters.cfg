SPECIFICATION CountersSpec
CONSTANTS
    i1 = i1
    i2 = i2
    i3 = i3
    w1 = w1
    w2 = w2
    Comment = {i1, i2, i3}
    NoComment = NoComment
    AreaWorker = {w1, w2}
    AreaRequests = 4
    Moment = {i1, i2, i3}
    NoMoment = NoMoment
    MomentWorker = {w1, w2}
    MomentRequests = 6
    User = {ua, ub}
    Tag = {t1, t2}
    Special = Special
    Default = Default
    MaxUserTags = 1
    FollowWorker = {w1, w2}
    FollowRequests = 5
    LikedMoment = {lm}
    LikedResource = {lr}
    Disliked = {ld}
    LikedComment = {lc}
    OthersMarks = 0
    MarkWorker = {w1, w2}
    MarkRequests = 5
    Folder = {f1, f2}
    FavMoment = {r1}
    FavResource = {r2}
    OthersFavs = 0
    FavWorker = {w1, w2}
    FavRequests = 5
    Visit = {i1, i2}
    LastDay = 1
    MaxViewTries = 2
    ViewWorker = {w1, w2}
    ViewStops = 1
    GateRequests = 1
    Process = {w1, w2}
    Reader = {r1}
    Ttl = 1
    LastTick = 2
    ConfigWrites = 1
    Author = {w1, w2}
    Text = {"x", "y"}
    Window = 1
    DayLength = 2
    DailyLimit = 2
    LastMoment = 2
    PostRequests = 3
SYMMETRY Symmetry
INVARIANTS
    CountersTypeOK
    CommentsHold
    MomentsHold
    FollowsHold
    MarksHold
    FavouritesHold
    ViewsHold
    GateHolds
    ConfigHolds
    LimitsHold
CHECK_DEADLOCK FALSE
