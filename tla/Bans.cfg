SPECIFICATION BansSpec
CONSTANTS
    BanWorker = {"w"}
    BanRequests = 2
INVARIANT BannedIsRefused
CHECK_DEADLOCK FALSE
