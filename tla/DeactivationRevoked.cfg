SPECIFICATION DeactSpec
CONSTANTS
    pa = pa
    pb = pb
    Person = {pa}
    Lives = 2
    Limit = 1
    MaxSubmits = 1
    MaxLogins = 1
    MaxFailures = 0
PROPERTIES
    PurgedOnlyIfNotRevoked
CHECK_DEADLOCK FALSE
