\* One place for a channel and one for a session: every newcomer finds the server full.
SPECIFICATION FairSpec
CONSTANTS
    MaxConnections = 1
    MaxSessions = 1
    Timeout = 1
    Sockets = 3
    Creations = 3
    MaxRequests = 4
INVARIANTS
    TypeOK
    WithinLimits
    ChannelsAgree
PROPERTIES
    NothingHangs
CHECK_DEADLOCK FALSE
