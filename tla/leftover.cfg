\* A session is created while the shutdown tasks are awaited.
SPECIFICATION Spec
CONSTANTS
    MaxConnections = 1
    MaxSessions = 1
    Timeout = 1
    Sockets = 1
    Creations = 1
    MaxRequests = 1
PROPERTIES
    NothingLeftAtDispose
CHECK_DEADLOCK FALSE
