SPECIFICATION MCSpec
CONSTANTS
    MaxConns = 2
    h1 = h1
    h2 = h2
    None = None
    Children <- MCChildren
    Fds <- MCFds
    MaxQueue = 2
    MaxUnread = 2
CHECK_DEADLOCK FALSE
INVARIANTS
    IpcReadsDoNotWait
PROPERTIES
    WritesReachLatest
    StopEndsChild
