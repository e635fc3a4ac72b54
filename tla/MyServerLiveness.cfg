SPECIFICATION FairSpec
CONSTANTS
    c1 = c1
    c2 = c2
    c3 = c3
    acceptor = acceptor
    wakeup = wakeup
    None = None
    Conns <- MCConns2
    kMaxConnections = 1
    Fds <- MCFds
    MaxIn = 1
    MaxOut = 1
    AcceptChannel = acceptor
    WakeupChannel = wakeup
PROPERTIES
    GoneClientIsReleased
    RefusedClientIsReleased
    QueuedClientIsAnswered
