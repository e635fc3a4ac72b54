SPECIFICATION FairSpec
CONSTANTS
    main = main
    poller = poller
    worker = worker
    f1 = f1
    f2 = f2
    conn = conn
    eventfd = eventfd
    Threads <- MCThreads
    Owner <- main
    LoopThread <- poller
    Channels <- MCChannels
    Wakeup <- eventfd
    Functors <- MCFunctors
INVARIANTS
    NoLostWakeup
    NoLostQuit
    EventfdReadSucceeds
    RunsOnce
PROPERTIES
    BatchIsClosed
    ImplementsTaskQueue
    ForeignRequestsTakeEffect
    OwnerRequestsTakeEffect
