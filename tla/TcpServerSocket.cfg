SPECIFICATION Spec
CONSTANTS
    d1 = d1
    d2 = d2
    i1 = i1
    None = None
    Devices <- MCDevices
    Interfaces <- MCInterfaces
    Servers <- MCServers
    Hosts = {}
    MaxDevices = 1
    MaxInterfaces = 2
    Fds <- MCFds
    MaxIn = 2
INVARIANTS
    TypeOK
    OpenHasSlot
    WithinLimit
    CallsDoNotWait
    EndClosesAll
