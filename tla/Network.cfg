SPECIFICATION NetworkSpec
CONSTANTS
    d1 = d1
    h1 = h1
    i1 = i1
    None = None
    Servers <- MCServers
    Devices <- MCDevices
    Interfaces <- MCInterfaces
    Hosts <- MCHosts
    MaxDevices = 1
    MaxInterfaces = 1
    Fds <- MCFds
    MaxIn = 0
INVARIANTS
    QuietWhenStopped
    CallsDoNotWait
PROPERTIES
    CommandsReturn
