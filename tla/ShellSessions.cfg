SPECIFICATION ShellSpec
CONSTANTS
    f1 = f1
    f2 = f2
    f3 = f3
    Fds = {f1, f2, f3}
    NoFd = NoFd
    Size = 2
    Listening = TRUE
    Ttl = "ahead"
    MaxBacklog = 1
INVARIANTS
    CounterExact
    OneSlotPerFd
    ControlWellFormed
    UsersSentMarker
PROPERTIES
    UsesPool
    ImplementsConnections
    StrangersLeave
