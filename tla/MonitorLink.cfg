SPECIFICATION LinkSpec
CONSTANTS
    f1 = f1
    f2 = f2
    Fds = {f1, f2}
    NoFd = NoFd
    Size = 1
    Listening = FALSE
    Ttl = "none"
    MaxBacklog = 0
    MaxInbox = 2
PROPERTIES
    LinkUsesPool
    LinkComesUp
    BothAreSent
