SPECIFICATION Spec
CONSTANTS
    f1 = f1
    f2 = f2
    Fds = {f1, f2}
    NoFd = NoFd
    Size = 2
    Listening = TRUE
    Ttl = "ahead"
    MaxBacklog = 1
PROPERTIES
    ExpiredAreClosed
