\* Refuted, checked one at a time: ValidatorsAreSent (a server that does not
\* answer cell.info is never sent switch.validator again), LinkRecovers (a
\* connection whose end is never seen is kept for ever).
SPECIFICATION LinkSpec
CONSTANTS
    f1 = f1
    f2 = f2
    Fds = {f1, f2}
    NoFd = NoFd
    Size = 1
    Listening = FALSE
    Ttl = "none"
    MaxBacklog = 0
    MaxInbox = 2
PROPERTIES
    ValidatorsAreSent
\*  LinkRecovers
