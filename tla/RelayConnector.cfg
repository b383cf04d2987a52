SPECIFICATION FairSpec
CONSTANTS
    Sock = {w1, w2}
    NoSock = NoSock
    MaxReconnectIntervals = 12
INVARIANTS
    TypeOK
    OneSocket
    HeartbeatMatchesSocket
    QuietAfterDisconnect
PROPERTY
    NeverGivesUp
