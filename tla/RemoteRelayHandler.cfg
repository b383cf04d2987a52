SPECIFICATION HandlerSpec
CONSTANTS
    Cli = {me}
    Phone = {p1}
    Me = me
    ConnId = {c1, c2}
    SessionId = {s1}
    PairCode = {k1}
    NoConn = NoConn
    NoClient = NoClient
    NoSession = NoSession
    NoCode = NoCode
PROPERTY
    SessionStarts
