SPECIFICATION Spec
CONSTANTS
    Cli = {a1}
    Phone = {p1}
    ConnId = {c1, c2, c3}
    SessionId = {s1}
    PairCode = {}
    NoConn = NoConn
    NoClient = NoClient
    NoSession = NoSession
    NoCode = NoCode
INVARIANT
    PhoneUnboundOnDisconnect
