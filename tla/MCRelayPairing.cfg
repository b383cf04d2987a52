SPECIFICATION FairSpec
CONSTANTS
    Cli = {a1}
    Phone = {p1, p2}
    ConnId = {c1, c2}
    SessionId = {s1}
    PairCode = {k1, k2}
    NoConn = NoConn
    NoClient = NoClient
    NoSession = NoSession
    NoCode = NoCode
INVARIANT
    OnlyLatestCodeWorks
PROPERTIES
    AdmittedByLatestCode
    DeadCliNoticed
    ShutdownFinishes
