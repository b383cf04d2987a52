SPECIFICATION Spec
CONSTANTS
    Cli = {a1, a2}
    Phone = {p1}
    ConnId = {c1, c2, c3}
    SessionId = {s1}
    PairCode = {}
    NoConn = NoConn
    NoClient = NoClient
    NoSession = NoSession
    NoCode = NoCode
SYMMETRY Sym
INVARIANTS
    TypeOK
    ClientMapSound
    SessionBindingSound
    DeliveredToParties
PROPERTY
    LifecycleSpec
