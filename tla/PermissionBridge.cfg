SPECIFICATION FairSpec
CONSTANT
    Req = {r1, r2}
INVARIANTS
    TypeOK
    PendingExact
PROPERTIES
    DecisionSpec
    RequestDecided
