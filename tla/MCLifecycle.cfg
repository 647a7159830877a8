SPECIFICATION FairSpec
CONSTANTS
    r1 = r1
    r2 = r2
    Request <- Requests
INVARIANTS
    TypeOK
    ClosedLast
    StatusTells
    OnlyClientsDelay
PROPERTIES
    Exits
