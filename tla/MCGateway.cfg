SPECIFICATION FairSpec
CONSTANTS
    r1 = r1
    Request <- OneRequest
    Secret <- Tokens
    Path <- AllPaths
    Header = {"connection", "idempotency-key", "x-idempotency-key"}
    MaxIdle = 1
INVARIANTS
    TypeOK
    UpdatesStayOwned
    OnlyAsked
    UnmarkedOnce
PROPERTIES
    AbandonedEnds
