SPECIFICATION MuxSpec
CONSTANTS
    openclaw = openclaw
    unyolo = unyolo
    r1 = r1
    r2 = r2
    Client <- TwoClients
    MaxId = 3
    PageLimit = 2
    SafetyWindow = 0
    Configs <- QueueConfigs
    StreamId = {1, 2}
    Unparsable = {}
    MaxSent = 0
    Request <- OneRequest
    NoRequest = NoRequest
    Limits = {1}
    Negatives <- Minus1
INVARIANTS
    BotsSeeOrder
PROPERTIES
    ImplementsFanOut
