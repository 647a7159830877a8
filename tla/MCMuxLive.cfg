SPECIFICATION FairMuxSpec
CONSTANTS
    openclaw = openclaw
    unyolo = unyolo
    r1 = r1
    r2 = r2
    Client <- OneClient
    MaxId = 3
    PageLimit = 1
    SafetyWindow = 0
    Configs <- FullConfigs
    StreamId = {1, 2}
    Unparsable = {}
    MaxSent = 0
    Request <- OneRequest
    NoRequest = NoRequest
    Limits = {1}
    Negatives = {}
PROPERTIES
    EventuallyDelivered
